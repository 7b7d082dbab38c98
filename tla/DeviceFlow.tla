----------------------------- MODULE DeviceFlow ------------------------------
(***************************************************************************)
(* The device authorization grant (RFC 8628) over its repository port:     *)
(* RequestDeviceAuthorizationService opens a code, DeviceConsentService    *)
(* records the user's decision and DeviceCodeGrant.execute serves the      *)
(* polls.  Consents and polls read the row, decide, and then either save   *)
(* the whole row back as they read it or call redeem, the only atomic      *)
(* check-and-set of DeviceCodeRepository.                                  *)
(*                                                                         *)
(* Suspends has the meaning it has in RefreshRotation: FALSE is the        *)
(* in-memory adapter, whose rows die with the process.  Saving is modelled *)
(* as the port has it: one indivisible upsert of every column.             *)
(***************************************************************************)
EXTENDS Naturals

CONSTANTS
  Code,      \* device codes (each with its user_code)
  Client,    \* clients registered for the device_code grant
  User,      \* users who can sign in on the verification page
  Poll,      \* concurrent /token requests, each slot reused without end
  Consent,   \* concurrent decisions on the verification page
  CodeTTL,   \* device_code_ttl_seconds, in ticks
  Interval,  \* polling_interval_seconds, in ticks
  MaxTime,   \* bound of the model: the clock stops here
  Suspends,  \* does an await of the repository yield to other requests?
  None       \* absent value

\* next stands for last_polled_at + interval (0 before the first poll), user
\* for user_sub, redeemed for redeemed_at being set.  The scope travels along
\* and decides nothing.
Row == [client : Client, expires : Nat, next : Nat, user : User \union {None},
        denied : BOOLEAN, redeemed : BOOLEAN]

Verdict == [user : User, approved : BOOLEAN]

\* A poll names its authenticated client, a consent the user and the verdict.
PollParams == [code : Code, client : Client]
ConsentParams == [code : Code, verdict : Verdict]

ASSUME ConstantsAssumption ==
  /\ CodeTTL \in Nat \ {0} /\ Interval \in Nat /\ MaxTime \in Nat
  /\ Suspends \in BOOLEAN
  /\ Poll \intersect Consent = {}
  /\ None \notin User \union Row \union PollParams \union ConsentParams

VARIABLES
  row,      \* the store: Code -> Row or None
  patient,  \* does the device of a code wait for the interval? (never changes)
  now,      \* Clock.now()
  pc,       \* where each request stands between two awaits
  req,      \* its parameters
  seen,     \* the row it works on
  stamp,    \* the `now` it read before its last await
  asked,    \* history: verdicts users submitted, per code
  told,     \* history: verdicts the server accepted, per code
  paid,     \* history: users on whose behalf tokens were minted, per code
  mints,    \* history: how often tokens were minted per code (2 means "more")
  slowed    \* history: codes whose device was told slow_down

Process == Poll \union Consent
local == <<req, seen, stamp>>
history == <<asked, told, paid, mints, slowed>>
vars == <<row, patient, now, pc, local, history>>

TypeOK ==
  /\ row \in [Code -> Row \union {None}]
  /\ patient \in [Code -> BOOLEAN]
  /\ now \in Nat
  /\ pc \in [Process -> {"idle", "lookup", "check", "mark", "redeem", "mint", "decide"}]
  /\ req \in [Process -> PollParams \union ConsentParams \union {None}]
  /\ seen \in [Process -> Row \union {None}]
  /\ stamp \in [Process -> Nat]
  /\ asked \in [Code -> SUBSET Verdict]
  /\ told \in [Code -> SUBSET Verdict]
  /\ paid \in [Code -> SUBSET User]
  /\ mints \in [Code -> 0..2]
  /\ slowed \in SUBSET Code

Init ==
  /\ row = [d \in Code |-> None]
  /\ patient \in [Code -> BOOLEAN]
  /\ now = 0
  /\ pc = [p \in Process |-> "idle"]
  /\ req = [p \in Process |-> None]
  /\ seen = [p \in Process |-> None]
  /\ stamp = [p \in Process |-> 0]
  /\ asked = [d \in Code |-> {}] /\ told = [d \in Code |-> {}]
  /\ paid = [d \in Code |-> {}] /\ mints = [d \in Code |-> 0]
  /\ slowed = {}

------------------------------------------------------------------------------
\* The predicates of the DeviceCode entity.

Expired(c, at) == at >= c.expires
Pending(c) == c.user = None /\ ~c.denied
Approved(c) == c.user # None /\ ~c.denied

\* Mutant: a poll exactly at the end of the interval is too early.
CanPollLater(c, at) == at > c.next

CanPoll(c, at) == at >= c.next

\* Mutant: the deny button takes the approve branch.
DecidedYes(c, verdict) == [c EXCEPT !.user = verdict.user, !.denied = FALSE]

Decided(c, verdict) ==
  [c EXCEPT !.user = IF verdict.approved THEN verdict.user ELSE None,
            !.denied = ~verdict.approved]

\* Mutant: a poll rebuilds the code as it was issued.
MarkPolledAnew(c, at) ==
  [c EXCEPT !.next = at + Interval, !.user = None, !.denied = FALSE, !.redeemed = FALSE]

\* Mutant: a poll drops last_polled_at.
MarkPolledNever(c, at) == [c EXCEPT !.next = None]

MarkPolled(c, at) == [c EXCEPT !.next = at + Interval]

\* Mutant: redeem forgets that a code is single-use.
RedeemableTwice(c, at) == Approved(c) /\ ~Expired(c, at)

\* redeem's WHERE clause.
Redeemable(c, at) == Approved(c) /\ ~c.redeemed /\ ~Expired(c, at)

\* Mutant: an await in the middle of the in-memory adapter.
ScheduledAnyway(S) == TRUE

\* Without suspension a request runs from its arrival to its answer alone.
Scheduled(S) == Suspends \/ \A q \in Process \ S : pc[q] = "idle"

Finish(p) ==
  /\ pc' = [pc EXCEPT ![p] = "idle"]
  /\ req' = [req EXCEPT ![p] = None]
  /\ seen' = [seen EXCEPT ![p] = None]
  /\ stamp' = [stamp EXCEPT ![p] = 0]

Goto(p, from, to) == pc[p] = from /\ pc' = [pc EXCEPT ![p] = to]

------------------------------------------------------------------------------
\* A code drawn at random was never seen before, not even before a crash.
Unused(d) == row[d] = None /\ asked[d] = {} /\ d \notin slowed

\* /device_authorization: a fresh device_code and user_code for a client.
Authorize(d, c) ==
  /\ Scheduled({}) /\ Unused(d)
  /\ row' = [row EXCEPT ![d] =
               [client |-> c, expires |-> now + CodeTTL, next |-> 0, user |-> None,
                denied |-> FALSE, redeemed |-> FALSE]]
  /\ UNCHANGED <<patient, now, pc, local, history>>

\* Both handlers begin by looking the row up.
Lookup(p) ==
  /\ Goto(p, "lookup", "check")
  /\ seen' = [seen EXCEPT ![p] = row[req[p].code]]
  /\ UNCHANGED <<patient, row, now, req, stamp, history>>

------------------------------------------------------------------------------
\* The user's side: POST of the verification page.

SubmitConsent(q, d, v) ==
  /\ pc[q] = "idle" /\ Scheduled({q})
  /\ row[d] # None
  /\ pc' = [pc EXCEPT ![q] = "lookup"]
  /\ req' = [req EXCEPT ![q] = [code |-> d, verdict |-> v]]
  /\ asked' = [asked EXCEPT ![d] = @ \union {v}]
  /\ UNCHANGED <<patient, row, now, seen, stamp, told, paid, mints, slowed>>

\* Mutant: a code is decided again as long as it has not been redeemed.
UndecidedUnlessRedeemed(c) == ~c.redeemed

\* DeviceConsentService accepts a decision only on a pending code.
Undecided(c) == Pending(c)

\* Expired, or decided already.
RefuseConsent(q) ==
  /\ pc[q] = "check"
  /\ Expired(seen[q], now) \/ ~Undecided(seen[q])
  /\ Finish(q)
  /\ UNCHANGED <<patient, row, now, history>>

AcceptConsent(q) ==
  /\ Goto(q, "check", "decide")
  /\ ~Expired(seen[q], now) /\ Undecided(seen[q])
  /\ UNCHANGED <<patient, row, now, local, history>>

\* save(code.approve(...)) or save(code.deny()): the row as it was read, with
\* the decision in it.
SaveDecision(q) ==
  /\ pc[q] = "decide"
  /\ row' = [row EXCEPT ![req[q].code] = Decided(seen[q], req[q].verdict)]
  /\ told' = [told EXCEPT ![req[q].code] = @ \union {req[q].verdict}]
  /\ Finish(q)
  /\ UNCHANGED <<patient, now, asked, paid, mints, slowed>>

------------------------------------------------------------------------------
\* The device's side: POST /token with the device_code.

\* A device that keeps to the interval of its last poll (external: the device).
MayPoll(d) == patient[d] => now >= row[d].next

ReceivePoll(p, d, c) ==
  /\ pc[p] = "idle" /\ Scheduled({p})
  /\ row[d] # None
  /\ c = row[d].client => MayPoll(d)
  /\ pc' = [pc EXCEPT ![p] = "lookup"]
  /\ req' = [req EXCEPT ![p] = [code |-> d, client |-> c]]
  /\ UNCHANGED <<patient, row, now, seen, stamp, history>>

\* The checks before the polling cadence.
Serves(p) ==
  /\ seen[p].client = req[p].client
  /\ ~Expired(seen[p], now) /\ ~seen[p].denied

\* Another client's code, expired_token or access_denied.
RefusePoll(p) ==
  /\ pc[p] = "check" /\ ~Serves(p)
  /\ Finish(p)
  /\ UNCHANGED <<patient, row, now, history>>

\* slow_down: too early, whatever the user decided meanwhile.
TooEarly(p) ==
  /\ Goto(p, "check", "mark")
  /\ Serves(p) /\ ~CanPoll(seen[p], now)
  /\ stamp' = [stamp EXCEPT ![p] = now]
  /\ slowed' = slowed \union {req[p].code}
  /\ UNCHANGED <<patient, row, now, req, seen, asked, told, paid, mints>>

\* authorization_pending.
NotYet(p) ==
  /\ Goto(p, "check", "mark")
  /\ Serves(p) /\ CanPoll(seen[p], now) /\ Pending(seen[p])
  /\ stamp' = [stamp EXCEPT ![p] = now]
  /\ UNCHANGED <<patient, row, now, req, seen, history>>

\* save(code.mark_polled(now)): the row as it was read, with the new poll time.
SavePoll(p) ==
  /\ pc[p] = "mark"
  /\ row' = [row EXCEPT ![req[p].code] = MarkPolled(seen[p], stamp[p])]
  /\ Finish(p)
  /\ UNCHANGED <<patient, now, history>>

\* The user has approved: the handler calls redeem.
TryRedeem(p) ==
  /\ Goto(p, "check", "redeem")
  /\ Serves(p) /\ CanPoll(seen[p], now) /\ ~Pending(seen[p])
  /\ stamp' = [stamp EXCEPT ![p] = now]
  /\ UNCHANGED <<patient, row, now, req, seen, history>>

\* redeem sets redeemed_at and returns the row it set it on ...
Redeem(p) ==
  /\ Goto(p, "redeem", "mint")
  /\ Redeemable(row[req[p].code], stamp[p])
  /\ row' = [row EXCEPT ![req[p].code].redeemed = TRUE]
  /\ seen' = [seen EXCEPT ![p] = row'[req[p].code]]
  /\ UNCHANGED <<patient, now, req, stamp, history>>

\* ... or finds nothing to redeem: invalid_grant.
RedeemNothing(p) ==
  /\ pc[p] = "redeem" /\ ~Redeemable(row[req[p].code], stamp[p])
  /\ Finish(p)
  /\ UNCHANGED <<patient, row, now, history>>

\* The access token is signed, a refresh family is opened (RefreshRotation's
\* IssueFamily) and both are sent.
Mint(p) ==
  /\ pc[p] = "mint"
  /\ paid' = [paid EXCEPT ![req[p].code] = @ \union {seen[p].user}]
  /\ mints' = [mints EXCEPT ![req[p].code] = IF @ = 0 THEN 1 ELSE 2]
  /\ Finish(p)
  /\ UNCHANGED <<patient, row, now, asked, told, slowed>>

------------------------------------------------------------------------------
\* The process dies, between two awaits too, and starts again: over the same
\* rows, or with none.
Crash ==
  /\ Suspends => \E p \in Process : pc[p] # "idle"
  /\ row' = IF Suspends THEN row ELSE [d \in Code |-> None]
  /\ pc' = [p \in Process |-> "idle"]
  /\ req' = [p \in Process |-> None]
  /\ seen' = [p \in Process |-> None]
  /\ stamp' = [p \in Process |-> 0]
  /\ UNCHANGED <<patient, now, history>>

Tick ==
  /\ now < MaxTime
  /\ now' = now + 1
  /\ UNCHANGED <<patient, row, pc, local, history>>

ConsentStep(q) ==
  Lookup(q) \/ RefuseConsent(q) \/ AcceptConsent(q) \/ SaveDecision(q)

PollStep(p) ==
  \/ Lookup(p) \/ RefusePoll(p) \/ TooEarly(p) \/ NotYet(p) \/ SavePoll(p)
  \/ TryRedeem(p) \/ Redeem(p) \/ RedeemNothing(p) \/ Mint(p)

Next ==
  \/ \E d \in Code, c \in Client : Authorize(d, c)
  \/ \E q \in Consent, d \in Code, v \in Verdict : SubmitConsent(q, d, v)
  \/ \E p \in Poll, d \in Code, c \in Client : ReceivePoll(p, d, c)
  \/ \E q \in Consent : ConsentStep(q)
  \/ \E p \in Poll : PollStep(p)
  \/ Crash
  \/ Tick

Spec == Init /\ [][Next]_vars

\* A device that polls its own code as often as it may.
OwnPoll(p, d) == row[d] # None /\ ReceivePoll(p, d, row[d].client)

\* Admitted requests keep running, and every device keeps polling until it has
\* its tokens.  Neither time nor users are forced to move.
FairSpec ==
  /\ Spec
  /\ \A q \in Consent : WF_vars(ConsentStep(q))
  /\ \A p \in Poll : WF_vars(PollStep(p))
  /\ \A d \in Code : SF_vars(\E p \in Poll : OwnPoll(p, d))

------------------------------------------------------------------------------
\* Properties.

\* One approval is worth one issuance: "of N concurrent polls exactly one gets
\* the entity back" and a crash "can never double-issue" (device_code_grant.py).
IssuedOnce == \A d \in Code : mints[d] <= 1

\* Tokens are only ever minted for a user who approved that very code.
PaidOnlyApprovers ==
  \A d \in Code : \A u \in paid[d] : [user |-> u, approved |-> TRUE] \in asked[d]

\* The server accepts one decision per code, so two users, or one user in two
\* tabs, cannot both be told that theirs counts.
OneVerdict == \A d \in Code : \A v, w \in told[d] : v = w

\* A decision the user was told about stays in the row while devices poll:
\* "polling against approval is a benign race" (device_code_repository.py).
VerdictSticks ==
  \A d \in Code : \A v \in told[d] : row[d] # None =>
    row[d].denied = ~v.approved /\ row[d].user = (IF v.approved THEN v.user ELSE None)

\* A patient device is never told to slow down, whatever other clients poll with
\* its code.
PatienceRewarded == \A d \in slowed : ~patient[d]

\* Redemption is never undone by a request that writes back an older copy of
\* the row.
RedemptionIsFinal ==
  [][\A d \in Code : row[d] # None /\ row[d].redeemed /\ row'[d] # None => row'[d].redeemed]_vars

\* Once the user was told yes, a patient device that may poll and keeps polling
\* gets its tokens, unless the code expires or is lost first.
ApprovalPays ==
  \A d \in Code :
    (/\ row[d] # None /\ \E v \in told[d] : v.approved
     /\ patient[d] /\ MayPoll(d))
      ~> (mints[d] > 0 \/ row[d] = None \/ Expired(row[d], now))

------------------------------------------------------------------------------
\* Refinement: what a device code is to OneTimeGrant.

StateOf(d) ==
  CASE mints[d] = 2 -> "spent twice"
    [] mints[d] = 1 -> "spent"
    [] mints[d] = 0 /\ row[d] = None -> IF Unused(d) THEN "new" ELSE "lost"
    [] mints[d] = 0 /\ row[d] # None ->
         IF row[d].redeemed THEN "claimed"
         ELSE IF Pending(row[d]) THEN "open"
         ELSE IF row[d].denied THEN "denied" ELSE "approved"

\* Who got the tokens.
PaidUser(d) == CHOOSE u \in paid[d] : TRUE

\* The user who approves, and whom the tokens are for.
DueFor(d) ==
  CASE StateOf(d) \in {"approved", "claimed"} -> row[d].user
    [] StateOf(d) \in {"spent", "spent twice"} -> PaidUser(d)
    [] StateOf(d) \in {"new", "open", "denied", "lost"} -> None

codeState == [d \in Code |-> StateOf(d)]
codeTerms == [d \in Code |-> DueFor(d)]

Grants == INSTANCE OneTimeGrant WITH state <- codeState, terms <- codeTerms, Terms <- User

\* A decision is taken once and stands, and an approval buys tokens once, for the
\* user who gave it: redeem is "the atomic check-and-set"
\* (device_code_repository.py).
KeepsPromise == Grants!Spec
==============================================================================
