-------------------------- MODULE DeviceFlowProofs ---------------------------
(***************************************************************************)
(* Proofs about DeviceFlow, for any number of codes, clients, users, polls *)
(* and decisions.  Types, and that only approvers are paid for, hold over  *)
(* every adapter (Inv).  The rest needs order among the requests on one    *)
(* code, more or less of it: IssuedOnce and RedemptionIsFinal hold when    *)
(* polls wait for polls and forms for forms (PairInv), everything else,    *)
(* and the refinement of OneTimeGrant, when no two requests on one code    *)
(* overlap (SerialInv), which the in-memory adapter guarantees.            *)
(***************************************************************************)
EXTENDS DeviceFlow, TLAPS

Yes(u) == [user |-> u, approved |-> TRUE]

\* What a request has established when it reaches a program point.
StageOK(p) ==
  /\ p \in Poll => /\ pc[p] \in {"idle", "lookup", "check", "mark", "redeem", "mint"}
                   /\ pc[p] # "idle" => req[p] \in PollParams
  /\ p \in Consent => /\ pc[p] \in {"idle", "lookup", "check", "decide"}
                      /\ pc[p] # "idle" => /\ req[p] \in ConsentParams
                                           /\ req[p].verdict \in asked[req[p].code]
  /\ pc[p] # "idle" => row[req[p].code] # None
  /\ pc[p] \in {"idle", "lookup"} => seen[p] = None
  /\ pc[p] \notin {"idle", "lookup"} => seen[p] \in Row
  /\ seen[p] # None /\ seen[p].user # None => Yes(seen[p].user) \in asked[req[p].code]
  /\ pc[p] = "mint" => seen[p].user # None

\* The user in a row approved that code.
RowsOK ==
  \A d \in Code : row[d] # None /\ row[d].user # None => Yes(row[d].user) \in asked[d]

Inv ==
  /\ TypeOK
  /\ \A p \in Process : StageOK(p)
  /\ RowsOK
  /\ PaidOnlyApprovers

------------------------------------------------------------------------------
\* Helpers.

\* The code in a request that is under way, and its two kinds of parameters.
LEMMA Underway ==
  ASSUME Inv, NEW p \in Process, pc[p] # "idle"
  PROVE  /\ req[p].code \in Code /\ row[req[p].code] \in Row
         /\ p \in Poll => req[p] \in PollParams /\ p \notin Consent
         /\ p \in Consent => req[p].verdict \in Verdict /\ p \notin Poll
<1>1. StageOK(p) /\ TypeOK
  BY DEF Inv
<1>2. p \in Poll \/ p \in Consent
  BY DEF Process
<1>3. req[p].code \in Code
  BY <1>1, <1>2 DEF StageOK, PollParams, ConsentParams
<1>4. row[req[p].code] \in Row
  BY <1>1, <1>3 DEF StageOK, TypeOK
<1> QED
  BY <1>1, <1>3, <1>4, ConstantsAssumption DEF StageOK, ConsentParams

\* A request that ends forgets everything it held.
LEMMA FinishLocal ==
  ASSUME TypeOK, NEW p \in Process, Finish(p)
  PROVE  /\ pc' \in [Process -> {"idle", "lookup", "check", "mark", "redeem", "mint", "decide"}]
         /\ req' \in [Process -> PollParams \union ConsentParams \union {None}]
         /\ seen' \in [Process -> Row \union {None}]
         /\ stamp' \in [Process -> Nat]
         /\ pc'[p] = "idle" /\ seen'[p] = None
         /\ \A q \in Process \ {p} :
              pc'[q] = pc[q] /\ req'[q] = req[q] /\ seen'[q] = seen[q]
  BY DEF TypeOK, Finish

\* Where rows only change in place and approvals are only added, what a request
\* holds stays good.
LEMMA StageKept ==
  ASSUME Inv, NEW q \in Process, TypeOK',
         pc'[q] = pc[q], req'[q] = req[q], seen'[q] = seen[q],
         \A d \in Code : row[d] # None => row'[d] # None,
         \A d \in Code : asked[d] \subseteq asked'[d]
  PROVE  StageOK(q)'
<1>1. CASE pc[q] = "idle"
  BY <1>1 DEF Inv, StageOK
<1>2. CASE pc[q] # "idle"
  <2>1. req[q].code \in Code
    BY <1>2, Underway
  <2> QED
    BY <2>1 DEF Inv, StageOK
<1> QED
  BY <1>1, <1>2

\* A request that ends without a trace in the store or in the history.
LEMMA FinishInv ==
  ASSUME Inv, NEW p \in Process, Finish(p), UNCHANGED <<patient, row, now, history>>
  PROVE  Inv'
<1>1. TypeOK'
  BY FinishLocal DEF Inv, TypeOK, history
<1>2. ASSUME NEW q \in Process PROVE StageOK(q)'
  <2>1. CASE q = p
    BY <2>1, FinishLocal DEF Inv, StageOK
  <2>2. CASE q # p
    BY <1>1, <2>2, FinishLocal, StageKept DEF Inv, history
  <2> QED
    BY <2>1, <2>2
<1>3. RowsOK' /\ PaidOnlyApprovers'
  BY DEF Inv, RowsOK, PaidOnlyApprovers, history
<1> QED
  BY <1>1, <1>2, <1>3 DEF Inv

\* A request that goes on with the row it has seen.
LEMMA GotoInv ==
  ASSUME Inv, NEW p \in Process, NEW to \in {"mark", "redeem", "decide"},
         p \in Poll => to # "decide", p \in Consent => to = "decide",
         Goto(p, "check", to), stamp' \in [Process -> Nat], slowed' \in SUBSET Code,
         UNCHANGED <<patient, row, now, req, seen, asked, told, paid, mints>>
  PROVE  Inv'
<1>1. TypeOK'
  BY DEF Inv, TypeOK, Goto
<1>2. ASSUME NEW q \in Process PROVE StageOK(q)'
  <2>1. CASE q = p
    BY <2>1 DEF Inv, TypeOK, Goto, StageOK
  <2>2. CASE q # p
    BY <1>1, <2>2, StageKept DEF Inv, TypeOK, Goto
  <2> QED
    BY <2>1, <2>2
<1>3. RowsOK' /\ PaidOnlyApprovers'
  BY DEF Inv, RowsOK, PaidOnlyApprovers
<1> QED
  BY <1>1, <1>2, <1>3 DEF Inv

------------------------------------------------------------------------------
\* The actions.

LEMMA AuthorizeInv ==
  ASSUME Inv, NEW d \in Code, NEW c \in Client, Authorize(d, c)
  PROVE  Inv'
<1> DEFINE new == [client |-> c, expires |-> now + CodeTTL, next |-> 0, user |-> None,
                   denied |-> FALSE, redeemed |-> FALSE]
<1>1. new \in Row
  BY ConstantsAssumption DEF Inv, TypeOK, Row
<1>2. new.user = None
  OBVIOUS
<1>3. row[d] = None /\ row' = [row EXCEPT ![d] = new]
      /\ UNCHANGED <<patient, now, pc, local, history>>
  BY DEF Authorize, Unused
<1> HIDE DEF new
<1>4. TypeOK'
  BY <1>1, <1>3 DEF Inv, TypeOK, local, history
<1>5. ASSUME NEW q \in Process PROVE StageOK(q)'
  <2>1. \A e \in Code : row[e] # None => row'[e] # None
    BY <1>3 DEF Inv, TypeOK
  <2> QED
    BY <1>3, <1>4, <2>1, StageKept DEF local, history
<1>6. RowsOK' /\ PaidOnlyApprovers'
  BY <1>2, <1>3 DEF Inv, TypeOK, RowsOK, PaidOnlyApprovers, history
<1> QED
  BY <1>4, <1>5, <1>6 DEF Inv

\* The snapshot a request takes is the row as it is at that moment.
LEMMA LookupInv ==
  ASSUME Inv, NEW p \in Process, Lookup(p)
  PROVE  Inv'
<1>1. req[p].code \in Code /\ row[req[p].code] \in Row
  BY Underway DEF Lookup, Goto
<1>2. TypeOK'
  BY <1>1 DEF Inv, TypeOK, Lookup, Goto, history
<1>3. ASSUME NEW q \in Process PROVE StageOK(q)'
  <2>1. CASE q = p
    BY <1>1, <2>1, ConstantsAssumption DEF Inv, TypeOK, Lookup, Goto, history, StageOK, RowsOK
  <2>2. CASE q # p
    BY <1>2, <2>2, StageKept DEF Inv, TypeOK, Lookup, Goto, history
  <2> QED
    BY <2>1, <2>2
<1>4. RowsOK' /\ PaidOnlyApprovers'
  BY DEF Inv, RowsOK, PaidOnlyApprovers, Lookup, history
<1> QED
  BY <1>2, <1>3, <1>4 DEF Inv

LEMMA SubmitConsentInv ==
  ASSUME Inv, NEW q \in Consent, NEW d \in Code, NEW v \in Verdict, SubmitConsent(q, d, v)
  PROVE  Inv'
<1>1. [code |-> d, verdict |-> v] \in ConsentParams /\ q \in Process /\ q \notin Poll
  BY ConstantsAssumption DEF ConsentParams, Process
<1>2. TypeOK'
  BY <1>1 DEF Inv, TypeOK, SubmitConsent
<1>3. \A e \in Code : asked[e] \subseteq asked'[e]
  BY DEF Inv, TypeOK, SubmitConsent
<1>4. ASSUME NEW p \in Process PROVE StageOK(p)'
  <2>1. CASE p = q
    <3>1. /\ pc'[q] = "lookup" /\ req'[q] = [code |-> d, verdict |-> v] /\ seen'[q] = None
          /\ v \in asked'[d] /\ row'[d] # None
      BY <1>1 DEF Inv, TypeOK, SubmitConsent, StageOK
    <3> QED
      BY <1>1, <2>1, <3>1 DEF StageOK
  <2>2. CASE p # q
    BY <1>2, <1>3, <2>2, StageKept DEF Inv, TypeOK, SubmitConsent
  <2> QED
    BY <2>1, <2>2
<1>5. RowsOK' /\ PaidOnlyApprovers'
  BY <1>3 DEF Inv, RowsOK, PaidOnlyApprovers, SubmitConsent
<1> QED
  BY <1>2, <1>4, <1>5 DEF Inv

LEMMA ReceivePollInv ==
  ASSUME Inv, NEW p \in Poll, NEW d \in Code, NEW c \in Client, ReceivePoll(p, d, c)
  PROVE  Inv'
<1>1. [code |-> d, client |-> c] \in PollParams /\ p \in Process /\ p \notin Consent
  BY ConstantsAssumption DEF PollParams, Process
<1>2. TypeOK'
  BY <1>1 DEF Inv, TypeOK, ReceivePoll, history
<1>3. ASSUME NEW q \in Process PROVE StageOK(q)'
  <2>1. CASE q = p
    <3>1. /\ pc'[p] = "lookup" /\ req'[p] = [code |-> d, client |-> c] /\ seen'[p] = None
          /\ row'[d] # None
      BY <1>1 DEF Inv, TypeOK, ReceivePoll, StageOK
    <3> QED
      BY <1>1, <2>1, <3>1 DEF StageOK
  <2>2. CASE q # p
    BY <1>2, <2>2, StageKept DEF Inv, TypeOK, ReceivePoll, history
  <2> QED
    BY <2>1, <2>2
<1>4. RowsOK' /\ PaidOnlyApprovers'
  BY DEF Inv, RowsOK, PaidOnlyApprovers, ReceivePoll, history
<1> QED
  BY <1>2, <1>3, <1>4 DEF Inv

\* A request that writes one row and ends leaves a good state if the row names
\* nobody but an approver.
LEMMA WriteInv ==
  ASSUME Inv, NEW p \in Process, pc[p] # "idle", Finish(p),
         NEW new \in Row, row' = [row EXCEPT ![req[p].code] = new],
         new.user # None => Yes(new.user) \in asked[req[p].code],
         told' \in [Code -> SUBSET Verdict],
         UNCHANGED <<patient, now, asked, paid, mints, slowed>>
  PROVE  Inv'
<1>1. req[p].code \in Code /\ new # None
  BY Underway, ConstantsAssumption
<1>2. TypeOK'
  BY <1>1, FinishLocal DEF Inv, TypeOK
<1>3. ASSUME NEW q \in Process PROVE StageOK(q)'
  <2>1. CASE q = p
    BY <2>1, FinishLocal DEF Inv, StageOK
  <2>2. CASE q # p
    <3>1. \A d \in Code : row[d] # None => row'[d] # None
      BY <1>1 DEF Inv, TypeOK
    <3> QED
      BY <1>2, <2>2, <3>1, FinishLocal, StageKept DEF Inv
  <2> QED
    BY <2>1, <2>2
<1>4. RowsOK' /\ PaidOnlyApprovers'
  BY <1>1 DEF Inv, TypeOK, RowsOK, PaidOnlyApprovers
<1> QED
  BY <1>2, <1>3, <1>4 DEF Inv

LEMMA SaveDecisionInv ==
  ASSUME Inv, NEW q \in Consent, SaveDecision(q)
  PROVE  Inv'
<1> DEFINE v == req[q].verdict
           new == Decided(seen[q], v)
<1>1. q \in Process /\ pc[q] = "decide" /\ Finish(q)
  BY DEF Process, SaveDecision
<1>2. req[q].code \in Code /\ v \in Verdict
  BY <1>1, Underway
<1>3. seen[q] \in Row /\ v \in asked[req[q].code]
  BY <1>1 DEF Inv, StageOK
<1>4. new \in Row
  BY <1>2, <1>3 DEF Decided, Row, Verdict
<1>5. new.user # None => Yes(new.user) \in asked[req[q].code]
  <2>1. new.user = IF v.approved THEN v.user ELSE None
    BY <1>3 DEF Decided, Row
  <2>2. v.approved => v = Yes(v.user)
    BY <1>2 DEF Verdict, Yes
  <2> QED
    BY <1>3, <2>1, <2>2
<1>6. told' \in [Code -> SUBSET Verdict]
  BY <1>2 DEF Inv, TypeOK, SaveDecision
<1> QED
  BY <1>1, <1>4, <1>5, <1>6, WriteInv DEF SaveDecision

LEMMA SavePollInv ==
  ASSUME Inv, NEW p \in Poll, SavePoll(p)
  PROVE  Inv'
<1> DEFINE new == MarkPolled(seen[p], stamp[p])
<1>1. p \in Process /\ pc[p] = "mark" /\ Finish(p)
  BY DEF Process, SavePoll
<1>2. seen[p] \in Row /\ stamp[p] + Interval \in Nat /\ seen[p] # None
  BY <1>1, ConstantsAssumption DEF Inv, TypeOK, StageOK
<1>3. new \in Row /\ new.user = seen[p].user
  BY <1>2 DEF MarkPolled, Row
<1>4. new.user # None => Yes(new.user) \in asked[req[p].code]
  BY <1>1, <1>2, <1>3 DEF Inv, StageOK
<1>5. told' \in [Code -> SUBSET Verdict]
  BY DEF Inv, TypeOK, SavePoll, history
<1> QED
  BY <1>1, <1>3, <1>4, <1>5, WriteInv DEF SavePoll, history

LEMMA RedeemInv ==
  ASSUME Inv, NEW p \in Poll, Redeem(p)
  PROVE  Inv'
<1> DEFINE d == req[p].code
           new == [row[d] EXCEPT !.redeemed = TRUE]
<1>1. p \in Process /\ p \notin Consent /\ pc[p] = "redeem" /\ pc' = [pc EXCEPT ![p] = "mint"]
  BY ConstantsAssumption DEF Process, Redeem, Goto
<1>2. d \in Code /\ row[d] \in Row
  BY <1>1, Underway
<1>3. new \in Row /\ new # None /\ new.user = row[d].user /\ row[d].user # None
  BY <1>2, ConstantsAssumption DEF Row, Redeem, Redeemable, Approved
<1>4. row' = [row EXCEPT ![d] = new] /\ seen' = [seen EXCEPT ![p] = new]
  BY <1>2 DEF Inv, TypeOK, Redeem
<1>5. UNCHANGED <<patient, now, req, stamp, history>>
  BY DEF Redeem
<1> HIDE DEF new
<1>6. TypeOK'
  BY <1>1, <1>2, <1>3, <1>4, <1>5 DEF Inv, TypeOK, history
<1>7. \A e \in Code : row[e] # None => row'[e] # None
  BY <1>3, <1>4 DEF Inv, TypeOK
<1>8. ASSUME NEW q \in Process PROVE StageOK(q)'
  <2>1. CASE q = p
    <3>1. Yes(new.user) \in asked[d]
      BY <1>2, <1>3, ConstantsAssumption DEF Inv, RowsOK
    <3>2. /\ pc'[p] = "mint" /\ req'[p] = req[p] /\ seen'[p] = new /\ row'[d] = new
          /\ asked' = asked
      BY <1>1, <1>2, <1>4, <1>5 DEF Inv, TypeOK, history
    <3>3. req[p] \in PollParams
      BY <1>1, Underway
    <3> QED
      BY <1>1, <1>3, <2>1, <3>1, <3>2, <3>3 DEF StageOK
  <2>2. CASE q # p
    BY <1>1, <1>4, <1>5, <1>6, <1>7, <2>2, StageKept DEF Inv, TypeOK, history
  <2> QED
    BY <2>1, <2>2
<1>9. RowsOK'
  BY <1>2, <1>3, <1>4, <1>5, ConstantsAssumption DEF Inv, TypeOK, RowsOK, history
<1>10. PaidOnlyApprovers'
  BY <1>5 DEF Inv, PaidOnlyApprovers, history
<1> QED
  BY <1>6, <1>8, <1>9, <1>10 DEF Inv

LEMMA MintInv ==
  ASSUME Inv, NEW p \in Poll, Mint(p)
  PROVE  Inv'
<1> DEFINE d == req[p].code
<1>1. p \in Process /\ pc[p] = "mint" /\ Finish(p)
  BY DEF Process, Mint
<1>2. d \in Code /\ seen[p] \in Row /\ seen[p].user # None /\ Yes(seen[p].user) \in asked[d]
  BY <1>1, Underway, ConstantsAssumption DEF Inv, StageOK
<1>3. seen[p].user \in User
  BY <1>2 DEF Row
<1>4. mints' \in [Code -> 0 .. 2] /\ paid' \in [Code -> SUBSET User]
  BY <1>2, <1>3 DEF Inv, TypeOK, Mint
<1>5. TypeOK'
  BY <1>1, <1>4, FinishLocal DEF Inv, TypeOK, Mint
<1>6. ASSUME NEW q \in Process PROVE StageOK(q)'
  <2>1. CASE q = p
    BY <1>1, <2>1, FinishLocal DEF Inv, StageOK
  <2>2. CASE q # p
    BY <1>1, <1>5, <2>2, FinishLocal, StageKept DEF Inv, Mint
  <2> QED
    BY <2>1, <2>2
<1>7. PaidOnlyApprovers'
  BY <1>2 DEF Inv, TypeOK, PaidOnlyApprovers, Mint, Yes
<1>8. RowsOK'
  BY DEF Inv, RowsOK, Mint
<1> QED
  BY <1>5, <1>6, <1>7, <1>8 DEF Inv

LEMMA CrashInv ==
  ASSUME Inv, Crash
  PROVE  Inv'
<1>1. TypeOK'
  BY DEF Inv, TypeOK, Crash, history
<1>2. \A p \in Process : StageOK(p)'
  BY DEF Crash, StageOK
<1>3. RowsOK' /\ PaidOnlyApprovers'
  BY DEF Inv, TypeOK, RowsOK, PaidOnlyApprovers, Crash, history
<1> QED
  BY <1>1, <1>2, <1>3 DEF Inv

\* The steps that only move a request on or end it.
LEMMA QuietInv ==
  ASSUME Inv, NEW p \in Process,
         \/ p \in Consent /\ (RefuseConsent(p) \/ AcceptConsent(p))
         \/ p \in Poll /\ (RefusePoll(p) \/ RedeemNothing(p)
                             \/ TooEarly(p) \/ NotYet(p) \/ TryRedeem(p))
  PROVE  Inv'
<1>1. ~(p \in Poll /\ p \in Consent)
  BY ConstantsAssumption
<1>2. CASE (p \in Consent /\ RefuseConsent(p)) \/ (p \in Poll /\ (RefusePoll(p) \/ RedeemNothing(p)))
  BY <1>2, FinishInv DEF RefuseConsent, RefusePoll, RedeemNothing
<1>3. CASE p \in Consent /\ AcceptConsent(p)
  <2>1. stamp' \in [Process -> Nat] /\ slowed' \in SUBSET Code
    BY <1>3 DEF Inv, TypeOK, AcceptConsent, local, history
  <2> QED
    BY <1>1, <1>3, <2>1, GotoInv DEF AcceptConsent, local, history
<1>4. CASE p \in Poll /\ (TooEarly(p) \/ NotYet(p) \/ TryRedeem(p))
  <2>1. req[p].code \in Code
    BY <1>4, Underway DEF TooEarly, NotYet, TryRedeem, Goto
  <2>2. stamp' \in [Process -> Nat] /\ slowed' \in SUBSET Code
    BY <1>4, <2>1 DEF Inv, TypeOK, TooEarly, NotYet, TryRedeem, history
  <2> QED
    BY <1>1, <1>4, <2>2, GotoInv DEF TooEarly, NotYet, TryRedeem, history
<1> QED
  BY <1>2, <1>3, <1>4

\* Inv is inductive, whatever the adapter.
LEMMA NextInv ==
  ASSUME Inv, [Next]_vars
  PROVE  Inv'
<1>1. ASSUME NEW q \in Consent, ConsentStep(q) PROVE Inv'
  BY <1>1, LookupInv, QuietInv, SaveDecisionInv DEF ConsentStep, Process
<1>2. ASSUME NEW p \in Poll, PollStep(p) PROVE Inv'
  BY <1>2, LookupInv, QuietInv, SavePollInv, RedeemInv, MintInv DEF PollStep, Process
<1>3. CASE Tick
  BY <1>3 DEF Inv, TypeOK, StageOK, RowsOK, PaidOnlyApprovers, Tick, local, history
<1>4. CASE UNCHANGED vars
  BY <1>4 DEF Inv, TypeOK, StageOK, RowsOK, PaidOnlyApprovers, vars, local, history
<1> QED
  BY <1>1, <1>2, <1>3, <1>4, AuthorizeInv, SubmitConsentInv, ReceivePollInv, CrashInv DEF Next

\* It holds in every reachable state.
THEOREM InvHolds == Spec => []Inv
<1>1. Init => Inv
  BY ConstantsAssumption DEF Init, Inv, TypeOK, StageOK, RowsOK, PaidOnlyApprovers
<1>2. Inv /\ [Next]_vars => Inv'
  BY NextInv
<1> QED
  BY <1>1, <1>2, PTL DEF Spec

\* Every variable keeps its type.
THEOREM TypeCorrect == Spec => []TypeOK
<1>1. Inv => TypeOK
  BY DEF Inv
<1> QED
  BY <1>1, InvHolds, PTL

\* Whatever is lost when polls and decisions overlap, tokens are minted for a
\* user who approved that very code.
THEOREM OnlyApproversPaid == Spec => []PaidOnlyApprovers
<1>1. Inv => PaidOnlyApprovers
  BY DEF Inv
<1> QED
  BY <1>1, InvHolds, PTL

------------------------------------------------------------------------------
(***************************************************************************)
(* Serial requests: no two requests on one code overlap, while others may  *)
(* (AloneOnCode).  The in-memory adapter serves one request at a time, so  *)
(* it is such a server; another adapter is one if something outside this   *)
(* code makes it one.  The copy of the row a request holds is then the     *)
(* row.  That is what OneVerdict, VerdictSticks and RedemptionIsFinal      *)
(* need, which speak only of the store and of what users were told:        *)
(* without it a poll may write an undecided or unredeemed copy back.       *)
(***************************************************************************)

AloneOnCode ==
  \A p, q \in Process :
    pc[p] # "idle" /\ pc[q] # "idle" /\ req[p].code = req[q].code => p = q

\* What a request under way knows of its row.
CopyOK(p) ==
  /\ pc[p] \notin {"idle", "lookup"} => seen[p] = row[req[p].code]
  /\ pc[p] = "decide" => Undecided(row[req[p].code])
  /\ pc[p] = "mint" => row[req[p].code].redeemed /\ mints[req[p].code] = 0
  /\ p \in Poll /\ pc[p] \in {"lookup", "check"} /\ patient[req[p].code]
       /\ req[p].client = row[req[p].code].client => now >= row[req[p].code].next

\* The row of a code against what users were told and devices were given.
LedgerOK(d) ==
  /\ told[d] \subseteq asked[d]
  /\ \A v, w \in told[d] : v = w
  /\ \A v \in told[d] : row[d] # None =>
       row[d].denied = ~v.approved /\ row[d].user = (IF v.approved THEN v.user ELSE None)
  /\ mints[d] <= 1
  /\ mints[d] # 0 => asked[d] # {} /\ (row[d] = None \/ row[d].redeemed)
  /\ mints[d] = 0 => paid[d] = {}
  /\ row[d] # None /\ row[d].redeemed => Approved(row[d])
  /\ row[d] # None /\ row[d].denied => asked[d] # {}

SerialInv ==
  /\ Inv
  /\ \A p \in Process : CopyOK(p)
  /\ \A d \in Code : LedgerOK(d)
  /\ PatienceRewarded

\* A request alone on its code disturbs no other request.
LEMMA OthersKept ==
  ASSUME SerialInv, AloneOnCode, NEW p \in Process, pc[p] # "idle",
         UNCHANGED <<patient, now>>,
         \A q \in Process \ {p} : pc'[q] = pc[q] /\ req'[q] = req[q] /\ seen'[q] = seen[q],
         \A e \in Code : e # req[p].code => row'[e] = row[e] /\ mints'[e] = mints[e]
  PROVE  \A q \in Process \ {p} : CopyOK(q)'
<1> SUFFICES ASSUME NEW q \in Process \ {p} PROVE CopyOK(q)'
  OBVIOUS
<1>1. CASE pc[q] = "idle"
  BY <1>1 DEF CopyOK
<1>2. CASE pc[q] # "idle"
  <2>1. req[q].code \in Code /\ req[q].code # req[p].code
    BY <1>2, Underway DEF SerialInv, AloneOnCode
  <2>2. row'[req[q].code] = row[req[q].code] /\ mints'[req[q].code] = mints[req[q].code]
    BY <2>1
  <2> QED
    BY <2>2 DEF SerialInv, CopyOK
<1> QED
  BY <1>1, <1>2

\* A request that ends has no copy any more ...
LEMMA EndsSerial ==
  ASSUME SerialInv, AloneOnCode, NEW p \in Process, pc[p] # "idle", Finish(p),
         UNCHANGED <<patient, now>>,
         \A e \in Code : e # req[p].code => row'[e] = row[e] /\ mints'[e] = mints[e]
  PROVE  \A q \in Process : CopyOK(q)'
<1>1. /\ pc'[p] = "idle"
      /\ \A q \in Process \ {p} : pc'[q] = pc[q] /\ req'[q] = req[q] /\ seen'[q] = seen[q]
  BY FinishLocal DEF SerialInv, Inv
<1>2. CopyOK(p)'
  BY <1>1 DEF CopyOK
<1> QED
  BY <1>1, <1>2, OthersKept

\* ... and one that moves on has its own to look after.
LEMMA MovesSerial ==
  ASSUME SerialInv, AloneOnCode, NEW p \in Process, pc[p] # "idle", NEW to,
         pc' = [pc EXCEPT ![p] = to], UNCHANGED <<patient, now, req>>,
         \A q \in Process \ {p} : seen'[q] = seen[q],
         \A e \in Code : e # req[p].code => row'[e] = row[e] /\ mints'[e] = mints[e],
         CopyOK(p)'
  PROVE  \A q \in Process : CopyOK(q)'
<1>1. \A q \in Process \ {p} : pc'[q] = pc[q]
  BY DEF SerialInv, Inv, TypeOK
<1> QED
  BY <1>1, OthersKept

\* Whoever arrives disturbs nobody.
LEMMA ArrivesSerial ==
  ASSUME SerialInv, NEW p \in Process, UNCHANGED <<patient, now, row, seen, mints>>,
         \A q \in Process \ {p} : pc'[q] = pc[q] /\ req'[q] = req[q],
         CopyOK(p)'
  PROVE  \A q \in Process : CopyOK(q)'
<1>1. ASSUME NEW q \in Process \ {p} PROVE CopyOK(q)'
  BY DEF SerialInv, CopyOK
<1> QED
  BY <1>1

------------------------------------------------------------------------------
\* The actions, with serial requests.

\* A fresh code has neither been decided nor paid for.
LEMMA AuthorizeSerial ==
  ASSUME SerialInv, NEW d \in Code, NEW c \in Client, Authorize(d, c)
  PROVE  SerialInv'
<1>1. Inv'
  BY AuthorizeInv DEF SerialInv
<1>2. ASSUME NEW p \in Process PROVE CopyOK(p)'
  <2>1. CASE pc[p] = "idle"
    BY <2>1 DEF Authorize, local, CopyOK
  <2>2. CASE pc[p] # "idle"
    <3>1. req[p].code \in Code /\ req[p].code # d
      BY <2>2, Underway, ConstantsAssumption DEF SerialInv, Authorize, Unused
    <3>2. row'[req[p].code] = row[req[p].code]
      BY <3>1 DEF SerialInv, Inv, TypeOK, Authorize
    <3> QED
      BY <3>2 DEF SerialInv, CopyOK, Authorize, local, history
  <2> QED
    BY <2>1, <2>2
<1>3. ASSUME NEW e \in Code PROVE LedgerOK(e)'
  <2>1. UNCHANGED <<asked, told, mints, paid>>
    BY DEF Authorize, history
  <2>2. CASE e = d
    <3>1. asked[d] = {} /\ told[d] = {} /\ mints[d] = 0 /\ paid[d] = {}
      BY DEF SerialInv, LedgerOK, Authorize, Unused
    <3>2. ~row'[d].denied /\ ~row'[d].redeemed
      BY DEF SerialInv, Inv, TypeOK, Authorize
    <3> QED
      BY <2>1, <2>2, <3>1, <3>2 DEF LedgerOK
  <2>3. CASE e # d
    <3>1. row'[e] = row[e]
      BY <2>3 DEF SerialInv, Inv, TypeOK, Authorize
    <3> QED
      BY <2>1, <3>1 DEF SerialInv, LedgerOK
  <2> QED
    BY <2>2, <2>3
<1>4. PatienceRewarded'
  BY DEF SerialInv, PatienceRewarded, Authorize, history
<1> QED
  BY <1>1, <1>2, <1>3, <1>4 DEF SerialInv

LEMMA LookupSerial ==
  ASSUME SerialInv, AloneOnCode, NEW p \in Process, Lookup(p)
  PROVE  SerialInv'
<1>1. Inv'
  BY LookupInv DEF SerialInv
<1>2. CopyOK(p)'
  BY DEF SerialInv, Inv, TypeOK, CopyOK, Lookup, Goto, history
<1>3. \A q \in Process : CopyOK(q)'
  BY <1>2, MovesSerial DEF SerialInv, Inv, TypeOK, Lookup, Goto, history
<1>4. (\A d \in Code : LedgerOK(d)') /\ PatienceRewarded'
  BY DEF SerialInv, LedgerOK, PatienceRewarded, Lookup, history
<1> QED
  BY <1>1, <1>3, <1>4 DEF SerialInv

LEMMA SubmitConsentSerial ==
  ASSUME SerialInv, NEW q \in Consent, NEW d \in Code, NEW v \in Verdict,
         SubmitConsent(q, d, v)
  PROVE  SerialInv'
<1>1. Inv'
  BY SubmitConsentInv DEF SerialInv
<1>2. q \in Process /\ q \notin Poll
  BY ConstantsAssumption DEF Process
<1>3. CopyOK(q)'
  BY <1>2 DEF SerialInv, Inv, TypeOK, CopyOK, SubmitConsent
<1>4. \A p \in Process : CopyOK(p)'
  BY <1>2, <1>3, ArrivesSerial DEF SerialInv, Inv, TypeOK, SubmitConsent
<1>5. ASSUME NEW e \in Code PROVE LedgerOK(e)'
  BY DEF SerialInv, Inv, TypeOK, LedgerOK, SubmitConsent
<1>6. PatienceRewarded'
  BY DEF SerialInv, PatienceRewarded, SubmitConsent
<1> QED
  BY <1>1, <1>4, <1>5, <1>6 DEF SerialInv

\* A patient device polls when its row lets it.
LEMMA ReceivePollSerial ==
  ASSUME SerialInv, NEW p \in Poll, NEW d \in Code, NEW c \in Client,
         ReceivePoll(p, d, c)
  PROVE  SerialInv'
<1>1. Inv'
  BY ReceivePollInv DEF SerialInv
<1>2. p \in Process
  BY DEF Process
<1>3. CopyOK(p)'
  <2>1. req'[p] = [code |-> d, client |-> c] /\ pc'[p] = "lookup"
    BY <1>2 DEF SerialInv, Inv, TypeOK, ReceivePoll
  <2>2. c = row[d].client /\ patient[d] => now >= row[d].next
    BY DEF ReceivePoll, MayPoll
  <2> QED
    BY <2>1, <2>2 DEF CopyOK, ReceivePoll
<1>4. \A q \in Process : CopyOK(q)'
  BY <1>2, <1>3, ArrivesSerial DEF SerialInv, Inv, TypeOK, ReceivePoll, history
<1>5. (\A e \in Code : LedgerOK(e)') /\ PatienceRewarded'
  BY DEF SerialInv, LedgerOK, PatienceRewarded, ReceivePoll, history
<1> QED
  BY <1>1, <1>4, <1>5 DEF SerialInv

\* The steps that only end a request ...
LEMMA QuietSerial ==
  ASSUME SerialInv, AloneOnCode, NEW p \in Process,
         \/ p \in Consent /\ RefuseConsent(p)
         \/ p \in Poll /\ (RefusePoll(p) \/ RedeemNothing(p))
  PROVE  SerialInv'
<1>1. Inv'
  BY QuietInv DEF SerialInv
<1>2. pc[p] # "idle" /\ Finish(p) /\ UNCHANGED <<patient, row, now, history>>
  BY DEF RefuseConsent, RefusePoll, RedeemNothing
<1>3. (\A d \in Code : LedgerOK(d)') /\ PatienceRewarded'
  BY <1>2 DEF SerialInv, LedgerOK, PatienceRewarded, history
<1>4. \A q \in Process : CopyOK(q)'
  BY <1>2, EndsSerial DEF history
<1> QED
  BY <1>1, <1>3, <1>4 DEF SerialInv

\* ... and those that only move it on.
LEMMA OnwardSerial ==
  ASSUME SerialInv, AloneOnCode, NEW p \in Process,
         \/ p \in Consent /\ AcceptConsent(p)
         \/ p \in Poll /\ (NotYet(p) \/ TryRedeem(p) \/ TooEarly(p))
  PROVE  SerialInv'
<1>1. Inv'
  BY QuietInv DEF SerialInv
<1>2. /\ pc[p] = "check" /\ pc' = [pc EXCEPT ![p] = pc'[p]]
      /\ pc'[p] \in {"mark", "redeem", "decide"}
      /\ UNCHANGED <<patient, row, now, req, seen, asked, told, paid, mints>>
  BY DEF SerialInv, Inv, TypeOK, AcceptConsent, NotYet, TryRedeem, TooEarly, Goto, local, history
<1>3. seen[p] = row[req[p].code]
  BY <1>2 DEF SerialInv, CopyOK
<1>4. pc'[p] = "decide" => Undecided(seen[p])
  BY DEF SerialInv, Inv, TypeOK, AcceptConsent, NotYet, TryRedeem, TooEarly, Goto
<1>5. CopyOK(p)'
  BY <1>2, <1>3, <1>4 DEF CopyOK
<1>6. \A q \in Process : CopyOK(q)'
  BY <1>2, <1>5, MovesSerial
<1>7. \A d \in Code : LedgerOK(d)'
  BY <1>2 DEF SerialInv, LedgerOK
<1>8. PatienceRewarded'
  <2>1. CASE TooEarly(p) /\ p \in Poll
    <3>1. row[req[p].code].client = req[p].client /\ ~(now >= row[req[p].code].next)
      BY <1>3, <2>1 DEF TooEarly, Serves, CanPoll
    <3>2. ~patient[req[p].code]
      BY <1>2, <2>1, <3>1 DEF SerialInv, CopyOK
    <3> QED
      BY <1>2, <2>1, <3>2 DEF SerialInv, PatienceRewarded, TooEarly
  <2>2. CASE slowed' = slowed
    BY <1>2, <2>2 DEF SerialInv, PatienceRewarded
  <2> QED
    BY <2>1, <2>2 DEF AcceptConsent, NotYet, TryRedeem, history
<1> QED
  BY <1>1, <1>6, <1>7, <1>8 DEF SerialInv

\* The row saved is undecided, so nobody was told of a decision before.
LEMMA SaveDecisionSerial ==
  ASSUME SerialInv, AloneOnCode, NEW q \in Consent, SaveDecision(q)
  PROVE  SerialInv'
<1> DEFINE d == req[q].code
           v == req[q].verdict
<1>1. Inv'
  BY SaveDecisionInv DEF SerialInv
<1>2. q \in Process /\ pc[q] = "decide" /\ Finish(q)
  BY DEF Process, SaveDecision
<1>3. d \in Code /\ row[d] \in Row /\ v \in Verdict /\ v \in asked[d]
  BY <1>2, Underway DEF SerialInv, Inv, StageOK
<1>4. seen[q] = row[d] /\ Undecided(row[d])
  BY <1>2 DEF SerialInv, CopyOK
<1>5. told[d] = {}
  <2>1. row[d] # None /\ row[d].user = None /\ ~row[d].denied
    BY <1>3, <1>4, ConstantsAssumption DEF Undecided, Pending
  <2>2. ASSUME NEW w \in told[d] PROVE FALSE
    <3>1. w.user \in User /\ w.approved \in BOOLEAN
      BY <1>3 DEF SerialInv, Inv, TypeOK, Verdict
    <3>2. row[d].denied = ~w.approved /\ row[d].user = (IF w.approved THEN w.user ELSE None)
      BY <1>3, <2>1 DEF SerialInv, LedgerOK
    <3> QED
      BY <2>1, <3>1, <3>2, ConstantsAssumption
  <2> QED
    BY <2>2
<1>6. /\ Decided(row[d], v).denied = ~v.approved
      /\ Decided(row[d], v).user = IF v.approved THEN v.user ELSE None
      /\ Decided(row[d], v).redeemed = row[d].redeemed
      /\ ~row[d].redeemed
  <2>1. ~Approved(row[d])
    BY <1>4 DEF Undecided, Pending, Approved
  <2>2. ~row[d].redeemed
    BY <1>3, <2>1, ConstantsAssumption DEF SerialInv, LedgerOK
  <2> QED
    BY <1>3, <2>2 DEF Decided, Row
<1>7. /\ row' = [row EXCEPT ![d] = Decided(row[d], v)]
      /\ told' = [told EXCEPT ![d] = told[d] \union {v}]
      /\ UNCHANGED <<patient, now, asked, paid, mints, slowed>>
  BY <1>4 DEF SaveDecision
<1>8. ASSUME NEW e \in Code PROVE LedgerOK(e)'
  <2>1. CASE e = d
    <3>1. told'[d] = {v} /\ row'[d] = Decided(row[d], v)
      BY <1>3, <1>5, <1>7 DEF SerialInv, Inv, TypeOK
    <3>2. row[d] # None
      BY <1>3, ConstantsAssumption
    <3> QED
      BY <1>3, <1>6, <1>7, <2>1, <3>1, <3>2 DEF SerialInv, LedgerOK
  <2>2. CASE e # d
    BY <1>7, <2>2 DEF SerialInv, Inv, TypeOK, LedgerOK
  <2> QED
    BY <2>1, <2>2
<1>9. PatienceRewarded'
  BY <1>7 DEF SerialInv, PatienceRewarded
<1>10. \A p \in Process : CopyOK(p)'
  BY <1>2, <1>7, EndsSerial DEF SerialInv, Inv, TypeOK
<1> QED
  BY <1>1, <1>8, <1>9, <1>10 DEF SerialInv

\* The row saved differs from the row in the poll time alone.
LEMMA SavePollSerial ==
  ASSUME SerialInv, AloneOnCode, NEW p \in Poll, SavePoll(p)
  PROVE  SerialInv'
<1> DEFINE d == req[p].code
           new == MarkPolled(row[d], stamp[p])
<1>1. Inv'
  BY SavePollInv DEF SerialInv
<1>2. p \in Process /\ pc[p] = "mark" /\ Finish(p)
  BY DEF Process, SavePoll
<1>3. d \in Code /\ row[d] \in Row /\ row[d] # None
  BY <1>2, Underway, ConstantsAssumption DEF SerialInv
<1>4. new.denied = row[d].denied /\ new.user = row[d].user /\ new.redeemed = row[d].redeemed
  BY <1>3 DEF MarkPolled, Row
<1>5. row' = [row EXCEPT ![d] = new] /\ UNCHANGED <<patient, now, history>>
  BY <1>2 DEF SerialInv, CopyOK, SavePoll
<1>6. ASSUME NEW e \in Code PROVE LedgerOK(e)'
  <2> HIDE DEF new
  <2>1. CASE e = d
    <3>1. row'[d] = new
      BY <1>3, <1>5 DEF SerialInv, Inv, TypeOK
    <3>2. Approved(new) <=> Approved(row[d])
      BY <1>4 DEF Approved
    <3> QED
      BY <1>3, <1>4, <1>5, <2>1, <3>1, <3>2 DEF SerialInv, LedgerOK, history
  <2>2. CASE e # d
    BY <1>5, <2>2 DEF SerialInv, Inv, TypeOK, LedgerOK, history
  <2> QED
    BY <2>1, <2>2
<1>7. PatienceRewarded'
  BY <1>5 DEF SerialInv, PatienceRewarded, history
<1>8. \A q \in Process : CopyOK(q)'
  BY <1>2, <1>5, EndsSerial DEF SerialInv, Inv, TypeOK, history
<1> QED
  BY <1>1, <1>6, <1>7, <1>8 DEF SerialInv

\* Only a row that was never redeemed is, so nothing was minted for it yet.
LEMMA RedeemSerial ==
  ASSUME SerialInv, AloneOnCode, NEW p \in Poll, Redeem(p)
  PROVE  SerialInv'
<1> DEFINE d == req[p].code
           new == [row[d] EXCEPT !.redeemed = TRUE]
<1>1. Inv'
  BY RedeemInv DEF SerialInv
<1>2. p \in Process /\ pc[p] = "redeem" /\ pc' = [pc EXCEPT ![p] = "mint"]
  BY DEF Process, Redeem, Goto
<1>3. d \in Code /\ row[d] \in Row /\ row[d] # None
  BY <1>2, Underway, ConstantsAssumption DEF SerialInv
<1>4. /\ new.redeemed /\ new.denied = row[d].denied /\ new.user = row[d].user
      /\ ~row[d].redeemed /\ Approved(new)
  BY <1>3 DEF Row, Redeem, Redeemable, Approved
<1>5. row'[d] = new /\ (\A e \in Code \ {d} : row'[e] = row[e])
      /\ seen'[p] = new /\ UNCHANGED <<patient, now, req, history>>
  BY <1>2, <1>3 DEF SerialInv, Inv, TypeOK, Redeem
<1>6. mints[d] = 0
  BY <1>3, <1>4 DEF SerialInv, LedgerOK
<1> HIDE DEF new
<1>7. CopyOK(p)'
  BY <1>2, <1>4, <1>5, <1>6 DEF SerialInv, Inv, TypeOK, CopyOK, history
<1>8. \A q \in Process : CopyOK(q)'
  BY <1>2, <1>5, <1>7, MovesSerial DEF SerialInv, Inv, TypeOK, Redeem, history
<1>9. ASSUME NEW e \in Code PROVE LedgerOK(e)'
  <2>1. CASE e = d
    BY <1>3, <1>4, <1>5, <2>1 DEF SerialInv, LedgerOK, history
  <2>2. CASE e # d
    BY <1>5, <2>2 DEF SerialInv, LedgerOK, history
  <2> QED
    BY <2>1, <2>2
<1>10. PatienceRewarded'
  BY <1>5 DEF SerialInv, PatienceRewarded, history
<1> QED
  BY <1>1, <1>8, <1>9, <1>10 DEF SerialInv

LEMMA MintSerial ==
  ASSUME SerialInv, AloneOnCode, NEW p \in Poll, Mint(p)
  PROVE  SerialInv'
<1> DEFINE d == req[p].code
<1>1. Inv'
  BY MintInv DEF SerialInv
<1>2. p \in Process /\ pc[p] = "mint" /\ Finish(p)
  BY DEF Process, Mint
<1>3. d \in Code /\ asked[d] # {}
  BY <1>2, Underway, ConstantsAssumption DEF SerialInv, Inv, StageOK
<1>4. row[d].redeemed /\ mints[d] = 0
  BY <1>2 DEF SerialInv, CopyOK
<1>5. mints' = [mints EXCEPT ![d] = 1] /\ UNCHANGED <<patient, row, now, asked, told, slowed>>
  BY <1>3, <1>4 DEF SerialInv, Inv, TypeOK, Mint
<1>6. ASSUME NEW e \in Code PROVE LedgerOK(e)'
  <2>1. CASE e = d
    BY <1>3, <1>4, <1>5, <2>1 DEF SerialInv, Inv, TypeOK, LedgerOK
  <2>2. CASE e # d
    <3>1. mints'[e] = mints[e] /\ paid'[e] = paid[e]
      BY <1>5, <2>2 DEF SerialInv, Inv, TypeOK, Mint
    <3> QED
      BY <1>5, <3>1 DEF SerialInv, LedgerOK
  <2> QED
    BY <2>1, <2>2
<1>7. PatienceRewarded'
  BY <1>5 DEF SerialInv, PatienceRewarded
<1>8. \A q \in Process : CopyOK(q)'
  BY <1>2, <1>5, EndsSerial DEF SerialInv, Inv, TypeOK
<1> QED
  BY <1>1, <1>6, <1>7, <1>8 DEF SerialInv

\* The rows may die with the process, the tokens and the answers do not.
LEMMA CrashSerial ==
  ASSUME SerialInv, Crash
  PROVE  SerialInv'
<1>1. Inv'
  BY CrashInv DEF SerialInv
<1>2. \A p \in Process : CopyOK(p)'
  BY DEF Crash, CopyOK
<1>3. (\A d \in Code : LedgerOK(d)') /\ PatienceRewarded'
  BY DEF SerialInv, LedgerOK, PatienceRewarded, Crash, history
<1> QED
  BY <1>1, <1>2, <1>3 DEF SerialInv

LEMMA TickSerial ==
  ASSUME SerialInv, Tick
  PROVE  SerialInv'
<1>1. Inv'
  BY NextInv DEF SerialInv, Next
<1>2. (\A d \in Code : LedgerOK(d)') /\ PatienceRewarded'
  BY DEF SerialInv, LedgerOK, PatienceRewarded, Tick, local, history
<1>3. ASSUME NEW p \in Process PROVE CopyOK(p)'
  <2>1. CASE pc[p] = "idle"
    BY <2>1 DEF CopyOK, Tick
  <2>2. CASE pc[p] # "idle"
    <3>1. row[req[p].code] \in Row /\ now \in Nat /\ now' = now + 1
      BY <2>2, Underway DEF SerialInv, Inv, TypeOK, Tick
    <3>2. row[req[p].code].next \in Nat
      BY <3>1 DEF Row
    <3> QED
      BY <3>1, <3>2 DEF SerialInv, CopyOK, Tick, local, history
  <2> QED
    BY <2>1, <2>2
<1> QED
  BY <1>1, <1>2, <1>3 DEF SerialInv

\* SerialInv is inductive as long as requests on one code do not overlap.
LEMMA NextSerial ==
  ASSUME SerialInv, AloneOnCode, [Next]_vars
  PROVE  SerialInv'
<1>1. ASSUME NEW q \in Consent, ConsentStep(q) PROVE SerialInv'
  BY <1>1, LookupSerial, QuietSerial, OnwardSerial, SaveDecisionSerial DEF ConsentStep, Process
<1>2. ASSUME NEW p \in Poll, PollStep(p) PROVE SerialInv'
  BY <1>2, LookupSerial, QuietSerial, OnwardSerial, SavePollSerial, RedeemSerial, MintSerial
     DEF PollStep, Process
<1>3. CASE UNCHANGED vars
  <2>1. Inv'
    BY NextInv DEF SerialInv
  <2> QED
    BY <1>3, <2>1 DEF SerialInv, CopyOK, LedgerOK, PatienceRewarded, vars, local, history
<1> QED
  BY <1>1, <1>2, <1>3, AuthorizeSerial, SubmitConsentSerial, ReceivePollSerial, CrashSerial,
     TickSerial DEF Next

LEMMA InitSerial == Init => SerialInv
<1> SUFFICES ASSUME Init PROVE SerialInv
  OBVIOUS
<1>1. Inv
  BY ConstantsAssumption DEF Init, Inv, TypeOK, StageOK, RowsOK, PaidOnlyApprovers
<1> QED
  BY <1>1 DEF Init, SerialInv, CopyOK, LedgerOK, PatienceRewarded

\* As long as no two requests on one code overlap, SerialInv holds, whatever the
\* adapter and wherever the process dies.
THEOREM SerialInvHolds == Spec /\ []AloneOnCode => []SerialInv
<1>1. Init => SerialInv
  BY InitSerial
<1>2. SerialInv /\ AloneOnCode /\ [Next]_vars => SerialInv'
  BY NextSerial
<1> QED
  BY <1>1, <1>2, PTL DEF Spec

\* Then one approval is worth at most one issuance, no two users are both told
\* that their decision counts, that decision stays in the row as long as the row
\* does, and a device that keeps to its interval is never told to slow down.
THEOREM SerialRequestsSafe ==
  Spec /\ []AloneOnCode => [](IssuedOnce /\ OneVerdict /\ VerdictSticks /\ PatienceRewarded)
<1>1. SerialInv => IssuedOnce /\ OneVerdict /\ VerdictSticks /\ PatienceRewarded
  BY DEF SerialInv, LedgerOK, IssuedOnce, OneVerdict, VerdictSticks
<1> QED
  BY <1>1, SerialInvHolds, PTL

\* Then redemption is never undone while the row lives.
THEOREM SerialRedemptionFinal == Spec /\ []AloneOnCode => RedemptionIsFinal
<1> DEFINE Kept == \A d \in Code :
                     row[d] # None /\ row[d].redeemed /\ row'[d] # None => row'[d].redeemed
<1>1. ASSUME SerialInv, Next PROVE Kept
  <2>1. ASSUME NEW d \in Code, NEW c \in Client, Authorize(d, c) PROVE Kept
    BY <1>1, <2>1 DEF SerialInv, Inv, TypeOK, Authorize, Unused
  <2>2. ASSUME NEW q \in Consent, SaveDecision(q) PROVE Kept
    <3>1. q \in Process /\ pc[q] = "decide"
      BY <2>2 DEF Process, SaveDecision
    <3>2. row[req[q].code] \in Row /\ seen[q] = row[req[q].code]
      BY <1>1, <3>1, Underway DEF SerialInv, CopyOK
    <3> QED
      BY <1>1, <2>2, <3>2 DEF SerialInv, Inv, TypeOK, SaveDecision, Decided, Row
  <2>3. ASSUME NEW p \in Poll, SavePoll(p) PROVE Kept
    <3>1. p \in Process /\ pc[p] = "mark"
      BY <2>3 DEF Process, SavePoll
    <3>2. row[req[p].code] \in Row /\ seen[p] = row[req[p].code]
      BY <1>1, <3>1, Underway DEF SerialInv, CopyOK
    <3> QED
      BY <1>1, <2>3, <3>2 DEF SerialInv, Inv, TypeOK, SavePoll, MarkPolled, Row
  <2>4. ASSUME NEW p \in Poll, Redeem(p) PROVE Kept
    <3>1. p \in Process /\ pc[p] = "redeem"
      BY <2>4 DEF Process, Redeem, Goto
    <3>2. req[p].code \in Code /\ row[req[p].code] \in Row
      BY <1>1, <3>1, Underway DEF SerialInv
    <3> QED
      BY <1>1, <2>4, <3>2 DEF SerialInv, Inv, TypeOK, Redeem, Row
  <2>5. CASE Crash
    BY <1>1, <2>5 DEF Crash
  <2>6. CASE UNCHANGED row
    BY <2>6
  <2> QED
    BY <1>1, <2>1, <2>2, <2>3, <2>4, <2>5, <2>6
       DEF Next, ConsentStep, PollStep, SubmitConsent, ReceivePoll, Lookup, RefuseConsent,
           AcceptConsent, RefusePoll, TooEarly, NotYet, TryRedeem, RedeemNothing, Mint, Tick
<1>2. SerialInv /\ [Next]_vars => [Kept]_vars
  BY <1>1
<1>3. Spec /\ []AloneOnCode => [][Kept]_vars
  BY <1>2, SerialInvHolds, PTL DEF Spec
<1> QED
  BY <1>3 DEF RedemptionIsFinal

------------------------------------------------------------------------------
\* The refinement of OneTimeGrant, with serial requests.

\* The mapping, read off the invariant.
Standing(d) ==
  IF mints[d] = 1 THEN "spent"
  ELSE IF row[d] = None THEN (IF Unused(d) THEN "new" ELSE "lost")
  ELSE IF row[d].redeemed THEN "claimed"
  ELSE IF Pending(row[d]) THEN "open"
  ELSE IF row[d].denied THEN "denied" ELSE "approved"

Due(d) ==
  IF Standing(d) = "spent" THEN PaidUser(d)
  ELSE IF Standing(d) \in {"approved", "claimed"} THEN row[d].user ELSE None

MapOK ==
  /\ codeState = [d \in Code |-> Standing(d)]
  /\ codeTerms = [d \in Code |-> Due(d)]

LEMMA MapReads == SerialInv => MapOK
<1> SUFFICES ASSUME SerialInv PROVE MapOK
  OBVIOUS
<1>1. ASSUME NEW d \in Code PROVE StateOf(d) = Standing(d)
  <2>1. mints[d] = 0 \/ mints[d] = 1
    BY DEF SerialInv, Inv, TypeOK, LedgerOK
  <2>2. CASE mints[d] = 1
    BY <2>2 DEF StateOf, Standing
  <2>3. CASE mints[d] = 0 /\ row[d] = None
    BY <2>3 DEF StateOf, Standing
  <2>4. CASE mints[d] = 0 /\ row[d] # None
    BY <2>4 DEF StateOf, Standing
  <2> QED
    BY <2>1, <2>2, <2>3, <2>4
<1>2. ASSUME NEW d \in Code PROVE DueFor(d) = Due(d)
  <2>1. Standing(d) \in {"spent", "new", "lost", "claimed", "open", "denied", "approved"}
    BY DEF Standing
  <2> QED
    BY <1>1, <2>1 DEF DueFor, Due
<1> QED
  BY <1>1, <1>2 DEF MapOK, codeState, codeTerms

LEMMA MapReadsNext == SerialInv' => MapOK'
  BY MapReads, PTL

\* What the mapping looks at in a row: not the client, the deadline or the poll.
Same(c, e) == c.user = e.user /\ c.denied = e.denied /\ c.redeemed = e.redeemed

\* A code that is not touched where the mapping looks stays where it is.
LEMMA CodeStays ==
  ASSUME NEW d \in Code, mints'[d] = mints[d], paid'[d] = paid[d],
         \/ row'[d] = row[d] /\ (row[d] = None => (Unused(d)' <=> Unused(d)))
         \/ row[d] # None /\ row'[d] # None /\ Same(row'[d], row[d])
  PROVE  Standing(d)' = Standing(d) /\ Due(d)' = Due(d)
<1>1. Standing(d)' = Standing(d)
  BY DEF Standing, Same, Pending
<1> QED
  BY <1>1 DEF Due, Standing, Same, PaidUser

LEMMA AllStay ==
  ASSUME SerialInv, SerialInv',
         \A d \in Code : Standing(d)' = Standing(d) /\ Due(d)' = Due(d)
  PROVE  UNCHANGED Grants!vars
<1>1. codeState' = [d \in Code |-> Standing(d)'] /\ codeTerms' = [d \in Code |-> Due(d)']
  BY MapReadsNext DEF MapOK
<1>2. codeState = [d \in Code |-> Standing(d)] /\ codeTerms = [d \in Code |-> Due(d)]
  BY MapReads DEF MapOK
<1>3. codeState' = codeState /\ codeTerms' = codeTerms
  BY <1>1, <1>2
<1> QED
  BY <1>3 DEF Grants!vars

LEMMA OneMoves ==
  ASSUME SerialInv, SerialInv', NEW d \in Code,
         \A e \in Code \ {d} : Standing(e)' = Standing(e) /\ Due(e)' = Due(e)
  PROVE  /\ codeState[d] = Standing(d)
         /\ codeState' = [codeState EXCEPT ![d] = Standing(d)']
         /\ codeTerms' = [codeTerms EXCEPT ![d] = Due(d)']
         /\ Due(d)' = Due(d) => codeTerms' = codeTerms
<1>1. codeState' = [e \in Code |-> Standing(e)'] /\ codeTerms' = [e \in Code |-> Due(e)']
  BY MapReadsNext DEF MapOK
<1>2. codeState = [e \in Code |-> Standing(e)] /\ codeTerms = [e \in Code |-> Due(e)]
  BY MapReads DEF MapOK
<1> QED
  BY <1>1, <1>2

\* The other codes, when the row of one code is written.
LEMMA RestStays ==
  ASSUME NEW d \in Code, UNCHANGED <<asked, slowed>>,
         \A e \in Code \ {d} : row'[e] = row[e] /\ mints'[e] = mints[e] /\ paid'[e] = paid[e]
  PROVE  \A e \in Code \ {d} : Standing(e)' = Standing(e) /\ Due(e)' = Due(e)
<1> SUFFICES ASSUME NEW e \in Code \ {d} PROVE Standing(e)' = Standing(e) /\ Due(e)' = Due(e)
  OBVIOUS
<1>1. Unused(e)' <=> Unused(e)
  BY DEF Unused
<1> QED
  BY <1>1, CodeStays

\* A fresh code is there for the user to decide.
LEMMA AuthorizeIsOpen ==
  ASSUME SerialInv, SerialInv', NEW d \in Code, NEW c \in Client, Authorize(d, c)
  PROVE  Grants!Next
<1> DEFINE new == [client |-> c, expires |-> now + CodeTTL, next |-> 0, user |-> None,
                   denied |-> FALSE, redeemed |-> FALSE]
<1>1. Unused(d) /\ row[d] = None /\ row' = [row EXCEPT ![d] = new]
      /\ UNCHANGED <<asked, slowed, mints, paid>>
  BY DEF Authorize, Unused, history
<1>2. Pending(new) /\ ~new.redeemed
  BY DEF Pending
<1> HIDE DEF new
<1>3. mints[d] = 0
  BY <1>1 DEF SerialInv, Inv, TypeOK, LedgerOK, Unused
<1>4. row'[d] = new /\ \A e \in Code \ {d} : row'[e] = row[e]
  BY <1>1 DEF SerialInv, Inv, TypeOK
<1>5. row'[d] # None
  <2>1. now + CodeTTL \in Nat
    BY ConstantsAssumption DEF SerialInv, Inv, TypeOK
  <2>2. new \in Row
    BY <2>1 DEF new, Row
  <2> QED
    BY <1>4, <2>2, ConstantsAssumption
<1>6. Standing(d) = "new" /\ Standing(d)' = "open" /\ Due(d)' = Due(d)
  BY <1>1, <1>2, <1>3, <1>4, <1>5 DEF Standing, Due
<1>7. \A e \in Code \ {d} : Standing(e)' = Standing(e) /\ Due(e)' = Due(e)
  BY <1>1, <1>4, RestStays
<1>8. Grants!Open(d)
  BY <1>6, <1>7, OneMoves DEF Grants!Open, Grants!Moves
<1> QED
  BY <1>8 DEF Grants!Next

\* A decision that is accepted is the first.
LEMMA SaveDecisionIsDecision ==
  ASSUME SerialInv, SerialInv', NEW q \in Consent, SaveDecision(q)
  PROVE  Grants!Next
<1>1. q \in Process /\ pc[q] = "decide"
  BY DEF Process, SaveDecision
<1>2. PICK d \in Code : d = req[q].code
  BY <1>1, Underway DEF SerialInv
<1>3. PICK v \in Verdict : v = req[q].verdict
  BY <1>1, Underway DEF SerialInv
<1> DEFINE new == Decided(row[d], v)
<1>4. row[d] \in Row /\ Pending(row[d])
  BY <1>1, <1>2, Underway DEF SerialInv, CopyOK, Undecided
<1>5. /\ row' = [row EXCEPT ![d] = new]
      /\ UNCHANGED <<asked, slowed, mints, paid>>
  BY <1>1, <1>2, <1>3 DEF SerialInv, CopyOK, SaveDecision
<1>6. ~row[d].redeemed /\ mints[d] = 0 /\ row[d] # None
  BY <1>4, ConstantsAssumption DEF SerialInv, LedgerOK, Pending, Approved
<1>7. /\ new \in Row /\ ~new.redeemed /\ new.denied = ~v.approved
      /\ new.user = IF v.approved THEN v.user ELSE None
      /\ v.user \in User /\ v.user # None /\ v.approved \in BOOLEAN
  BY <1>4, <1>6, ConstantsAssumption DEF Decided, Row, Verdict
<1> HIDE DEF new
<1>8. row'[d] = new /\ row'[d] # None /\ \A e \in Code \ {d} : row'[e] = row[e]
  BY <1>5, <1>7, ConstantsAssumption DEF SerialInv, Inv, TypeOK
<1>9. \A e \in Code \ {d} : Standing(e)' = Standing(e) /\ Due(e)' = Due(e)
  BY <1>5, <1>8, RestStays
<1>10. Standing(d) = "open" /\ Due(d) = None
  BY <1>4, <1>6 DEF Standing, Due
<1>11. CASE v.approved
  <2>1. ~row'[d].denied /\ ~row'[d].redeemed /\ row'[d].user = v.user
    BY <1>7, <1>8, <1>11
  <2>2. Standing(d)' = "approved" /\ Due(d)' = v.user
    BY <1>5, <1>6, <1>7, <1>8, <2>1 DEF Standing, Due, Pending
  <2>3. Grants!Approve(d, v.user)
    BY <1>9, <1>10, <2>2, OneMoves DEF Grants!Approve, Grants!Moves
  <2> QED
    BY <1>7, <2>3 DEF Grants!Next
<1>12. CASE ~v.approved
  <2>1. Standing(d)' = "denied" /\ Due(d)' = Due(d)
    BY <1>5, <1>6, <1>7, <1>8, <1>10, <1>12 DEF Standing, Due, Pending
  <2>2. Grants!Deny(d)
    BY <1>9, <1>10, <2>1, OneMoves DEF Grants!Deny, Grants!Moves
  <2> QED
    BY <2>2 DEF Grants!Next
<1> QED
  BY <1>7, <1>11, <1>12

LEMMA RedeemIsClaim ==
  ASSUME SerialInv, SerialInv', NEW p \in Poll, Redeem(p)
  PROVE  Grants!Next
<1>1. p \in Process /\ pc[p] = "redeem"
  BY DEF Process, Redeem, Goto
<1>2. PICK d \in Code : d = req[p].code
  BY <1>1, Underway DEF SerialInv
<1> DEFINE new == [row[d] EXCEPT !.redeemed = TRUE]
<1>3. row[d] \in Row /\ ~row[d].redeemed /\ Approved(row[d])
  BY <1>1, <1>2, Underway DEF SerialInv, Redeem, Redeemable
<1>4. mints[d] = 0 /\ row[d] # None
  BY <1>3, ConstantsAssumption DEF SerialInv, LedgerOK
<1>5. new \in Row /\ new.redeemed /\ new.user = row[d].user
  BY <1>3 DEF Row
<1>6. /\ row' = [row EXCEPT ![d] = new]
      /\ UNCHANGED <<asked, slowed, mints, paid>>
  BY <1>2, <1>3 DEF SerialInv, Inv, TypeOK, Redeem, history
<1> HIDE DEF new
<1>7. row'[d] = new /\ row'[d] # None /\ \A e \in Code \ {d} : row'[e] = row[e]
  BY <1>5, <1>6, ConstantsAssumption DEF SerialInv, Inv, TypeOK
<1>8. Standing(d) = "approved" /\ Standing(d)' = "claimed" /\ Due(d)' = Due(d)
  BY <1>3, <1>4, <1>5, <1>6, <1>7 DEF Standing, Due, Approved, Pending
<1>9. \A e \in Code \ {d} : Standing(e)' = Standing(e) /\ Due(e)' = Due(e)
  BY <1>6, <1>7, RestStays
<1>10. Grants!Claim(d)
  BY <1>8, <1>9, OneMoves DEF Grants!Claim, Grants!Moves
<1> QED
  BY <1>10 DEF Grants!Next

\* The tokens are for the user in the row, who is the first to be paid.
LEMMA MintIsSpend ==
  ASSUME SerialInv, SerialInv', NEW p \in Poll, Mint(p)
  PROVE  Grants!Next
<1>1. p \in Process /\ pc[p] = "mint"
  BY DEF Process, Mint
<1>2. PICK d \in Code : d = req[p].code
  BY <1>1, Underway DEF SerialInv
<1>3. /\ row[d] \in Row /\ row[d] # None /\ row[d].redeemed
      /\ seen[p] = row[d] /\ mints[d] = 0 /\ paid[d] = {}
  BY <1>1, <1>2, Underway, ConstantsAssumption DEF SerialInv, CopyOK, LedgerOK
<1>4. /\ mints'[d] = 1 /\ paid'[d] = {row[d].user}
      /\ \A e \in Code \ {d} : mints'[e] = mints[e] /\ paid'[e] = paid[e]
      /\ UNCHANGED <<asked, slowed, row>>
  BY <1>2, <1>3 DEF SerialInv, Inv, TypeOK, Mint
<1>5. Standing(d) = "claimed" /\ Standing(d)' = "spent"
  BY <1>3, <1>4 DEF Standing
<1>6. Due(d)' = Due(d)
  <2>1. Due(d)' = CHOOSE u \in {row[d].user} : TRUE
    BY <1>4, <1>5 DEF Due, PaidUser
  <2> QED
    BY <1>5, <2>1 DEF Due
<1>7. \A e \in Code \ {d} : Standing(e)' = Standing(e) /\ Due(e)' = Due(e)
  BY <1>4, RestStays
<1>8. Grants!Spend(d)
  BY <1>5, <1>6, <1>7, OneMoves DEF Grants!Spend, Grants!Moves
<1> QED
  BY <1>8 DEF Grants!Next

\* Over rows that survive a crash takes nothing; in memory it takes every code
\* that is not spent, and nobody remembers one that no user and no slow_down
\* has touched.
LEMMA CrashIsLoss ==
  ASSUME SerialInv, SerialInv', Crash
  PROVE  [Grants!Next]_(Grants!vars)
<1> DEFINE here == {d \in Code : mints[d] # 1 /\ row[d] # None}
           forgotten == {d \in here : asked[d] = {} /\ d \notin slowed}
           lost == here \ forgotten
<1>1. UNCHANGED <<asked, slowed, mints, paid>>
  BY DEF Crash, history
<1>2. CASE Suspends
  <2>1. row' = row
    BY <1>2 DEF Crash
  <2>2. \A d \in Code : Unused(d)' <=> Unused(d)
    BY <1>1, <2>1 DEF Unused
  <2> QED
    BY <1>1, <2>1, <2>2, CodeStays, AllStay
<1>3. CASE ~Suspends
  <2>1. \A d \in Code : row'[d] = None
    BY <1>3 DEF Crash
  <2>2. ASSUME NEW d \in forgotten
        PROVE  Standing(d) = "open" /\ Standing(d)' = "new" /\ Due(d)' = Due(d)
    <3>1. row[d].user = None /\ ~row[d].denied /\ ~row[d].redeemed
      BY DEF SerialInv, Inv, RowsOK, LedgerOK, Approved
    <3>2. Unused(d)'
      BY <1>1, <2>1 DEF Unused
    <3>3. Standing(d) = "open"
      BY <3>1 DEF Standing, Pending
    <3>4. Standing(d)' = "new"
      BY <1>1, <2>1, <3>2 DEF Standing
    <3> QED
      BY <3>3, <3>4 DEF Due
  <2>3. ASSUME NEW d \in lost
        PROVE  /\ Standing(d) \in {"open", "approved", "denied", "claimed"}
               /\ Standing(d)' = "lost" /\ Due(d)' = None
    <3>1. Standing(d) \in {"open", "approved", "denied", "claimed"}
      BY DEF Standing
    <3>2. ~Unused(d)'
      BY <1>1 DEF Unused
    <3>3. Standing(d)' = "lost"
      BY <1>1, <2>1, <3>2 DEF Standing
    <3> QED
      BY <3>1, <3>3 DEF Due
  <2>4. ASSUME NEW d \in Code \ here
        PROVE  Standing(d)' = Standing(d) /\ Due(d)' = Due(d)
    <3>1. CASE mints[d] = 1
      BY <1>1, <3>1 DEF Standing, Due, PaidUser
    <3>2. CASE row[d] = None
      <4>1. Unused(d)' <=> Unused(d)
        BY <1>1, <2>1, <3>2 DEF Unused
      <4> QED
        BY <1>1, <2>1, <3>2, <4>1, CodeStays
    <3> QED
      BY <3>1, <3>2
  <2>5. /\ codeState = [d \in Code |-> Standing(d)]
        /\ codeTerms = [d \in Code |-> Due(d)]
        /\ codeState' = [d \in Code |-> Standing(d)']
        /\ codeTerms' = [d \in Code |-> Due(d)']
    BY MapReads, MapReadsNext DEF MapOK
  <2>6. lost \in SUBSET Code /\ forgotten \in SUBSET Code
    OBVIOUS
  <2>7. \A d \in Code : d \in lost \/ d \in forgotten \/ d \in Code \ here
    OBVIOUS
  <2> HIDE DEF here, forgotten, lost
  <2>8. Grants!Lose(lost, forgotten)
    BY <2>2, <2>3, <2>4, <2>5, <2>6, <2>7 DEF Grants!Lose
  <2> QED
    BY <2>6, <2>8 DEF Grants!Next
<1> QED
  BY <1>2, <1>3

\* Everything else is nothing to the promise: requests that arrive, look the row
\* up, are refused or go on, and a poll that saves when it came.
LEMMA QuietStays ==
  ASSUME SerialInv, SerialInv',
         \/ \E q \in Consent, d \in Code, v \in Verdict : SubmitConsent(q, d, v)
         \/ \E p \in Poll, d \in Code, c \in Client : ReceivePoll(p, d, c)
         \/ \E p \in Process : Lookup(p)
         \/ \E q \in Consent : RefuseConsent(q) \/ AcceptConsent(q)
         \/ \E p \in Poll : \/ RefusePoll(p) \/ TooEarly(p) \/ NotYet(p) \/ TryRedeem(p)
                            \/ RedeemNothing(p)
         \/ Tick \/ UNCHANGED vars
  PROVE  UNCHANGED Grants!vars
<1>1. UNCHANGED <<row, mints, paid>>
  BY DEF SubmitConsent, ReceivePoll, Lookup, RefuseConsent, AcceptConsent, RefusePoll,
     TooEarly, NotYet, TryRedeem, RedeemNothing, Tick, vars, history
<1>2. ASSUME NEW d \in Code, row[d] = None
      PROVE  asked'[d] = asked[d] /\ (d \in slowed' <=> d \in slowed)
  <2>1. ASSUME NEW q \in Consent, NEW e \in Code, NEW v \in Verdict, SubmitConsent(q, e, v)
        PROVE  asked'[d] = asked[d] /\ (d \in slowed' <=> d \in slowed)
    BY <1>2, <2>1 DEF SerialInv, Inv, TypeOK, SubmitConsent
  <2>2. ASSUME NEW p \in Poll, TooEarly(p)
        PROVE  asked'[d] = asked[d] /\ (d \in slowed' <=> d \in slowed)
    <3>1. row[req[p].code] # None
      BY <2>2 DEF SerialInv, Inv, StageOK, TooEarly, Goto, Process
    <3> QED
      BY <1>2, <2>2, <3>1 DEF TooEarly
  <2> QED
    BY <2>1, <2>2 DEF ReceivePoll, Lookup, RefuseConsent, AcceptConsent, RefusePoll,
     NotYet, TryRedeem, RedeemNothing, Tick, vars, history
<1>3. \A d \in Code : row[d] = None => (Unused(d)' <=> Unused(d))
  BY <1>1, <1>2 DEF Unused
<1> QED
  BY <1>1, <1>3, CodeStays, AllStay

LEMMA SavePollStays ==
  ASSUME SerialInv, SerialInv', NEW p \in Poll, SavePoll(p)
  PROVE  UNCHANGED Grants!vars
<1>1. p \in Process /\ pc[p] = "mark"
  BY DEF Process, SavePoll
<1>2. PICK d \in Code : d = req[p].code
  BY <1>1, Underway DEF SerialInv
<1>3. row[d] \in Row /\ row[d] # None
  BY <1>1, <1>2, Underway, ConstantsAssumption DEF SerialInv
<1>4. /\ row' = [row EXCEPT ![d] = MarkPolled(row[d], stamp[p])]
      /\ UNCHANGED <<asked, slowed, mints, paid>>
  BY <1>1, <1>2 DEF SerialInv, CopyOK, SavePoll, history
<1>5. Same(row'[d], row[d]) /\ \A e \in Code \ {d} : row'[e] = row[e]
  BY <1>3, <1>4 DEF SerialInv, Inv, TypeOK, MarkPolled, Row, Same
<1>6. row'[d] # None
  <2>1. stamp[p] + Interval \in Nat
    BY <1>1, ConstantsAssumption DEF SerialInv, Inv, TypeOK
  <2>2. MarkPolled(row[d], stamp[p]) \in Row
    BY <1>3, <2>1 DEF MarkPolled, Row
  <2> QED
    BY <1>4, <2>2, ConstantsAssumption DEF SerialInv, Inv, TypeOK
<1>7. Standing(d)' = Standing(d) /\ Due(d)' = Due(d)
  BY <1>3, <1>4, <1>5, <1>6, CodeStays
<1>8. \A e \in Code \ {d} : Standing(e)' = Standing(e) /\ Due(e)' = Due(e)
  BY <1>4, <1>5, RestStays
<1> QED
  BY <1>7, <1>8, AllStay

\* With serial requests the device grant implements OneTimeGrant over any adapter:
\* a decision is taken once and stands, and an approval is claimed once and buys
\* tokens for the user who gave it, or is lost.
THEOREM SerialKeepsThePromise == Spec /\ []AloneOnCode => KeepsPromise
<1>1. Init => Grants!Init
  <2> SUFFICES ASSUME Init PROVE Grants!Init
    OBVIOUS
  <2>1. ASSUME NEW d \in Code PROVE StateOf(d) = "new"
    BY DEF Init, StateOf, Unused
  <2>2. ASSUME NEW d \in Code PROVE DueFor(d) = None
    BY <2>1 DEF DueFor
  <2> QED
    BY <2>1, <2>2 DEF Grants!Init, codeState, codeTerms
<1>2. ASSUME SerialInv, SerialInv', [Next]_vars PROVE [Grants!Next]_(Grants!vars)
  <2>1. ASSUME NEW q \in Consent, ConsentStep(q) PROVE [Grants!Next]_(Grants!vars)
    BY <1>2, <2>1, QuietStays, SaveDecisionIsDecision DEF ConsentStep, Process
  <2>2. ASSUME NEW p \in Poll, PollStep(p) PROVE [Grants!Next]_(Grants!vars)
    BY <1>2, <2>2, QuietStays, SavePollStays, RedeemIsClaim, MintIsSpend DEF PollStep, Process
  <2> QED
    BY <1>2, <2>1, <2>2, QuietStays, AuthorizeIsOpen, CrashIsLoss DEF Next
<1> QED
  BY <1>1, <1>2, SerialInvHolds, PTL DEF Spec, KeepsPromise, Grants!Spec

------------------------------------------------------------------------------
(***************************************************************************)
(* A weaker hypothesis, for what matters most: a device waits for the      *)
(* answer to its poll and a user for the answer to the form, but polls and *)
(* decisions on one code overlap at will (OneAtATime).  A decision may     *)
(* then be lost to a poll that writes an undecided copy back, yet no       *)
(* redemption is, because only a poll redeems.                             *)
(***************************************************************************)

OneAtATime ==
  \A kind \in {Poll, Consent} : \A p, q \in kind :
    pc[p] # "idle" /\ pc[q] # "idle" /\ req[p].code = req[q].code => p = q

\* A poll that saw a decision has a copy of the row as it is; one that saw none
\* knows at least that nobody redeemed.  A form that saw no decision comes first.
KnowsOK(p) ==
  /\ p \in Poll /\ pc[p] \in {"check", "mark"} =>
       /\ Pending(seen[p]) => ~seen[p].redeemed /\ ~row[req[p].code].redeemed
       /\ ~Pending(seen[p]) => Same(seen[p], row[req[p].code])
  /\ pc[p] = "mint" => row[req[p].code].redeemed /\ mints[req[p].code] = 0
  /\ p \in Consent /\ pc[p] \in {"check", "decide"} /\ Pending(seen[p]) =>
       ~seen[p].redeemed /\ Pending(row[req[p].code])
  /\ pc[p] = "decide" => Pending(seen[p])

RedeemedOK(d) ==
  /\ row[d] # None /\ row[d].redeemed => Approved(row[d])
  /\ mints[d] <= 1
  /\ mints[d] # 0 => asked[d] # {} /\ (row[d] = None \/ row[d].redeemed)

PairInv ==
  /\ Inv
  /\ \A p \in Process : KnowsOK(p)
  /\ \A d \in Code : RedeemedOK(d)

\* What a request knows does not depend on other codes.
LEMMA KnowsKept ==
  ASSUME PairInv, NEW q \in Process, pc'[q] = pc[q], req'[q] = req[q], seen'[q] = seen[q],
         pc[q] # "idle" => /\ row'[req[q].code] = row[req[q].code]
                           /\ mints'[req[q].code] = mints[req[q].code]
  PROVE  KnowsOK(q)'
<1>1. CASE pc[q] = "idle"
  BY <1>1 DEF KnowsOK
<1>2. CASE pc[q] # "idle"
  BY <1>2 DEF PairInv, KnowsOK
<1> QED
  BY <1>1, <1>2

\* Where a row is written, the request of the other kind is the one to look at.
LEMMA Counterpart ==
  ASSUME PairInv, OneAtATime, NEW p \in Process, NEW q \in Process, p # q,
         pc[p] # "idle", pc[q] # "idle", req[p].code = req[q].code
  PROVE  (p \in Poll /\ q \in Consent) \/ (p \in Consent /\ q \in Poll)
  BY DEF OneAtATime, Process

\* Requests that end change nothing for the others ...
LEMMA EndsPaired ==
  ASSUME PairInv, NEW p \in Process, Finish(p), UNCHANGED <<row, mints, asked>>, Inv'
  PROVE  PairInv'
<1>1. ASSUME NEW q \in Process PROVE KnowsOK(q)'
  <2>1. CASE q = p
    BY <2>1, FinishLocal DEF PairInv, Inv, KnowsOK
  <2>2. CASE q # p
    BY <2>2, FinishLocal, KnowsKept DEF PairInv, Inv
  <2> QED
    BY <2>1, <2>2
<1>2. \A d \in Code : RedeemedOK(d)'
  BY DEF PairInv, RedeemedOK
<1> QED
  BY <1>1, <1>2 DEF PairInv

\* ... and those that go on with their copy know what they knew.
LEMMA OnwardPaired ==
  ASSUME PairInv, NEW p \in Process, NEW to \in {"mark", "redeem", "decide"},
         Goto(p, "check", to), to = "decide" => Pending(seen[p]),
         UNCHANGED <<row, req, seen, mints, asked>>, Inv'
  PROVE  PairInv'
<1>1. ASSUME NEW q \in Process PROVE KnowsOK(q)'
  <2>1. CASE q = p
    <3>1. pc[p] = "check" /\ pc'[p] = to
      BY DEF PairInv, Inv, TypeOK, Goto
    <3> QED
      BY <2>1, <3>1 DEF PairInv, KnowsOK
  <2>2. CASE q # p
    BY <2>2, KnowsKept DEF PairInv, Inv, TypeOK, Goto
  <2> QED
    BY <2>1, <2>2
<1>2. \A d \in Code : RedeemedOK(d)'
  BY DEF PairInv, RedeemedOK
<1> QED
  BY <1>1, <1>2 DEF PairInv

\* The steps that touch neither row nor tokens.
LEMMA QuietPaired ==
  ASSUME PairInv, [Next]_vars,
         \/ \E q \in Consent : RefuseConsent(q) \/ AcceptConsent(q)
         \/ \E p \in Poll : \/ RefusePoll(p) \/ RedeemNothing(p)
                            \/ TooEarly(p) \/ NotYet(p) \/ TryRedeem(p)
  PROVE  PairInv'
<1>1. Inv'
  BY NextInv DEF PairInv
<1>2. ASSUME NEW q \in Consent, RefuseConsent(q) PROVE PairInv'
  BY <1>1, <1>2, EndsPaired DEF RefuseConsent, Process, history
<1>3. ASSUME NEW q \in Consent, AcceptConsent(q) PROVE PairInv'
  BY <1>1, <1>3, OnwardPaired DEF AcceptConsent, Undecided, Process, local, history
<1>4. ASSUME NEW p \in Poll, RefusePoll(p) \/ RedeemNothing(p) PROVE PairInv'
  BY <1>1, <1>4, EndsPaired DEF RefusePoll, RedeemNothing, Process, history
<1>5. ASSUME NEW p \in Poll, TooEarly(p) \/ NotYet(p) \/ TryRedeem(p) PROVE PairInv'
  BY <1>1, <1>5, OnwardPaired DEF TooEarly, NotYet, TryRedeem, Process, history
<1> QED
  BY <1>2, <1>3, <1>4, <1>5

\* A request arrives, without a copy.
LEMMA ArrivesPaired ==
  ASSUME PairInv, NEW p \in Process, pc' = [pc EXCEPT ![p] = "lookup"],
         \A q \in Process \ {p} : req'[q] = req[q],
         UNCHANGED <<row, seen, mints>>, \A d \in Code : asked[d] \subseteq asked'[d], Inv'
  PROVE  PairInv'
<1>1. ASSUME NEW q \in Process PROVE KnowsOK(q)'
  <2>1. CASE q = p
    <3>1. pc'[p] = "lookup"
      BY DEF PairInv, Inv, TypeOK
    <3> QED
      BY <2>1, <3>1 DEF KnowsOK
  <2>2. CASE q # p
    BY <2>2, KnowsKept DEF PairInv, Inv, TypeOK
  <2> QED
    BY <2>1, <2>2
<1>2. \A d \in Code : RedeemedOK(d)'
  BY DEF PairInv, RedeemedOK
<1> QED
  BY <1>1, <1>2 DEF PairInv

LEMMA AuthorizePaired ==
  ASSUME PairInv, NEW d \in Code, NEW c \in Client, Authorize(d, c)
  PROVE  PairInv'
<1>1. Inv'
  BY AuthorizeInv DEF PairInv
<1>2. /\ row[d] = None /\ asked[d] = {} /\ ~row'[d].redeemed
      /\ \A e \in Code \ {d} : row'[e] = row[e]
      /\ UNCHANGED <<pc, req, seen, mints, asked>>
  BY DEF PairInv, Inv, TypeOK, Authorize, Unused, local, history
<1>3. ASSUME NEW q \in Process PROVE KnowsOK(q)'
  <2>1. pc[q] # "idle" => req[q].code \in Code \ {d}
    BY <1>2, Underway, ConstantsAssumption DEF PairInv
  <2> QED
    BY <1>2, <2>1, KnowsKept
<1>4. ASSUME NEW e \in Code PROVE RedeemedOK(e)'
  <2>1. CASE e = d
    BY <1>2, <2>1 DEF PairInv, RedeemedOK
  <2>2. CASE e # d
    BY <1>2, <2>2 DEF PairInv, RedeemedOK
  <2> QED
    BY <2>1, <2>2
<1> QED
  BY <1>1, <1>3, <1>4 DEF PairInv

LEMMA LookupPaired ==
  ASSUME PairInv, NEW p \in Process, Lookup(p)
  PROVE  PairInv'
<1>1. Inv'
  BY LookupInv DEF PairInv
<1>2. PICK d \in Code : d = req[p].code /\ row[d] \in Row
  BY Underway DEF PairInv, Lookup, Goto
<1>3. /\ pc'[p] = "check" /\ seen'[p] = row[d]
      /\ \A q \in Process \ {p} : pc'[q] = pc[q] /\ seen'[q] = seen[q]
      /\ UNCHANGED <<row, req, mints, asked>>
  BY <1>2 DEF PairInv, Inv, TypeOK, Lookup, Goto, history
<1>4. Pending(row[d]) => ~row[d].redeemed
  BY <1>2, ConstantsAssumption DEF PairInv, RedeemedOK, Pending, Approved
<1>5. ASSUME NEW q \in Process PROVE KnowsOK(q)'
  <2>1. CASE q = p
    BY <1>2, <1>3, <1>4, <2>1 DEF KnowsOK, Same
  <2>2. CASE q # p
    BY <1>3, <2>2, KnowsKept
  <2> QED
    BY <2>1, <2>2
<1>6. \A e \in Code : RedeemedOK(e)'
  BY <1>3 DEF PairInv, RedeemedOK
<1> QED
  BY <1>1, <1>5, <1>6 DEF PairInv

\* A decision is saved on an undecided row; a poll that saw none still knows that
\* nobody redeemed, and no poll saw one.
LEMMA SaveDecisionPaired ==
  ASSUME PairInv, OneAtATime, NEW q \in Consent, SaveDecision(q)
  PROVE  PairInv' /\ \A d \in Code : row'[d] = row[d] \/ ~row[d].redeemed
<1>1. Inv'
  BY SaveDecisionInv DEF PairInv
<1>2. q \in Process /\ pc[q] = "decide"
  BY DEF Process, SaveDecision
<1>3. PICK d \in Code : d = req[q].code /\ row[d] \in Row /\ row[d] # None
  BY <1>2, Underway, ConstantsAssumption DEF PairInv
<1>4. seen[q] \in Row /\ ~seen[q].redeemed /\ Pending(row[d])
  BY <1>2, <1>3 DEF PairInv, Inv, StageOK, KnowsOK
<1>5. ~row[d].redeemed /\ mints[d] = 0
  BY <1>3, <1>4 DEF PairInv, RedeemedOK, Pending, Approved
<1>6. /\ ~row'[d].redeemed /\ \A e \in Code \ {d} : row'[e] = row[e]
      /\ UNCHANGED <<mints, asked>>
  BY <1>3, <1>4 DEF PairInv, Inv, TypeOK, SaveDecision, Decided, Row
<1>7. pc'[q] = "idle"
      /\ \A p \in Process \ {q} : pc'[p] = pc[p] /\ req'[p] = req[p] /\ seen'[p] = seen[p]
  BY <1>2, FinishLocal DEF PairInv, Inv, SaveDecision
<1>8. ASSUME NEW p \in Process PROVE KnowsOK(p)'
  <2>1. CASE p = q
    BY <1>7, <2>1 DEF KnowsOK
  <2>2. CASE p # q /\ (pc[p] = "idle" \/ req[p].code # d)
    <3>1. pc[p] # "idle" => req[p].code \in Code \ {d}
      BY <2>2, Underway DEF PairInv
    <3> QED
      BY <1>6, <1>7, <2>2, <3>1, KnowsKept
  <2>3. CASE p # q /\ pc[p] # "idle" /\ req[p].code = d
    <3>1. p \in Poll /\ p \notin Consent
      BY <1>2, <1>3, <2>3, Counterpart, ConstantsAssumption
    <3>2. pc[p] \in {"check", "mark"} => Pending(seen[p])
      BY <1>4, <2>3, <3>1 DEF PairInv, KnowsOK, Same, Pending
    <3>3. pc[p] # "mint"
      BY <1>5, <2>3 DEF PairInv, KnowsOK
    <3>4. pc[p] # "decide"
      BY <3>1 DEF PairInv, Inv, StageOK
    <3> QED
      BY <1>6, <1>7, <2>3, <3>1, <3>2, <3>3, <3>4 DEF PairInv, KnowsOK
  <2> QED
    BY <2>1, <2>2, <2>3
<1>9. ASSUME NEW e \in Code PROVE RedeemedOK(e)'
  <2>1. CASE e = d
    BY <1>5, <1>6, <2>1 DEF RedeemedOK
  <2>2. CASE e # d
    BY <1>6, <2>2 DEF PairInv, RedeemedOK
  <2> QED
    BY <2>1, <2>2
<1>10. PairInv'
  BY <1>1, <1>8, <1>9 DEF PairInv
<1> QED
  BY <1>5, <1>6, <1>10

\* A poll saves an undecided copy of a row nobody redeemed, or the row as it is.
LEMMA SavePollPaired ==
  ASSUME PairInv, OneAtATime, NEW p \in Poll, SavePoll(p)
  PROVE  PairInv' /\ \A d \in Code : row[d].redeemed => row'[d].redeemed
<1>1. Inv'
  BY SavePollInv DEF PairInv
<1>2. p \in Process /\ p \notin Consent /\ pc[p] = "mark"
  BY ConstantsAssumption DEF Process, SavePoll
<1>3. PICK d \in Code : d = req[p].code /\ row[d] \in Row /\ row[d] # None
  BY <1>2, Underway, ConstantsAssumption DEF PairInv
<1>4. seen[p] \in Row
  BY <1>2 DEF PairInv, Inv, StageOK
<1>5. /\ Same(row'[d], seen[p]) /\ \A e \in Code \ {d} : row'[e] = row[e]
      /\ UNCHANGED <<mints, asked>>
  BY <1>3, <1>4 DEF PairInv, Inv, TypeOK, SavePoll, MarkPolled, Row, Same, history
<1>6. pc'[p] = "idle"
      /\ \A q \in Process \ {p} : pc'[q] = pc[q] /\ req'[q] = req[q] /\ seen'[q] = seen[q]
  BY <1>2, FinishLocal DEF PairInv, Inv, SavePoll
<1>7. \/ Same(row'[d], row[d])
      \/ Pending(row'[d]) /\ ~row'[d].redeemed /\ ~row[d].redeemed
  BY <1>2, <1>3, <1>5 DEF PairInv, KnowsOK, Same, Pending
<1>8. ASSUME NEW q \in Process PROVE KnowsOK(q)'
  <2>1. CASE q = p
    BY <1>6, <2>1 DEF KnowsOK
  <2>2. CASE q # p /\ (pc[q] = "idle" \/ req[q].code # d)
    <3>1. pc[q] # "idle" => req[q].code \in Code \ {d}
      BY <2>2, Underway DEF PairInv
    <3> QED
      BY <1>5, <1>6, <2>2, <3>1, KnowsKept
  <2>3. CASE q # p /\ pc[q] # "idle" /\ req[q].code = d
    <3>1. q \in Consent /\ q \notin Poll
      BY <1>2, <1>3, <2>3, Counterpart, ConstantsAssumption
    <3>2. pc[q] # "mint"
      BY <3>1 DEF PairInv, Inv, StageOK
    <3>3. Pending(row[d]) => Pending(row'[d])
      BY <1>7 DEF Same, Pending
    <3> QED
      BY <1>6, <2>3, <3>1, <3>2, <3>3 DEF PairInv, KnowsOK
  <2> QED
    BY <2>1, <2>2, <2>3
<1>9. ASSUME NEW e \in Code PROVE RedeemedOK(e)'
  <2>1. CASE e = d
    BY <1>3, <1>5, <1>7, <2>1 DEF PairInv, RedeemedOK, Same, Approved
  <2>2. CASE e # d
    BY <1>5, <2>2 DEF PairInv, RedeemedOK
  <2> QED
    BY <2>1, <2>2
<1>10. PairInv'
  BY <1>1, <1>8, <1>9 DEF PairInv
<1>11. ASSUME NEW e \in Code, row[e].redeemed PROVE row'[e].redeemed
  BY <1>5, <1>7, <1>11 DEF Same
<1> QED
  BY <1>10, <1>11

\* No form with an undecided copy is under way when an approved code is redeemed.
LEMMA RedeemPaired ==
  ASSUME PairInv, OneAtATime, NEW p \in Poll, Redeem(p)
  PROVE  PairInv' /\ \A d \in Code : row[d].redeemed => row'[d].redeemed
<1>1. Inv'
  BY RedeemInv DEF PairInv
<1>2. p \in Process /\ p \notin Consent /\ pc[p] = "redeem"
  BY ConstantsAssumption DEF Process, Redeem, Goto
<1>3. PICK d \in Code : d = req[p].code /\ row[d] \in Row /\ row[d] # None
  BY <1>2, Underway, ConstantsAssumption DEF PairInv
<1>4. Approved(row[d]) /\ ~row[d].redeemed /\ mints[d] = 0
  BY <1>3 DEF PairInv, RedeemedOK, Redeem, Redeemable
<1>5. /\ row'[d].redeemed /\ row'[d].user = row[d].user /\ row'[d].denied = row[d].denied
      /\ \A e \in Code \ {d} : row'[e] = row[e]
      /\ UNCHANGED <<req, mints, asked>>
  BY <1>3 DEF PairInv, Inv, TypeOK, Redeem, Row, history
<1>6. pc'[p] = "mint" /\ \A q \in Process \ {p} : pc'[q] = pc[q] /\ seen'[q] = seen[q]
  BY <1>2 DEF PairInv, Inv, TypeOK, Redeem, Goto
<1>7. ASSUME NEW q \in Process PROVE KnowsOK(q)'
  <2>1. CASE q = p
    BY <1>2, <1>3, <1>4, <1>5, <1>6, <2>1 DEF KnowsOK
  <2>2. CASE q # p /\ (pc[q] = "idle" \/ req[q].code # d)
    <3>1. pc[q] # "idle" => req[q].code \in Code \ {d}
      BY <2>2, Underway DEF PairInv
    <3> QED
      BY <1>5, <1>6, <2>2, <3>1, KnowsKept
  <2>3. CASE q # p /\ pc[q] # "idle" /\ req[q].code = d
    <3>1. q \in Consent /\ q \notin Poll
      BY <1>2, <1>3, <2>3, Counterpart, ConstantsAssumption
    <3>2. pc[q] # "mint" /\ pc[q] \in {"lookup", "check", "decide"}
      BY <2>3, <3>1 DEF PairInv, Inv, StageOK
    <3>3. pc[q] \in {"check", "decide"} => ~Pending(seen[q])
      BY <1>4, <2>3, <3>1 DEF PairInv, KnowsOK, Pending, Approved
    <3>4. pc[q] # "decide"
      BY <3>3 DEF PairInv, KnowsOK
    <3> QED
      BY <1>6, <2>3, <3>1, <3>2, <3>3, <3>4 DEF KnowsOK
  <2> QED
    BY <2>1, <2>2, <2>3
<1>8. ASSUME NEW e \in Code PROVE RedeemedOK(e)'
  <2>1. CASE e = d
    BY <1>4, <1>5, <2>1 DEF RedeemedOK, Approved
  <2>2. CASE e # d
    BY <1>5, <2>2 DEF PairInv, RedeemedOK
  <2> QED
    BY <2>1, <2>2
<1>9. PairInv'
  BY <1>1, <1>7, <1>8 DEF PairInv
<1> QED
  BY <1>5, <1>9

LEMMA MintPaired ==
  ASSUME PairInv, OneAtATime, NEW p \in Poll, Mint(p)
  PROVE  PairInv'
<1>1. Inv'
  BY MintInv DEF PairInv
<1>2. p \in Process /\ p \notin Consent /\ pc[p] = "mint"
  BY ConstantsAssumption DEF Process, Mint
<1>3. PICK d \in Code : d = req[p].code /\ asked[d] # {}
  BY <1>2, Underway, ConstantsAssumption DEF PairInv, Inv, StageOK
<1>4. row[d].redeemed /\ mints[d] = 0
  BY <1>2, <1>3 DEF PairInv, KnowsOK
<1>5. /\ mints'[d] = 1 /\ \A e \in Code \ {d} : mints'[e] = mints[e]
      /\ UNCHANGED <<row, asked>>
  BY <1>3, <1>4 DEF PairInv, Inv, TypeOK, Mint
<1>6. pc'[p] = "idle"
      /\ \A q \in Process \ {p} : pc'[q] = pc[q] /\ req'[q] = req[q] /\ seen'[q] = seen[q]
  BY <1>2, FinishLocal DEF PairInv, Inv, Mint
<1>7. ASSUME NEW q \in Process PROVE KnowsOK(q)'
  <2>1. CASE q = p
    BY <1>6, <2>1 DEF KnowsOK
  <2>2. CASE q # p /\ (pc[q] = "idle" \/ req[q].code # d)
    <3>1. pc[q] # "idle" => req[q].code \in Code \ {d}
      BY <2>2, Underway DEF PairInv
    <3> QED
      BY <1>5, <1>6, <2>2, <3>1, KnowsKept
  <2>3. CASE q # p /\ pc[q] # "idle" /\ req[q].code = d
    <3>1. q \in Consent
      BY <1>2, <1>3, <2>3, Counterpart
    <3>2. pc[q] # "mint"
      BY <3>1 DEF PairInv, Inv, StageOK
    <3> QED
      BY <1>5, <1>6, <2>3, <3>2 DEF PairInv, KnowsOK
  <2> QED
    BY <2>1, <2>2, <2>3
<1>8. ASSUME NEW e \in Code PROVE RedeemedOK(e)'
  <2>1. CASE e = d
    BY <1>3, <1>4, <1>5, <2>1 DEF PairInv, RedeemedOK
  <2>2. CASE e # d
    BY <1>5, <2>2 DEF PairInv, RedeemedOK
  <2> QED
    BY <2>1, <2>2
<1> QED
  BY <1>1, <1>7, <1>8 DEF PairInv

LEMMA CrashPaired ==
  ASSUME PairInv, Crash
  PROVE  PairInv' /\ \A d \in Code : row'[d] = row[d] \/ row'[d] = None
<1>1. Inv'
  BY CrashInv DEF PairInv
<1>2. \A p \in Process : KnowsOK(p)'
  BY DEF Crash, KnowsOK
<1>3. \A d \in Code : RedeemedOK(d)'
  BY DEF PairInv, RedeemedOK, Crash, history
<1> QED
  BY <1>1, <1>2, <1>3 DEF PairInv, Crash

\* PairInv is inductive as long as polls wait for polls and forms for forms.
LEMMA NextPaired ==
  ASSUME PairInv, OneAtATime, [Next]_vars
  PROVE  PairInv'
<1>1. ASSUME NEW q \in Consent, ConsentStep(q) PROVE PairInv'
  BY <1>1, LookupPaired, QuietPaired, SaveDecisionPaired DEF ConsentStep, Process
<1>2. ASSUME NEW p \in Poll, PollStep(p) PROVE PairInv'
  BY <1>2, LookupPaired, QuietPaired, SavePollPaired, RedeemPaired, MintPaired
     DEF PollStep, Process
<1>3. ASSUME NEW q \in Consent, NEW d \in Code, NEW v \in Verdict, SubmitConsent(q, d, v)
      PROVE  PairInv'
  <2>1. Inv' /\ q \in Process
    BY <1>3, SubmitConsentInv DEF PairInv, Process
  <2>2. \A p \in Process \ {q} : req'[p] = req[p]
    BY <1>3 DEF PairInv, Inv, TypeOK, SubmitConsent
  <2>3. \A e \in Code : asked[e] \subseteq asked'[e]
    BY <1>3 DEF PairInv, Inv, TypeOK, SubmitConsent
  <2> QED
    BY <1>3, <2>1, <2>2, <2>3, ArrivesPaired DEF SubmitConsent
<1>4. ASSUME NEW p \in Poll, NEW d \in Code, NEW c \in Client, ReceivePoll(p, d, c)
      PROVE  PairInv'
  <2>1. Inv' /\ p \in Process
    BY <1>4, ReceivePollInv DEF PairInv, Process
  <2>2. \A q \in Process \ {p} : req'[q] = req[q]
    BY <1>4 DEF PairInv, Inv, TypeOK, ReceivePoll
  <2> QED
    BY <1>4, <2>1, <2>2, ArrivesPaired DEF ReceivePoll, history
<1>5. CASE Tick \/ UNCHANGED vars
  <2>1. Inv'
    BY NextInv DEF PairInv
  <2>2. UNCHANGED <<row, pc, req, seen, mints, asked>>
    BY <1>5 DEF Tick, vars, local, history
  <2> QED
    BY <2>1, <2>2 DEF PairInv, KnowsOK, RedeemedOK
<1> QED
  BY <1>1, <1>2, <1>3, <1>4, <1>5, AuthorizePaired, CrashPaired DEF Next

LEMMA PairInvHolds == Spec /\ []OneAtATime => []PairInv
<1>1. Init => PairInv
  <2> SUFFICES ASSUME Init PROVE PairInv
    OBVIOUS
  <2>1. Inv
    BY InitSerial DEF SerialInv
  <2> QED
    BY <2>1 DEF Init, PairInv, KnowsOK, RedeemedOK
<1>2. PairInv /\ OneAtATime /\ [Next]_vars => PairInv'
  BY NextPaired
<1> QED
  BY <1>1, <1>2, PTL DEF Spec

\* A device that waits for its answer and a user who submits one form at a time
\* get tokens once per code at most, over any adapter, however polls and decisions
\* overlap and whenever the process dies.
THEOREM WaitingDevicesIssueOnce == Spec /\ []OneAtATime => []IssuedOnce
<1>1. PairInv => IssuedOnce
  BY DEF PairInv, RedeemedOK, IssuedOnce
<1> QED
  BY <1>1, PairInvHolds, PTL

\* ... and no redemption is undone.
THEOREM WaitingDevicesRedeemForGood == Spec /\ []OneAtATime => RedemptionIsFinal
<1> DEFINE Kept == \A d \in Code :
                     row[d] # None /\ row[d].redeemed /\ row'[d] # None => row'[d].redeemed
<1>1. ASSUME PairInv, OneAtATime, Next PROVE Kept
  <2>1. ASSUME NEW d \in Code, NEW c \in Client, Authorize(d, c) PROVE Kept
    BY <1>1, <2>1 DEF PairInv, Inv, TypeOK, Authorize, Unused
  <2>2. ASSUME NEW q \in Consent, SaveDecision(q) PROVE Kept
    BY <1>1, <2>2, SaveDecisionPaired
  <2>3. ASSUME NEW p \in Poll, SavePoll(p) \/ Redeem(p) PROVE Kept
    BY <1>1, <2>3, SavePollPaired, RedeemPaired
  <2>4. CASE Crash
    BY <1>1, <2>4, CrashPaired
  <2>5. CASE UNCHANGED row
    BY <2>5
  <2> QED
    BY <1>1, <2>1, <2>2, <2>3, <2>4, <2>5
       DEF Next, ConsentStep, PollStep, SubmitConsent, ReceivePoll, Lookup, RefuseConsent,
           AcceptConsent, RefusePoll, TooEarly, NotYet, TryRedeem, RedeemNothing, Mint, Tick
<1>2. PairInv /\ OneAtATime /\ [Next]_vars => [Kept]_vars
  BY <1>1
<1>3. Spec /\ []OneAtATime => [][Kept]_vars
  BY <1>2, PairInvHolds, PTL DEF Spec
<1> QED
  BY <1>3 DEF RedemptionIsFinal

------------------------------------------------------------------------------
(***************************************************************************)
(* The in-memory adapter: no await of it suspends, so requests are served  *)
(* one at a time, whatever their codes.                                    *)
(***************************************************************************)

Alone == \A p, q \in Process : pc[p] # "idle" /\ pc[q] # "idle" => p = q

LEMMA MemoryIsAlone ==
  ASSUME ~Suspends
  PROVE  Spec => []AloneOnCode
<1>1. Init => Alone
  BY DEF Init, Alone
<1>2. ASSUME TypeOK, Alone, [Next]_vars PROVE Alone'
  <2>1. ASSUME NEW p \in Process, Scheduled({p}), pc' = [pc EXCEPT ![p] = "lookup"]
        PROVE  Alone'
    BY <1>2, <2>1 DEF TypeOK, Scheduled, Alone
  <2>2. ASSUME NEW p \in Process, NEW to, pc[p] # "idle", pc' = [pc EXCEPT ![p] = to]
        PROVE  Alone'
    BY <1>2, <2>2 DEF TypeOK, Alone
  <2>3. CASE pc' = [p \in Process |-> "idle"] \/ pc' = pc
    BY <1>2, <2>3 DEF Alone
  <2>4. ASSUME NEW q \in Consent, ConsentStep(q) PROVE Alone'
    BY <2>2, <2>4 DEF ConsentStep, Lookup, RefuseConsent, AcceptConsent, SaveDecision, Finish,
       Goto, Process
  <2>5. ASSUME NEW p \in Poll, PollStep(p) PROVE Alone'
    BY <2>2, <2>5 DEF PollStep, Lookup, RefusePoll, TooEarly, NotYet, SavePoll, TryRedeem,
       Redeem, RedeemNothing, Mint, Finish, Goto, Process
  <2> QED
    BY <1>2, <2>1, <2>3, <2>4, <2>5
       DEF Next, SubmitConsent, ReceivePoll, Authorize, Crash, Tick, vars, local, Process
<1>3. Alone => AloneOnCode
  BY DEF Alone, AloneOnCode
<1> QED
  BY <1>1, <1>2, <1>3, TypeCorrect, PTL DEF Spec

\* One approval is worth at most one issuance, crashes included.
THEOREM OneIssuance ==
  ASSUME ~Suspends
  PROVE  Spec => []IssuedOnce
  BY MemoryIsAlone, SerialRequestsSafe, PTL

\* No two users, or tabs, are both told that their decision counts.
THEOREM OneDecision ==
  ASSUME ~Suspends
  PROVE  Spec => []OneVerdict
  BY MemoryIsAlone, SerialRequestsSafe, PTL

\* The decision a user was told about stays in the row as long as the row does.
THEOREM DecisionsStick ==
  ASSUME ~Suspends
  PROVE  Spec => []VerdictSticks
  BY MemoryIsAlone, SerialRequestsSafe, PTL

\* A device that keeps to its interval is never told to slow down.
THEOREM PatientNeverSlowed ==
  ASSUME ~Suspends
  PROVE  Spec => []PatienceRewarded
  BY MemoryIsAlone, SerialRequestsSafe, PTL

\* Redemption is never undone while the row lives.
THEOREM RedeemedStaysRedeemed ==
  ASSUME ~Suspends
  PROVE  Spec => RedemptionIsFinal
  BY MemoryIsAlone, SerialRedemptionFinal, PTL

\* A decision is taken once and stands, and an approval buys tokens once.
THEOREM KeepsThePromise ==
  ASSUME ~Suspends
  PROVE  Spec => KeepsPromise
  BY MemoryIsAlone, SerialKeepsThePromise, PTL
==============================================================================
