--------------------------- MODULE RefreshRotation ---------------------------
(***************************************************************************)
(* The refresh-token grant over its repository port: RefreshTokenGrant.    *)
(* execute (application/service/grant/refresh_token_grant.py) run by       *)
(* several requests at once, against the operations of                     *)
(* RefreshTokenRepository (save, find_by_value, rotate, revoke_family),    *)
(* each of which the port promises to be indivisible.                      *)
(*                                                                         *)
(* A request is a process whose steps are the pieces of execute between    *)
(* its awaits: lookup -> check -> rotate or revoke -> answer.  Suspends    *)
(* says whether an await of the repository lets another request run.  The  *)
(* in-memory adapter never does (its lock is uncontended on one event      *)
(* loop, so a handler runs to its end); an adapter with I/O does, and its  *)
(* rows outlive the process.                                               *)
(***************************************************************************)
EXTENDS Naturals, FiniteSets

CONSTANTS
  Token,       \* refresh token values
  Family,      \* family_id values
  Client,      \* clients registered for the refresh_token grant
  Scope,       \* scope atoms
  Request,     \* concurrent /token requests, each slot reused without end
  RefreshTTL,  \* refresh_token_ttl_seconds, in ticks
  MaxTime,     \* bound of the model: the clock stops here
  Suspends,    \* does an await of the repository yield to other requests?
  None         \* absent value (no row, no token, no request)

\* A row of the store; consumed stands for consumed_at being set.  user_sub
\* travels with client_id from row to row and decides nothing, so it is left out.
Row == [family : Family, client : Client, scope : SUBSET Scope,
        expires : Nat, consumed : BOOLEAN]

\* What a request brings: the authenticated client, the presented value (None
\* is a value no row has) and the scope parameter ({} when it is absent).
Params == [client : Client, token : Token \union {None}, scope : SUBSET Scope]

ASSUME ConstantsAssumption ==
  /\ RefreshTTL \in Nat \ {0}
  /\ MaxTime \in Nat
  /\ Suspends \in BOOLEAN
  /\ None \notin Token \union Row \union Params

VARIABLES
  row,      \* the store: Token -> Row or None
  now,      \* Clock.now()
  pc,       \* where each request stands between two awaits
  req,      \* its parameters
  seen,     \* the row find_by_value returned to it
  stamp,    \* the `now` it read before its last await
  fresh,    \* the replacement value it drew
  held,     \* values some client has received
  rotated,  \* history: <<old, new>> of every rotation that committed
  revoked,  \* history: families on which revoke_family ran
  spurned   \* history: tokens refused because they had been used already

local == <<req, seen, stamp, fresh>>
history == <<held, rotated, revoked, spurned>>
vars == <<row, now, pc, local, history>>

TypeOK ==
  /\ row \in [Token -> Row \union {None}]
  /\ now \in Nat
  /\ pc \in [Request -> {"idle", "lookup", "check", "rotate", "revoke", "answer"}]
  /\ req \in [Request -> Params \union {None}]
  /\ seen \in [Request -> Row \union {None}]
  /\ stamp \in [Request -> Nat]
  /\ fresh \in [Request -> Token \union {None}]
  /\ held \in SUBSET Token
  /\ rotated \in SUBSET (Token \X Token)
  /\ revoked \in SUBSET Family
  /\ spurned \in SUBSET Token

Init ==
  /\ row = [t \in Token |-> None]
  /\ now = 0
  /\ pc = [r \in Request |-> "idle"]
  /\ req = [r \in Request |-> None]
  /\ seen = [r \in Request |-> None]
  /\ stamp = [r \in Request |-> 0]
  /\ fresh = [r \in Request |-> None]
  /\ held = {} /\ rotated = {} /\ revoked = {} /\ spurned = {}

------------------------------------------------------------------------------
\* Helpers.

Stored(f) == {t \in Token : row[t] # None /\ row[t].family = f}
Live(f) == {t \in Stored(f) : ~row[t].consumed}

\* RefreshToken.is_expired
Expired(tok, at) == at >= tok.expires

\* random_source.token_urlsafe never repeats a value that is stored, known to
\* somebody or drawn by a request in flight.
Fresh(t) == row[t] = None /\ t \notin held /\ \A q \in Request : fresh[q] # t

\* Mutant: an await in the middle of the in-memory adapter.
ScheduledAnyway(S) == TRUE

\* Without suspension a request runs from its arrival to its answer alone.
Running(q) == pc[q] \notin {"idle", "answer"}
Scheduled(S) == Suspends \/ \A q \in Request \ S : ~Running(q)

\* Bound of the model: a request is admitted, or a family opened, only while
\* a fresh value is left for it and for every request already in flight.
Room == Cardinality({t \in Token : Fresh(t)})
          > Cardinality({q \in Request : pc[q] \in {"lookup", "check"}})

Finish(r) ==
  /\ pc' = [pc EXCEPT ![r] = "idle"]
  /\ req' = [req EXCEPT ![r] = None]
  /\ seen' = [seen EXCEPT ![r] = None]
  /\ stamp' = [stamp EXCEPT ![r] = 0]
  /\ fresh' = [fresh EXCEPT ![r] = None]

\* Mutant: an absent scope defaults to everything the server knows.
GrantedDefault(asked, tok) ==
  IF asked = {} THEN Scope ELSE asked \intersect tok.scope

\* Granted scope: an absent request scope reuses the token's.
Granted(asked, tok) ==
  IF asked = {} THEN tok.scope ELSE asked \intersect tok.scope

\* Mutant: the replay branch stands before the client check.
ReplayAnyClient(r) == seen[r] # None /\ seen[r].consumed

\* Mutant: an expired token is treated like a replayed one.
ReplayOrExpired(r) ==
  /\ seen[r] # None /\ seen[r].client = req[r].client
  /\ seen[r].consumed \/ Expired(seen[r], now)

\* execute's verdicts on the snapshot: a replay, a token to rotate, or refusal.
Replay(r) ==
  /\ seen[r] # None /\ seen[r].client = req[r].client
  /\ seen[r].consumed

Acceptable(r) ==
  /\ seen[r] # None /\ seen[r].client = req[r].client
  /\ ~seen[r].consumed /\ ~Expired(seen[r], now)
  /\ req[r].scope \subseteq seen[r].scope

\* The new_token a request builds from its snapshot before it calls rotate.
Replacement(r) ==
  [family |-> seen[r].family, client |-> seen[r].client,
   scope |-> Granted(req[r].scope, seen[r]),
   expires |-> stamp[r] + RefreshTTL, consumed |-> FALSE]

\* Mutant: the WHERE clause forgets consumed_at IS NULL.
RotatableUsed(t, at) == row[t] # None /\ row[t].expires > at

\* rotate's WHERE clause: the row is there, unconsumed, and not expired at the
\* caller's timestamp.
Rotatable(t, at) == row[t] # None /\ ~row[t].consumed /\ row[t].expires > at

------------------------------------------------------------------------------
\* Actions.

\* The authorization-code and device grants open a family: a fresh family_id
\* and a first token, saved and handed to the client.
IssueFamily(f, t, c, s) ==
  /\ Scheduled({}) /\ Room
  /\ Stored(f) = {} /\ Fresh(t)
  /\ row' = [row EXCEPT ![t] = [family |-> f, client |-> c, scope |-> s,
                                expires |-> now + RefreshTTL, consumed |-> FALSE]]
  /\ held' = held \union {t}
  /\ UNCHANGED <<now, pc, local, rotated, revoked, spurned>>

\* A request whose client may use the grant and that carries a token reaches
\* find_by_value.  (The two early refusals before it change nothing.)  Anyone
\* who ever received a token, client or thief, may present it, again and again.
Receive(r, c, v, s) ==
  /\ pc[r] = "idle" /\ Scheduled({r}) /\ Room
  /\ v \in held \union {None}
  /\ pc' = [pc EXCEPT ![r] = "lookup"]
  /\ req' = [req EXCEPT ![r] = [client |-> c, token |-> v, scope |-> s]]
  /\ UNCHANGED <<row, now, seen, stamp, fresh, history>>

Lookup(r) ==
  /\ pc[r] = "lookup"
  /\ seen' = [seen EXCEPT ![r] = IF req[r].token = None THEN None ELSE row[req[r].token]]
  /\ pc' = [pc EXCEPT ![r] = "check"]
  /\ UNCHANGED <<row, now, req, stamp, fresh, history>>

\* Not found, another client's token, expired, or too wide a scope.
Refuse(r) ==
  /\ pc[r] = "check" /\ ~Replay(r) /\ ~Acceptable(r)
  /\ Finish(r)
  /\ UNCHANGED <<row, now, history>>

\* Mutant: a replay is refused like any other bad token.
DetectReplaySilently(r) ==
  /\ pc[r] = "check" /\ Replay(r)
  /\ Finish(r)
  /\ UNCHANGED <<row, now, history>>

\* is_consumed: the handler calls revoke_family.
DetectReplay(r) ==
  /\ pc[r] = "check" /\ Replay(r)
  /\ stamp' = [stamp EXCEPT ![r] = now]
  /\ pc' = [pc EXCEPT ![r] = "revoke"]
  /\ UNCHANGED <<row, now, req, seen, fresh, history>>

\* Mutant: rotate is called before the replacement was minted.
AcceptUnminted(r, t) ==
  /\ pc[r] = "check" /\ Acceptable(r) /\ Fresh(t)
  /\ stamp' = [stamp EXCEPT ![r] = now]
  /\ pc' = [pc EXCEPT ![r] = "rotate"]
  /\ UNCHANGED <<row, now, req, seen, fresh, history>>

\* The replacement is minted from the snapshot and the clock, then rotate is
\* called with both.
Accept(r, t) ==
  /\ pc[r] = "check" /\ Acceptable(r) /\ Fresh(t)
  /\ stamp' = [stamp EXCEPT ![r] = now]
  /\ fresh' = [fresh EXCEPT ![r] = t]
  /\ pc' = [pc EXCEPT ![r] = "rotate"]
  /\ UNCHANGED <<row, now, req, seen, history>>

\* Mutant: the used row is deleted instead of marked.
RotateDeletes(r) ==
  /\ pc[r] = "rotate" /\ Rotatable(req[r].token, stamp[r])
  /\ row' = [row EXCEPT ![req[r].token] = None, ![fresh[r]] = Replacement(r)]
  /\ rotated' = rotated \union {<<req[r].token, fresh[r]>>}
  /\ pc' = [pc EXCEPT ![r] = "answer"]
  /\ UNCHANGED <<now, local, held, revoked, spurned>>

\* rotate commits: consume the old row and insert the replacement, at once.
Rotate(r) ==
  /\ pc[r] = "rotate" /\ Rotatable(req[r].token, stamp[r])
  /\ row' = [row EXCEPT ![req[r].token].consumed = TRUE,
                        ![fresh[r]] = Replacement(r)]
  /\ rotated' = rotated \union {<<req[r].token, fresh[r]>>}
  /\ pc' = [pc EXCEPT ![r] = "answer"]
  /\ UNCHANGED <<now, local, held, revoked, spurned>>

\* rotate raises InvalidGrant: somebody consumed the token since the lookup.
\* The handler lets the error through, and does not revoke the family.
LoseRace(r) ==
  /\ pc[r] = "rotate" /\ ~Rotatable(req[r].token, stamp[r])
  /\ spurned' = spurned \union {req[r].token}
  /\ Finish(r)
  /\ UNCHANGED <<row, now, held, rotated, revoked>>

\* Mutant: revocation consumes the presented token only.
ChainPresented(r) == {req[r].token}

\* Mutant: revocation forgets the family_id filter.
ChainAll(r) == Token

\* revoke_family's WHERE clause: the chain of the token the handler looked up.
Chain(r) == Stored(seen[r].family)

\* revoke_family: every unconsumed token of the chain is consumed, and the
\* request is refused.
Revoke(r) ==
  /\ pc[r] = "revoke"
  /\ row' = [t \in Token |-> IF t \in Chain(r) /\ row[t] # None
                               THEN [row[t] EXCEPT !.consumed = TRUE] ELSE row[t]]
  /\ revoked' = revoked \union {seen[r].family}
  /\ spurned' = spurned \union {req[r].token}
  /\ Finish(r)
  /\ UNCHANGED <<now, held, rotated>>

\* The access token is signed and the answer reaches the client ...
Answer(r) ==
  /\ pc[r] = "answer"
  /\ held' = held \union {fresh[r]}
  /\ Finish(r)
  /\ UNCHANGED <<row, now, rotated, revoked, spurned>>

\* ... or is lost on the way: the client only has the token it presented.
LoseAnswer(r) ==
  /\ pc[r] = "answer"
  /\ Finish(r)
  /\ UNCHANGED <<row, now, history>>

\* The process dies between two awaits and restarts over the same rows.  (With
\* the in-memory adapter a restart is Init again.)
Crash ==
  /\ Suspends
  /\ \E r \in Request : pc[r] # "idle"
  /\ pc' = [r \in Request |-> "idle"]
  /\ req' = [r \in Request |-> None]
  /\ seen' = [r \in Request |-> None]
  /\ stamp' = [r \in Request |-> 0]
  /\ fresh' = [r \in Request |-> None]
  /\ UNCHANGED <<row, now, history>>

Tick ==
  /\ now < MaxTime
  /\ now' = now + 1
  /\ UNCHANGED <<row, pc, local, history>>

Step(r) ==
  \/ Lookup(r) \/ Refuse(r) \/ DetectReplay(r)
  \/ \E t \in Token : Accept(r, t)
  \/ Rotate(r) \/ LoseRace(r) \/ Revoke(r)
  \/ Answer(r) \/ LoseAnswer(r)

Next ==
  \/ \E f \in Family, t \in Token, c \in Client, s \in SUBSET Scope :
       IssueFamily(f, t, c, s)
  \/ \E r \in Request, c \in Client, v \in Token \union {None}, s \in SUBSET Scope :
       Receive(r, c, v, s)
  \/ \E r \in Request : Step(r)
  \/ Crash
  \/ Tick

Spec == Init /\ [][Next]_vars

\* The event loop resumes every coroutine whose await has completed, so a
\* request that was admitted keeps running unless the process dies.
FairSpec == Spec /\ \A r \in Request : WF_vars(Step(r))

------------------------------------------------------------------------------
\* Properties.

\* A family never has two tokens that can still be redeemed, whatever requests
\* race on it: the chain does not fork.
OneLiveToken == \A f \in Family : \A t, u \in Live(f) : t = u

\* A refresh token yields at most one replacement, even when its presentations
\* overlap and all of them saw it unconsumed.
RotatedOnce == \A p, q \in rotated : p[1] = q[1] => p = q

\* After revoke_family no token of the family is ever usable again, not even
\* one that a rotation already under way was about to insert.
RevokedStaysDead == \A f \in revoked : Live(f) = {}

\* Along a chain the scope only narrows and the client stays the same.
NeverWidens ==
  \A p \in rotated :
    /\ row[p[2]].family = row[p[1]].family
    /\ row[p[2]].client = row[p[1]].client
    /\ row[p[2]].scope \subseteq row[p[1]].scope

\* A family is only revoked when one of its tokens had really been exchanged:
\* an honest single presentation never costs the user the session.
RevocationEarned ==
  \A f \in revoked : \E p \in rotated : row[p[1]] # None /\ row[p[1]].family = f

\* "Presenting it a second time ... triggers revocation of the entire family_id
\* chain" (domain/model/refresh_token.py): once a presentation was refused
\* because the token was used, nothing in its family can be redeemed.
SecondUseRevokes ==
  \A t \in spurned : row[t] # None => Live(row[t].family) = {}

\* Only the client a family belongs to can get it revoked.
OnlyOwnerRevokes ==
  [][\A f \in revoked' \ revoked :
       \E r \in Request : /\ pc[r] = "revoke" /\ pc'[r] = "idle"
                          /\ \A t \in Stored(f) : row[t].client = req[r].client]_vars

\* A consumed row is never deleted, revived or altered.
Tombstones ==
  [][\A t \in Token : row[t] # None =>
       /\ row'[t] # None
       /\ row[t].consumed => row'[t] = row[t]]_vars

\* A replay that the handler has seen kills the family, whatever else happens,
\* as long as the process lives.
ReplayKillsFamily ==
  \A f \in Family :
    (\E r \in Request : pc[r] = "check" /\ Replay(r) /\ seen[r].family = f)
      ~> (f \in revoked)

------------------------------------------------------------------------------
\* Refinement: the store keeps the promise of TokenFamily.

liveToken ==
  [f \in Family |-> IF Live(f) = {} THEN None ELSE CHOOSE t \in Live(f) : TRUE]
scopeCeiling ==
  [f \in Family |-> IF Live(f) = {} THEN {} ELSE row[liveToken[f]].scope]

Families == INSTANCE TokenFamily WITH
  live <- liveToken, ceiling <- scopeCeiling,
  born <- {f \in Family : Stored(f) # {}},
  spent <- {t \in Token : row[t] # None /\ row[t].consumed}

\* Every step of the requests is a step of the promise or invisible to it.
KeepsPromise == Families!Spec
==============================================================================
