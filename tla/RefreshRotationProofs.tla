------------------------ MODULE RefreshRotationProofs ------------------------
(***************************************************************************)
(* Proofs about RefreshRotation for every set of tokens, families,         *)
(* clients, scopes and requests, and for both kinds of adapter.            *)
(*                                                                         *)
(* The safety invariants are not inductive alone: a request acts on a row  *)
(* it read some steps ago, and rotate on a value drawn some steps ago.     *)
(* Inv adds what ties these local values to the store.                     *)
(***************************************************************************)
EXTENDS RefreshRotation, TLAPS

\* What never changes in a row, and what can only grow, holds in the snapshot.
SnapshotOK(r) ==
  seen[r] # None =>
    /\ req[r] \in Params
    /\ req[r].token \in Token
    /\ row[req[r].token] # None
    /\ seen[r].family = row[req[r].token].family
    /\ seen[r].client = row[req[r].token].client
    /\ seen[r].scope = row[req[r].token].scope
    /\ seen[r].consumed => row[req[r].token].consumed

\* What a request has established when it reaches a program point.
StageOK(r) ==
  /\ pc[r] # "idle" => req[r] \in Params
  /\ pc[r] \in {"idle", "lookup"} => seen[r] = None
  /\ pc[r] \in {"rotate", "revoke"} => seen[r] # None /\ seen[r].client = req[r].client
  /\ pc[r] = "revoke" => seen[r].consumed
  /\ pc[r] \in {"rotate", "answer"} => fresh[r] # None
  /\ pc[r] \in {"idle", "lookup", "check", "revoke"} => fresh[r] = None
  /\ pc[r] = "rotate" => row[fresh[r]] = None /\ fresh[r] \notin held

\* No two requests drew the same value.
DrawnApart == \A q, r \in Request : fresh[q] # None /\ fresh[q] = fresh[r] => q = r

\* A rotation leaves both rows behind, the old one consumed.
RotatedStored ==
  \A p \in rotated :
    /\ row[p[1]] # None /\ row[p[1]].consumed
    /\ row[p[2]] # None

\* Nothing of a family is consumed before its first rotation.
ConsumedEarned ==
  \A t \in Token : row[t] # None /\ row[t].consumed =>
    \E p \in rotated : row[p[1]] # None /\ row[p[1]].family = row[t].family

Inv ==
  /\ TypeOK
  /\ \A r \in Request : SnapshotOK(r) /\ StageOK(r)
  /\ DrawnApart
  /\ RotatedStored
  /\ ConsumedEarned
  /\ OneLiveToken
  /\ RotatedOnce
  /\ RevokedStaysDead
  /\ NeverWidens
  /\ RevocationEarned

------------------------------------------------------------------------------

\* The empty store, with every request idle, satisfies the invariant.
LEMMA InitInv == Init => Inv
  BY ConstantsAssumption
  DEF Init, Inv, TypeOK, SnapshotOK, StageOK, DrawnApart, RotatedStored,
      ConsumedEarned, OneLiveToken, RotatedOnce, RevokedStaysDead, NeverWidens,
      RevocationEarned, Live, Stored

\* A step that touches neither the store nor the history only has to answer
\* for types, stages and draws.
LEMMA QuietStep ==
  ASSUME Inv, UNCHANGED <<row, rotated, revoked>>, TypeOK',
         \A r \in Request : SnapshotOK(r)' /\ StageOK(r)',
         DrawnApart'
  PROVE  Inv'
  BY DEF Inv, RotatedStored, ConsumedEarned, OneLiveToken, RotatedOnce,
         RevokedStaysDead, NeverWidens, RevocationEarned, Live, Stored

\* A new request brings a token value along, but nothing it has read or drawn.
LEMMA ReceiveInv ==
  ASSUME Inv, NEW r \in Request, NEW c \in Client, NEW v \in Token \union {None},
         NEW s \in SUBSET Scope, Receive(r, c, v, s)
  PROVE  Inv'
<1>1. TypeOK'
  BY DEF Inv, TypeOK, Receive, Params, history
<1>2. ASSUME NEW q \in Request PROVE SnapshotOK(q)' /\ StageOK(q)'
  <2>1. [client |-> c, token |-> v, scope |-> s] \in Params
    BY DEF Params
  <2> QED
    BY <2>1 DEF Inv, TypeOK, Receive, history, SnapshotOK, StageOK
<1>3. DrawnApart'
  BY DEF Inv, Receive, DrawnApart
<1> QED
  BY <1>1, <1>2, <1>3, QuietStep DEF Receive, history

\* The snapshot a request takes is the row as it is at that moment.
LEMMA LookupInv ==
  ASSUME Inv, NEW r \in Request, Lookup(r)
  PROVE  Inv'
<1>1. req[r] \in Params
  BY DEF Inv, StageOK, Lookup
<1>2. TypeOK'
  BY <1>1 DEF Inv, TypeOK, Lookup, Params, history
<1>3. ASSUME NEW q \in Request PROVE SnapshotOK(q)' /\ StageOK(q)'
  BY <1>1 DEF Inv, TypeOK, Lookup, history, SnapshotOK, StageOK, Params
<1>4. DrawnApart'
  BY DEF Inv, Lookup, DrawnApart
<1> QED
  BY <1>2, <1>3, <1>4, QuietStep DEF Lookup, history

\* A request that ends forgets everything it held.
LEMMA FinishLocal ==
  ASSUME TypeOK, NEW r \in Request, Finish(r)
  PROVE  /\ pc' \in [Request -> {"idle", "lookup", "check", "rotate", "revoke", "answer"}]
         /\ req' \in [Request -> Params \union {None}]
         /\ seen' \in [Request -> Row \union {None}]
         /\ stamp' \in [Request -> Nat]
         /\ fresh' \in [Request -> Token \union {None}]
         /\ pc'[r] = "idle" /\ seen'[r] = None /\ fresh'[r] = None
         /\ \A q \in Request \ {r} :
              /\ pc'[q] = pc[q] /\ req'[q] = req[q] /\ seen'[q] = seen[q]
              /\ fresh'[q] = fresh[q]
  BY DEF TypeOK, Finish

\* Values drawn by requests stay apart when one of them ends.
LEMMA FinishDraws ==
  ASSUME TypeOK, DrawnApart, NEW r \in Request, Finish(r)
  PROVE  DrawnApart'
  BY FinishLocal DEF DrawnApart

\* A refused request leaves the store as it was.
LEMMA RefuseInv ==
  ASSUME Inv, NEW r \in Request, Refuse(r)
  PROVE  Inv'
<1>1. TypeOK /\ Finish(r) /\ UNCHANGED <<row, now, history>>
  BY DEF Inv, Refuse
<1>2. TypeOK'
  BY <1>1, FinishLocal DEF TypeOK, history
<1>3. ASSUME NEW q \in Request PROVE SnapshotOK(q)' /\ StageOK(q)'
  BY <1>1, FinishLocal DEF Inv, history, SnapshotOK, StageOK
<1> QED
  BY <1>1, <1>2, <1>3, FinishDraws, QuietStep DEF Inv, history

\* A lost answer leaves the replacement in the store, unknown to any client.
LEMMA LoseAnswerInv ==
  ASSUME Inv, NEW r \in Request, LoseAnswer(r)
  PROVE  Inv'
<1>1. TypeOK /\ Finish(r) /\ UNCHANGED <<row, now, history>>
  BY DEF Inv, LoseAnswer
<1>2. TypeOK'
  BY <1>1, FinishLocal DEF TypeOK, history
<1>3. ASSUME NEW q \in Request PROVE SnapshotOK(q)' /\ StageOK(q)'
  BY <1>1, FinishLocal DEF Inv, history, SnapshotOK, StageOK
<1> QED
  BY <1>1, <1>2, <1>3, FinishDraws, QuietStep DEF Inv, history

\* The loser of rotate leaves a trace only in the history of refusals.
LEMMA LoseRaceInv ==
  ASSUME Inv, NEW r \in Request, LoseRace(r)
  PROVE  Inv'
<1>1. TypeOK /\ Finish(r) /\ UNCHANGED <<row, now, held, rotated, revoked>>
  BY DEF Inv, LoseRace
<1>2. req[r].token \in Token
  BY DEF Inv, LoseRace, SnapshotOK, StageOK
<1>3. TypeOK'
  BY <1>1, <1>2, FinishLocal DEF TypeOK, LoseRace
<1>4. ASSUME NEW q \in Request PROVE SnapshotOK(q)' /\ StageOK(q)'
  BY <1>1, FinishLocal DEF Inv, SnapshotOK, StageOK
<1> QED
  BY <1>1, <1>3, <1>4, FinishDraws, QuietStep DEF Inv

\* The answered value leaves the hands of the request: no other one drew it.
LEMMA AnswerInv ==
  ASSUME Inv, NEW r \in Request, Answer(r)
  PROVE  Inv'
<1>1. TypeOK /\ Finish(r) /\ held' = held \union {fresh[r]}
      /\ UNCHANGED <<row, now, rotated, revoked, spurned>>
  BY DEF Inv, Answer
<1>2. fresh[r] \in Token
  BY DEF Inv, TypeOK, StageOK, Answer
<1>3. TypeOK'
  BY <1>1, <1>2, FinishLocal DEF TypeOK
<1>4. ASSUME NEW q \in Request PROVE SnapshotOK(q)' /\ StageOK(q)'
  <2>1. CASE q = r
    BY <1>1, <2>1, FinishLocal DEF SnapshotOK, StageOK
  <2>2. CASE q # r
    <3>1. fresh[q] # None => fresh[q] # fresh[r]
      BY <2>2 DEF Inv, DrawnApart
    <3> QED
      BY <1>1, <2>2, <3>1, FinishLocal DEF Inv, SnapshotOK, StageOK
  <2> QED
    BY <2>1, <2>2
<1> QED
  BY <1>1, <1>3, <1>4, FinishDraws, QuietStep DEF Inv

\* A request that goes on to revoke holds a consumed snapshot of its token.
LEMMA DetectReplayInv ==
  ASSUME Inv, NEW r \in Request, DetectReplay(r)
  PROVE  Inv'
<1>1. TypeOK'
  BY DEF Inv, TypeOK, DetectReplay, history
<1>2. ASSUME NEW q \in Request PROVE SnapshotOK(q)' /\ StageOK(q)'
  BY DEF Inv, TypeOK, DetectReplay, Replay, history, SnapshotOK, StageOK
<1>3. DrawnApart'
  BY DEF Inv, DetectReplay, DrawnApart
<1> QED
  BY <1>1, <1>2, <1>3, QuietStep DEF DetectReplay, history

\* A request that goes on to rotate draws a value nobody else has.
LEMMA AcceptInv ==
  ASSUME Inv, NEW r \in Request, NEW t \in Token, Accept(r, t)
  PROVE  Inv'
<1>1. t # None /\ row[t] = None /\ t \notin held /\ \A q \in Request : fresh[q] # t
  BY ConstantsAssumption DEF Accept, Fresh
<1>2. TypeOK'
  BY DEF Inv, TypeOK, Accept, history
<1>3. ASSUME NEW q \in Request PROVE SnapshotOK(q)' /\ StageOK(q)'
  BY <1>1 DEF Inv, TypeOK, Accept, Acceptable, history, SnapshotOK, StageOK
<1>4. DrawnApart'
  BY <1>1 DEF Inv, TypeOK, Accept, DrawnApart
<1> QED
  BY <1>2, <1>3, <1>4, QuietStep DEF Accept, history

\* Time alone disturbs nothing.
LEMMA TickInv ==
  ASSUME Inv, Tick
  PROVE  Inv'
<1>1. TypeOK'
  BY DEF Inv, TypeOK, Tick, local, history
<1>2. ASSUME NEW q \in Request PROVE SnapshotOK(q)' /\ StageOK(q)'
  BY DEF Inv, Tick, local, history, SnapshotOK, StageOK
<1>3. DrawnApart'
  BY DEF Inv, Tick, local, DrawnApart
<1> QED
  BY <1>1, <1>2, <1>3, QuietStep DEF Tick, history

\* A crash forgets the requests and keeps the rows.
LEMMA CrashInv ==
  ASSUME Inv, Crash
  PROVE  Inv'
<1>1. TypeOK'
  BY DEF Inv, TypeOK, Crash, history
<1>2. ASSUME NEW q \in Request PROVE SnapshotOK(q)' /\ StageOK(q)'
  BY DEF Crash, SnapshotOK, StageOK
<1>3. DrawnApart'
  BY DEF Crash, DrawnApart
<1> QED
  BY <1>1, <1>2, <1>3, QuietStep DEF Crash, history

------------------------------------------------------------------------------
\* The three steps that write the store.

\* A new family starts with one live token, which no request has drawn.
LEMMA IssueFamilyInv ==
  ASSUME Inv, NEW f \in Family, NEW t \in Token, NEW c \in Client,
         NEW s \in SUBSET Scope, IssueFamily(f, t, c, s)
  PROVE  Inv'
<1> DEFINE new == [family |-> f, client |-> c, scope |-> s,
                   expires |-> now + RefreshTTL, consumed |-> FALSE]
<1>1. /\ row[t] = None /\ t \notin held /\ (\A q \in Request : fresh[q] # t)
      /\ \A u \in Token : row[u] # None => row[u].family # f
  BY DEF IssueFamily, Fresh, Stored
<1>2. new \in Row /\ new # None
  <2>1. now + RefreshTTL \in Nat
    BY ConstantsAssumption DEF Inv, TypeOK
  <2>2. new \in Row
    BY <2>1 DEF Row
  <2> QED
    BY <2>2, ConstantsAssumption
<1> HIDE DEF new
<1>3. row' = [row EXCEPT ![t] = new] /\ row' \in [Token -> Row \union {None}]
  BY <1>2 DEF IssueFamily, Inv, TypeOK, new
<1>4. /\ row'[t] = new
      /\ \A u \in Token \ {t} : row'[u] = row[u]
      /\ \A u \in Token : row[u] # None => row'[u] = row[u]
  BY <1>1, <1>3 DEF Inv, TypeOK
<1>5. UNCHANGED <<now, pc, req, seen, stamp, fresh, rotated, revoked, spurned>>
      /\ held' = held \union {t}
  BY DEF IssueFamily, local
<1>6. new.family = f /\ new.consumed = FALSE
  BY DEF new
<1>7. TypeOK'
  BY <1>3, <1>5 DEF Inv, TypeOK
<1>8. ASSUME NEW q \in Request PROVE SnapshotOK(q)' /\ StageOK(q)'
  <2>1. SnapshotOK(q)'
    BY <1>4, <1>5 DEF Inv, SnapshotOK
  <2>2. StageOK(q)'
    BY <1>1, <1>3, <1>4, <1>5 DEF Inv, TypeOK, StageOK
  <2> QED
    BY <2>1, <2>2
<1>9. DrawnApart'
  BY <1>5 DEF Inv, DrawnApart
<1>10. RotatedStored' /\ NeverWidens'
  BY <1>4, <1>5 DEF Inv, TypeOK, RotatedStored, NeverWidens
<1>11. ConsumedEarned'
  BY <1>2, <1>4, <1>5, <1>6 DEF Inv, TypeOK, ConsumedEarned
<1>12. \A g \in Family : g # f => Live(g)' = Live(g)
  BY <1>1, <1>2, <1>4, <1>6 DEF Live, Stored
<1>13. Live(f)' = {t}
  BY <1>1, <1>2, <1>4, <1>6 DEF Live, Stored
<1>14. OneLiveToken'
  BY <1>12, <1>13 DEF Inv, OneLiveToken
<1>15. f \notin revoked
  BY <1>1 DEF Inv, TypeOK, RevocationEarned
<1>16. RevokedStaysDead'
  BY <1>5, <1>12, <1>15 DEF Inv, TypeOK, RevokedStaysDead
<1>17. RevocationEarned'
  BY <1>4, <1>5 DEF Inv, TypeOK, RevocationEarned
<1>18. RotatedOnce'
  BY <1>5 DEF Inv, RotatedOnce
<1> QED
  BY <1>7, <1>8, <1>9, <1>10, <1>11, <1>14, <1>16, <1>17, <1>18 DEF Inv

\* A replacement stays in the family, with the client and within the scope.
LEMMA ReplacementType ==
  ASSUME Inv, NEW r \in Request, pc[r] = "rotate"
  PROVE  /\ Replacement(r) \in Row
         /\ Replacement(r).family = row[req[r].token].family
         /\ Replacement(r).client = row[req[r].token].client
         /\ Replacement(r).scope \subseteq row[req[r].token].scope
         /\ ~Replacement(r).consumed
<1>1. seen[r] \in Row /\ req[r] \in Params /\ stamp[r] + RefreshTTL \in Nat
  BY ConstantsAssumption DEF Inv, TypeOK, StageOK
<1>2. /\ seen[r].family = row[req[r].token].family
      /\ seen[r].client = row[req[r].token].client
      /\ seen[r].scope = row[req[r].token].scope
  BY DEF Inv, SnapshotOK, StageOK
<1>3. Granted(req[r].scope, seen[r]) \subseteq seen[r].scope
      /\ Granted(req[r].scope, seen[r]) \in SUBSET Scope
  BY <1>1 DEF Granted, Row
<1> QED
  BY <1>1, <1>2, <1>3 DEF Replacement, Row

\* rotate consumes the only live token of the family and inserts the next one.
LEMMA RotateInv ==
  ASSUME Inv, NEW r \in Request, Rotate(r)
  PROVE  Inv'
<1> DEFINE old == req[r].token
           t == fresh[r]
           used == [row[old] EXCEPT !.consumed = TRUE]
<1>1. /\ old \in Token /\ t \in Token
      /\ row[old] \in Row /\ row[old] # None /\ ~row[old].consumed
      /\ row[t] = None /\ t \notin held /\ t # old
  BY DEF Rotate, Rotatable, Inv, TypeOK, SnapshotOK, StageOK
<1>2. PICK f \in Family : f = row[old].family
  BY <1>1 DEF Row
<1>3. /\ Replacement(r) \in Row /\ Replacement(r) # None
      /\ Replacement(r).family = f
      /\ Replacement(r).client = row[old].client
      /\ Replacement(r).scope \subseteq row[old].scope
      /\ ~Replacement(r).consumed
  BY <1>2, ReplacementType, ConstantsAssumption DEF Rotate
<1>4. /\ used \in Row /\ used # None /\ used.consumed
      /\ used.family = f /\ used.client = row[old].client
      /\ used.scope = row[old].scope /\ used.expires = row[old].expires
  BY <1>1, <1>2, ConstantsAssumption DEF Row
<1>5. row' = [row EXCEPT ![old] = used, ![t] = Replacement(r)]
  BY <1>1 DEF Rotate, Inv, TypeOK
<1>6. /\ row' \in [Token -> Row \union {None}]
      /\ row'[old] = used /\ row'[t] = Replacement(r)
      /\ \A u \in Token \ {old, t} : row'[u] = row[u]
  BY <1>1, <1>3, <1>4, <1>5 DEF Inv, TypeOK
<1>7. /\ UNCHANGED <<now, req, seen, stamp, fresh, held, revoked, spurned>>
      /\ pc' = [pc EXCEPT ![r] = "answer"]
      /\ pc[r] = "rotate"
      /\ rotated' = rotated \union {<<old, t>>}
  BY DEF Rotate, local
<1> HIDE DEF old, t, used
\* Rows are only added or consumed.
<1>8. \A u \in Token : row[u] # None =>
        /\ row'[u] # None
        /\ row'[u].family = row[u].family
        /\ row'[u].client = row[u].client
        /\ row'[u].scope = row[u].scope
        /\ row[u].consumed => row'[u].consumed
  BY <1>1, <1>2, <1>4, <1>6
<1>9. TypeOK'
  BY <1>1, <1>6, <1>7 DEF Inv, TypeOK
<1>10. ASSUME NEW q \in Request PROVE SnapshotOK(q)' /\ StageOK(q)'
  <2>1. SnapshotOK(q)'
    BY <1>7, <1>8 DEF Inv, SnapshotOK
  <2>2. q # r /\ pc[q] = "rotate" => fresh[q] \in Token \ {old, t}
    BY <1>1 DEF Inv, TypeOK, StageOK, DrawnApart, t
  <2>3. StageOK(q)'
    BY <1>6, <1>7, <2>2 DEF Inv, TypeOK, StageOK
  <2> QED
    BY <2>1, <2>3
<1>11. DrawnApart'
  BY <1>7 DEF Inv, DrawnApart
<1>12. RotatedStored'
  BY <1>1, <1>3, <1>4, <1>6, <1>7, <1>8 DEF Inv, TypeOK, RotatedStored
<1>13. NeverWidens'
  <2>1. SUFFICES ASSUME NEW p \in rotated'
                 PROVE /\ row'[p[2]].family = row'[p[1]].family
                       /\ row'[p[2]].client = row'[p[1]].client
                       /\ row'[p[2]].scope \subseteq row'[p[1]].scope
    BY DEF NeverWidens
  <2>2. CASE p \in rotated
    BY <1>8, <2>2 DEF Inv, TypeOK, RotatedStored, NeverWidens
  <2>3. CASE p = <<old, t>>
    BY <1>3, <1>4, <1>6, <2>3
  <2> QED
    BY <1>7, <2>1, <2>2, <2>3
<1>14. ConsumedEarned'
  <2>1. SUFFICES ASSUME NEW u \in Token, row'[u] # None, row'[u].consumed
                 PROVE \E p \in rotated' : row'[p[1]] # None
                                           /\ row'[p[1]].family = row'[u].family
    BY DEF ConsumedEarned
  <2>2. CASE u = old
    <3>1. <<old, t>> \in rotated' /\ <<old, t>>[1] = u
      BY <1>7, <2>2
    <3> QED
      BY <2>1, <3>1
  <2>3. CASE u # old
    <3>1. u # t
      BY <1>3, <1>6, <2>1
    <3>2. row[u] # None /\ row[u].consumed /\ row'[u] = row[u]
      BY <1>6, <2>1, <2>3, <3>1
    <3> QED
      BY <1>7, <1>8, <3>2 DEF Inv, TypeOK, ConsumedEarned
  <2> QED
    BY <2>2, <2>3
<1>15. \A g \in Family : g # f => Live(g)' = Live(g)
  BY <1>1, <1>2, <1>3, <1>4, <1>6 DEF Live, Stored
<1>16. Live(f) = {old}
  BY <1>1, <1>2 DEF Inv, OneLiveToken, Live, Stored
<1>17. Live(f)' = {t}
  BY <1>1, <1>3, <1>4, <1>6, <1>16 DEF Live, Stored
<1>18. OneLiveToken'
  BY <1>15, <1>17 DEF Inv, OneLiveToken
\* The old token was live, so its family is not revoked and never forked.
<1>19. f \notin revoked
  BY <1>16 DEF Inv, RevokedStaysDead
<1>20. RevokedStaysDead'
  BY <1>7, <1>15, <1>19 DEF Inv, TypeOK, RevokedStaysDead
<1>21. RevocationEarned'
  BY <1>7, <1>8 DEF Inv, TypeOK, RevocationEarned
<1>22. \A p \in rotated : p[1] # old
  BY <1>1 DEF Inv, RotatedStored
<1>23. RotatedOnce'
  BY <1>7, <1>22 DEF Inv, TypeOK, RotatedOnce
<1> QED
  BY <1>9, <1>10, <1>11, <1>12, <1>13, <1>14, <1>18, <1>20, <1>21, <1>23 DEF Inv

\* revoke_family leaves nothing live in the family, and had a reason.
LEMMA RevokeInv ==
  ASSUME Inv, NEW r \in Request, Revoke(r)
  PROVE  Inv'
<1> DEFINE used(u) == [row[u] EXCEPT !.consumed = TRUE]
<1>0. PICK f \in Family : f = seen[r].family
  BY DEF Revoke, Inv, TypeOK, StageOK, Row
<1>1. /\ req[r].token \in Token /\ seen[r] \in Row
      /\ row[req[r].token] # None
      /\ row[req[r].token].family = f /\ row[req[r].token].consumed
  BY <1>0 DEF Revoke, Inv, TypeOK, SnapshotOK, StageOK, Row
<1>2. /\ row' = [u \in Token |-> IF u \in Stored(f) THEN used(u) ELSE row[u]]
      /\ Finish(r) /\ UNCHANGED <<now, held, rotated>>
      /\ revoked' = revoked \union {f}
      /\ spurned' = spurned \union {req[r].token}
  BY <1>0 DEF Revoke, Chain, Stored
<1>3. \A u \in Token : row[u] # None =>
        /\ used(u) \in Row /\ used(u) # None /\ used(u).consumed
        /\ used(u).family = row[u].family /\ used(u).client = row[u].client
        /\ used(u).scope = row[u].scope
  BY ConstantsAssumption DEF Inv, TypeOK, Row
<1> HIDE DEF used
<1>4. /\ \A u \in Token : row[u] = None => row'[u] = None
      /\ \A u \in Token : row[u] # None =>
           /\ row'[u] \in Row /\ row'[u] # None
           /\ row'[u].family = row[u].family
           /\ row'[u].client = row[u].client
           /\ row'[u].scope = row[u].scope
           /\ row[u].consumed => row'[u].consumed
           /\ row[u].family = f => row'[u].consumed
           /\ row[u].family # f => row'[u] = row[u]
  BY <1>2, <1>3 DEF Stored, Inv, TypeOK
<1>5. row' \in [Token -> Row \union {None}]
  BY <1>2, <1>4
<1>6. TypeOK'
  BY <1>1, <1>2, <1>5, FinishLocal DEF Inv, TypeOK
<1>7. ASSUME NEW q \in Request PROVE SnapshotOK(q)' /\ StageOK(q)'
  <2>1. SnapshotOK(q)'
    BY <1>2, <1>4, FinishLocal DEF Inv, SnapshotOK
  <2>2. StageOK(q)'
    BY <1>2, <1>4, FinishLocal DEF Inv, TypeOK, StageOK
  <2> QED
    BY <2>1, <2>2
<1>8. DrawnApart'
  BY <1>2, FinishDraws DEF Inv
<1>9. RotatedStored' /\ NeverWidens'
  BY <1>2, <1>4 DEF Inv, TypeOK, RotatedStored, NeverWidens
<1>10. \E p \in rotated : row[p[1]] # None /\ row[p[1]].family = f
  BY <1>1 DEF Inv, ConsumedEarned
<1>11. ConsumedEarned'
  <2>1. SUFFICES ASSUME NEW u \in Token, row'[u] # None, row'[u].consumed
                 PROVE \E p \in rotated' : row'[p[1]] # None
                                           /\ row'[p[1]].family = row'[u].family
    BY DEF ConsumedEarned
  <2>2. row[u] # None /\ row'[u].family = row[u].family
    BY <1>4, <2>1
  <2>3. \E p \in rotated : row[p[1]] # None /\ row[p[1]].family = row[u].family
    BY <1>4, <1>10, <2>1, <2>2 DEF Inv, ConsumedEarned
  <2> QED
    BY <1>2, <1>4, <2>2, <2>3 DEF Inv, TypeOK
<1>12. /\ Live(f)' = {}
       /\ \A g \in Family : g # f => Live(g)' = Live(g)
  BY <1>4 DEF Live, Stored
<1>13. OneLiveToken' /\ RevokedStaysDead'
  BY <1>2, <1>12 DEF Inv, TypeOK, OneLiveToken, RevokedStaysDead
<1>14. RevocationEarned'
  <2>1. SUFFICES ASSUME NEW g \in revoked'
                 PROVE \E p \in rotated' : row'[p[1]] # None /\ row'[p[1]].family = g
    BY DEF RevocationEarned
  <2>2. PICK p \in rotated : row[p[1]] # None /\ row[p[1]].family = g
    BY <1>2, <1>10, <2>1 DEF Inv, RevocationEarned
  <2>3. p[1] \in Token
    BY DEF Inv, TypeOK
  <2> QED
    BY <1>2, <1>4, <2>2, <2>3
<1>15. RotatedOnce'
  BY <1>2 DEF Inv, RotatedOnce
<1> QED
  BY <1>6, <1>7, <1>8, <1>9, <1>11, <1>13, <1>14, <1>15 DEF Inv

------------------------------------------------------------------------------

\* Every step of the system preserves the invariant.
LEMMA NextInv == Inv /\ [Next]_vars => Inv'
<1> SUFFICES ASSUME Inv, [Next]_vars PROVE Inv'
  OBVIOUS
<1>1. ASSUME NEW f \in Family, NEW t \in Token, NEW c \in Client,
             NEW s \in SUBSET Scope, IssueFamily(f, t, c, s)
      PROVE  Inv'
  BY <1>1, IssueFamilyInv
<1>2. ASSUME NEW r \in Request, NEW c \in Client, NEW v \in Token \union {None},
             NEW s \in SUBSET Scope, Receive(r, c, v, s)
      PROVE  Inv'
  BY <1>2, ReceiveInv
<1>3. ASSUME NEW r \in Request, Step(r) PROVE Inv'
  BY <1>3, LookupInv, RefuseInv, DetectReplayInv, AcceptInv, RotateInv, LoseRaceInv,
     RevokeInv, AnswerInv, LoseAnswerInv DEF Step
<1>4. CASE UNCHANGED vars
  <2>1. UNCHANGED <<row, now, pc, req, seen, stamp, fresh, held, rotated, revoked, spurned>>
    BY <1>4 DEF vars, local, history
  <2>2. TypeOK' /\ DrawnApart' /\ \A q \in Request : SnapshotOK(q)' /\ StageOK(q)'
    BY <2>1 DEF Inv, TypeOK, DrawnApart, SnapshotOK, StageOK
  <2> QED
    BY <2>1, <2>2, QuietStep
<1> QED
  BY <1>1, <1>2, <1>3, <1>4, CrashInv, TickInv DEF Next

\* The strengthening that carries all the safety properties of the grant: it
\* holds in every reachable state, for every number of tokens and requests.
THEOREM InvHolds == Spec => []Inv
  BY InitInv, NextInv, PTL DEF Spec

\* The actions after which the store is a different one.
LEMMA StoreUntouched ==
  ASSUME NEW r \in Request, Step(r)
  PROVE  Rotate(r) \/ Revoke(r) \/ UNCHANGED row
  BY DEF Step, Lookup, Refuse, DetectReplay, Accept, LoseRace, Answer, LoseAnswer

\* Every variable has its type in every reachable state.
THEOREM TypeCorrect == Spec => []TypeOK
  BY InvHolds, PTL DEF Inv

\* A chain never forks: of each family at most one token can be redeemed, for
\* any number of overlapping requests.
THEOREM ChainNeverForks == Spec => []OneLiveToken
  BY InvHolds, PTL DEF Inv

\* A refresh token is exchanged at most once, ever.
THEOREM ExchangedOnce == Spec => []RotatedOnce
  BY InvHolds, PTL DEF Inv

\* Revocation is final: no request in flight brings a revoked family back.
THEOREM RevocationIsFinal == Spec => []RevokedStaysDead
  BY InvHolds, PTL DEF Inv

\* No sequence of refreshes widens the scope or changes the client.
THEOREM ScopeOnlyNarrows == Spec => []NeverWidens
  BY InvHolds, PTL DEF Inv

\* A family is revoked only after one of its tokens was really exchanged.
THEOREM RevocationHasCause == Spec => []RevocationEarned
  BY InvHolds, PTL DEF Inv

\* No step deletes a row, and a consumed row stays exactly as it is: a used
\* token cannot be brought back by a late write.
THEOREM ConsumedForever == Spec => Tombstones
<1> DEFINE Kept == \A t \in Token : row[t] # None =>
                     /\ row'[t] # None
                     /\ row[t].consumed => row'[t] = row[t]
<1>1. ASSUME Inv, [Next]_vars PROVE Kept
  <2>1. ASSUME NEW f \in Family, NEW u \in Token, NEW c \in Client,
               NEW s \in SUBSET Scope, IssueFamily(f, u, c, s)
        PROVE  Kept
    BY <1>1, <2>1 DEF IssueFamily, Fresh, Inv, TypeOK
  <2>2. ASSUME NEW r \in Request, Rotate(r) PROVE Kept
    <3>1. /\ req[r].token \in Token /\ fresh[r] \in Token
          /\ row[req[r].token] # None /\ ~row[req[r].token].consumed
          /\ row[fresh[r]] = None
      BY <1>1, <2>2 DEF Rotate, Rotatable, Inv, TypeOK, SnapshotOK, StageOK
    <3>2. [row[req[r].token] EXCEPT !.consumed = TRUE] # None
      <4>1. row[req[r].token] \in Row
        BY <1>1, <3>1 DEF Inv, TypeOK
      <4>2. [row[req[r].token] EXCEPT !.consumed = TRUE] \in Row
        BY <4>1 DEF Row
      <4> QED
        BY <4>2, ConstantsAssumption
    <3> QED
      BY <1>1, <2>2, <3>1, <3>2 DEF Rotate, Inv, TypeOK
  <2>3. ASSUME NEW r \in Request, Revoke(r) PROVE Kept
    <3>1. ASSUME NEW t \in Token, row[t] # None
          PROVE  /\ [row[t] EXCEPT !.consumed = TRUE] # None
                 /\ row[t].consumed => [row[t] EXCEPT !.consumed = TRUE] = row[t]
      <4>1. row[t] \in Row
        BY <1>1, <3>1 DEF Inv, TypeOK
      <4>2. [row[t] EXCEPT !.consumed = TRUE] \in Row
        BY <4>1 DEF Row
      <4>3. row[t].consumed => [row[t] EXCEPT !.consumed = TRUE] = row[t]
        BY <4>1 DEF Row
      <4> QED
        BY <4>2, <4>3, ConstantsAssumption
    <3> QED
      BY <2>3, <3>1 DEF Revoke
  <2>4. CASE UNCHANGED row
    BY <2>4
  <2>5. \A r \in Request : Step(r) => Kept
    BY <2>2, <2>3, <2>4, StoreUntouched
  <2> QED
    BY <1>1, <2>1, <2>4, <2>5 DEF Next, Receive, Crash, Tick, vars
<1> QED
  BY <1>1, InvHolds, PTL DEF Spec, Tombstones

------------------------------------------------------------------------------
\* Who may revoke.

\* All rows of a family belong to one client.
OneClient ==
  \A t, u \in Token : row[t] # None /\ row[u] # None /\ row[t].family = row[u].family
    => row[t].client = row[u].client

\* What rotate writes: the old row consumed, and a row of the same chain.
LEMMA Rotation ==
  ASSUME Inv, NEW r \in Request, Rotate(r)
  PROVE  /\ req[r].token \in Token /\ fresh[r] \in Token /\ req[r].token # fresh[r]
         /\ row[req[r].token] \in Row /\ ~row[req[r].token].consumed
         /\ row[fresh[r]] = None
         /\ Replacement(r) \in Row /\ ~Replacement(r).consumed
         /\ Replacement(r).family = row[req[r].token].family
         /\ Replacement(r).client = row[req[r].token].client
         /\ Replacement(r).scope \subseteq row[req[r].token].scope
         /\ row'[req[r].token] = [row[req[r].token] EXCEPT !.consumed = TRUE]
         /\ row'[fresh[r]] = Replacement(r)
         /\ \A t \in Token \ {req[r].token, fresh[r]} : row'[t] = row[t]
<1>1. /\ seen[r] # None /\ fresh[r] # None /\ row[fresh[r]] = None
      /\ row[req[r].token] # None /\ ~row[req[r].token].consumed
  BY DEF Inv, StageOK, Rotate, Rotatable
<1>2. /\ req[r].token \in Token /\ fresh[r] \in Token /\ seen[r] \in Row
      /\ row[req[r].token] \in Row
  BY <1>1 DEF Inv, TypeOK, SnapshotOK
<1>3. /\ Replacement(r) \in Row /\ ~Replacement(r).consumed
      /\ Replacement(r).family = row[req[r].token].family
      /\ Replacement(r).client = row[req[r].token].client
      /\ Replacement(r).scope \subseteq row[req[r].token].scope
  BY ReplacementType DEF Rotate
<1>4. row' = [row EXCEPT ![req[r].token].consumed = TRUE, ![fresh[r]] = Replacement(r)]
  BY DEF Rotate
<1> QED
  BY <1>1, <1>2, <1>3, <1>4 DEF Inv, TypeOK

LEMMA OneClientStep ==
  ASSUME Inv, OneClient, [Next]_vars
  PROVE  OneClient'
<1>1. CASE UNCHANGED row
  BY <1>1 DEF OneClient
<1>2. ASSUME NEW f \in Family, NEW u \in Token, NEW c \in Client,
             NEW s \in SUBSET Scope, IssueFamily(f, u, c, s)
      PROVE  OneClient'
  BY <1>2 DEF Inv, TypeOK, OneClient, IssueFamily, Stored
<1>3. ASSUME NEW r \in Request, Rotate(r) PROVE OneClient'
  <2>1. ASSUME NEW t \in Token, row'[t] # None
        PROVE  \E u \in Token : /\ row[u] # None /\ row[u].family = row'[t].family
                                /\ row[u].client = row'[t].client
    <3>1. row[req[r].token] # None
      BY <1>3, Rotation, ConstantsAssumption
    <3>2. CASE t = req[r].token
      <4>1. row'[t].family = row[t].family /\ row'[t].client = row[t].client
        BY <1>3, <3>2, Rotation DEF Row
      <4> QED
        BY <3>1, <3>2, <4>1
    <3>3. CASE t = fresh[r]
      <4>1. /\ row'[t].family = row[req[r].token].family
            /\ row'[t].client = row[req[r].token].client
            /\ req[r].token \in Token
        BY <1>3, <3>3, Rotation
      <4> QED
        BY <3>1, <4>1
    <3>4. CASE t \notin {req[r].token, fresh[r]}
      <4>1. row'[t] = row[t]
        BY <1>3, <3>4, Rotation
      <4> QED
        BY <2>1, <4>1
    <3> QED
      BY <3>2, <3>3, <3>4
  <2> QED
    BY <2>1 DEF OneClient
<1>4. ASSUME NEW r \in Request, Revoke(r) PROVE OneClient'
  <2>1. ASSUME NEW t \in Token, row'[t] # None
        PROVE  row[t] # None /\ row'[t].family = row[t].family /\ row'[t].client = row[t].client
    <3>1. CASE row'[t] = row[t]
      BY <2>1, <3>1
    <3>2. CASE row[t] # None /\ row'[t] = [row[t] EXCEPT !.consumed = TRUE]
      BY <3>2 DEF Inv, TypeOK, Row
    <3> QED
      BY <1>4, <3>1, <3>2 DEF Revoke
  <2> QED
    BY <2>1 DEF OneClient
<1> QED
  BY <1>1, <1>2, <1>3, <1>4, StoreUntouched DEF Next, Receive, Crash, Tick, vars

\* A family is only ever revoked by a request of the client that owns it: a
\* client that got hold of another's token cannot end its session.
THEOREM RevokedByOwner == Spec => OnlyOwnerRevokes
<1> DEFINE Owned == \A f \in revoked' \ revoked :
                      \E r \in Request : /\ pc[r] = "revoke" /\ pc'[r] = "idle"
                                         /\ \A t \in Stored(f) : row[t].client = req[r].client
<1>1. Init => OneClient
  BY DEF Init, OneClient
<1>2. Inv /\ OneClient /\ [Next]_vars => OneClient'
  BY OneClientStep
<1>3. ASSUME Inv, OneClient, [Next]_vars PROVE Owned
  <2>1. ASSUME NEW r \in Request, Revoke(r) PROVE Owned
    <3>1. pc[r] = "revoke" /\ pc'[r] = "idle" /\ revoked' = revoked \union {seen[r].family}
      BY <1>3, <2>1 DEF Inv, TypeOK, Revoke, Finish
    <3>2. seen[r] # None /\ seen[r].client = req[r].client
      BY <1>3, <3>1 DEF Inv, StageOK
    <3>3. /\ req[r].token \in Token /\ row[req[r].token] # None
          /\ row[req[r].token].family = seen[r].family
          /\ row[req[r].token].client = req[r].client
      BY <1>3, <3>2 DEF Inv, SnapshotOK
    <3> QED
      BY <1>3, <3>1, <3>3 DEF OneClient, Stored
  <2>2. CASE UNCHANGED revoked
    BY <2>2
  <2> QED
    BY <1>3, <2>1, <2>2 DEF Next, vars, history, IssueFamily, Receive, Step, Lookup, Refuse,
       DetectReplay, Accept, Rotate, LoseRace, Answer, LoseAnswer, Crash, Tick
<1> QED
  BY <1>1, <1>2, <1>3, InvHolds, PTL DEF Spec, OnlyOwnerRevokes

------------------------------------------------------------------------------
\* The refinement of TokenFamily.

Born == {f \in Family : Stored(f) # {}}
Spent == {t \in Token : row[t] # None /\ row[t].consumed}

\* The mapping reads the one live token off a family, if it has one.
LiveMap ==
  \A f \in Family :
    /\ \A t \in Live(f) : liveToken[f] = t /\ scopeCeiling[f] = row[t].scope
    /\ Live(f) = {} => liveToken[f] = None /\ scopeCeiling[f] = {}

LEMMA MapIsLive == Inv => LiveMap
<1> SUFFICES ASSUME Inv, NEW f \in Family
             PROVE  /\ \A t \in Live(f) : liveToken[f] = t /\ scopeCeiling[f] = row[t].scope
                    /\ Live(f) = {} => liveToken[f] = None /\ scopeCeiling[f] = {}
  BY DEF LiveMap
<1>1. liveToken[f] = IF Live(f) = {} THEN None ELSE CHOOSE t \in Live(f) : TRUE
  BY DEF liveToken
<1>2. scopeCeiling[f] = IF Live(f) = {} THEN {} ELSE row[liveToken[f]].scope
  BY DEF scopeCeiling
<1>3. \A t, u \in Live(f) : t = u
  BY DEF Inv, OneLiveToken
<1>4. ASSUME NEW t \in Live(f) PROVE liveToken[f] = t
  <2>1. (CHOOSE u \in Live(f) : TRUE) \in Live(f)
    BY <1>4
  <2> QED
    BY <1>1, <1>3, <1>4, <2>1
<1> QED
  BY <1>1, <1>2, <1>4

LEMMA MapIsLiveNext == Inv' => LiveMap'
  BY MapIsLive, PTL

\* Two functions on families.
LEMMA MapShape ==
  /\ liveToken = [f \in Family |-> liveToken[f]]
  /\ scopeCeiling = [f \in Family |-> scopeCeiling[f]]
  /\ liveToken' = [f \in Family |-> liveToken'[f]]
  /\ scopeCeiling' = [f \in Family |-> scopeCeiling'[f]]
  BY DEF liveToken, scopeCeiling

\* A family whose live rows stay as they are looks the same.
LEMMA FamilyStays ==
  ASSUME LiveMap, LiveMap', NEW f \in Family, Live(f)' = Live(f),
         \A t \in Live(f) : row'[t] = row[t]
  PROVE  liveToken'[f] = liveToken[f] /\ scopeCeiling'[f] = scopeCeiling[f]
<1>1. CASE Live(f) = {}
  BY <1>1 DEF LiveMap
<1>2. CASE Live(f) # {}
  <2>1. PICK t \in Live(f) : TRUE
    BY <1>2
  <2> QED
    BY <2>1 DEF LiveMap
<1> QED
  BY <1>1, <1>2

\* One family changes hands.
LEMMA FamilyChanges ==
  ASSUME NEW f \in Family, NEW t, NEW s, liveToken'[f] = t, scopeCeiling'[f] = s,
         \A g \in Family \ {f} : liveToken'[g] = liveToken[g] /\ scopeCeiling'[g] = scopeCeiling[g]
  PROVE  /\ liveToken' = [liveToken EXCEPT ![f] = t]
         /\ scopeCeiling' = [scopeCeiling EXCEPT ![f] = s]
  BY MapShape

\* A value nobody drew yet is new to the promise, too.
LEMMA NewIsUnseen ==
  ASSUME Inv, NEW t \in Token, row[t] = None
  PROVE  t \notin Spent /\ \A f \in Family : liveToken[f] # t
<1>1. ASSUME NEW f \in Family PROVE liveToken[f] # t
  <2>1. CASE Live(f) = {}
    BY <2>1, MapIsLive, ConstantsAssumption DEF LiveMap
  <2>2. ASSUME NEW u \in Live(f) PROVE liveToken[f] # t
    BY <2>2, MapIsLive DEF LiveMap, Live, Stored
  <2> QED
    BY <2>1, <2>2
<1> QED
  BY <1>1 DEF Spent

LEMMA IssueIsBegin ==
  ASSUME Inv, Inv', NEW f \in Family, NEW t \in Token, NEW c \in Client,
         NEW s \in SUBSET Scope, IssueFamily(f, t, c, s)
  PROVE  Families!Begin(f, t, s)
<1> DEFINE new == [family |-> f, client |-> c, scope |-> s,
                   expires |-> now + RefreshTTL, consumed |-> FALSE]
<1>1. /\ Stored(f) = {} /\ row[t] = None /\ row' = [row EXCEPT ![t] = new]
  BY DEF IssueFamily, Fresh
<1>2. new \in Row /\ new # None /\ new.family = f /\ new.scope = s /\ ~new.consumed
  <2>1. now + RefreshTTL \in Nat
    BY ConstantsAssumption DEF Inv, TypeOK
  <2>2. new \in Row
    BY <2>1 DEF Row
  <2> QED
    BY <2>2, ConstantsAssumption
<1> HIDE DEF new
<1>3. row'[t] = new /\ \A u \in Token \ {t} : row'[u] = row[u]
  BY <1>1 DEF Inv, TypeOK
<1>4. t \in Live(f)' /\ Stored(f)' = {t}
  BY <1>1, <1>2, <1>3 DEF Live, Stored
<1>5. liveToken'[f] = t /\ scopeCeiling'[f] = s
  BY <1>2, <1>3, <1>4, MapIsLiveNext DEF LiveMap
<1>6. ASSUME NEW g \in Family \ {f}
      PROVE  /\ liveToken'[g] = liveToken[g] /\ scopeCeiling'[g] = scopeCeiling[g]
             /\ Stored(g)' = Stored(g)
  <2>1. Stored(g)' = Stored(g) /\ Live(g)' = Live(g) /\ \A u \in Live(g) : row'[u] = row[u]
    BY <1>1, <1>2, <1>3 DEF Live, Stored
  <2> QED
    BY <2>1, FamilyStays, MapIsLive, MapIsLiveNext
<1>7. Born' = Born \union {f} /\ f \notin Born
  BY <1>1, <1>4, <1>6 DEF Born
<1>8. Spent' = Spent
  BY <1>1, <1>2, <1>3 DEF Spent
<1>9. /\ liveToken' = [liveToken EXCEPT ![f] = t]
      /\ scopeCeiling' = [scopeCeiling EXCEPT ![f] = s]
  BY <1>5, <1>6, FamilyChanges
<1> QED
  BY <1>1, <1>7, <1>8, <1>9, NewIsUnseen DEF Families!Begin, Families!Unseen, Born, Spent

LEMMA RotateIsSucceed ==
  ASSUME Inv, Inv', NEW r \in Request, Rotate(r)
  PROVE  \E f \in Family, t \in Token, s \in SUBSET Scope : Families!Succeed(f, t, s)
<1>1. PICK old \in Token, t \in Token, new \in Row, f \in Family :
           /\ old # t /\ f = row[old].family
           /\ row[old] \in Row /\ ~row[old].consumed /\ row[t] = None
           /\ ~new.consumed /\ new.family = f
           /\ new.scope \subseteq row[old].scope
           /\ row'[old] = [row[old] EXCEPT !.consumed = TRUE]
           /\ row'[t] = new
           /\ \A u \in Token \ {old, t} : row'[u] = row[u]
  <2>1. row[req[r].token].family \in Family
    BY Rotation DEF Row
  <2> QED
    BY <2>1, Rotation
<1>2. row[old] # None /\ new # None /\ row'[old] # None
      /\ row'[old].consumed /\ row'[old].family = f
  <2>1. row'[old] \in Row /\ row'[old].consumed /\ row'[old].family = f
    BY <1>1 DEF Row
  <2> QED
    BY <1>1, <2>1, ConstantsAssumption
<1>3. new.scope \in SUBSET Scope
  BY DEF Row
<1>4. old \in Live(f) /\ t \in Live(f)'
  BY <1>1, <1>2 DEF Live, Stored
<1>5. liveToken[f] = old /\ scopeCeiling[f] = row[old].scope
  BY <1>3, <1>4, MapIsLive DEF LiveMap
<1>6. liveToken'[f] = t /\ scopeCeiling'[f] = new.scope
  BY <1>1, <1>3, <1>4, MapIsLiveNext DEF LiveMap
<1>7. ASSUME NEW g \in Family \ {f}
      PROVE  /\ liveToken'[g] = liveToken[g] /\ scopeCeiling'[g] = scopeCeiling[g]
             /\ Stored(g)' = Stored(g)
  <2>1. Stored(g)' = Stored(g)
    BY <1>1, <1>2 DEF Stored
  <2>2. Live(g)' = Live(g) /\ \A u \in Live(g) : row'[u] = row[u]
    BY <1>1, <1>2, <2>1 DEF Live, Stored
  <2> QED
    BY <2>1, <2>2, FamilyStays, MapIsLive, MapIsLiveNext
<1>8. /\ liveToken' = [liveToken EXCEPT ![f] = t]
      /\ scopeCeiling' = [scopeCeiling EXCEPT ![f] = new.scope]
  BY <1>3, <1>6, <1>7, FamilyChanges
<1>9. Born' = Born
  <2>1. old \in Stored(f) /\ old \in Stored(f)'
    BY <1>1, <1>2 DEF Stored
  <2> QED
    BY <1>7, <2>1 DEF Born
<1>10. Spent' = Spent \union {old}
  BY <1>1, <1>2 DEF Spent
<1>11. Families!Succeed(f, t, new.scope)
  <2>1. liveToken[f] # None
    BY <1>1, <1>5, ConstantsAssumption
  <2>2. t \notin Spent /\ \A g \in Family : liveToken[g] # t
    BY <1>1, NewIsUnseen
  <2> QED
    BY <1>1, <1>5, <1>8, <1>9, <1>10, <2>1, <2>2
       DEF Families!Succeed, Families!Unseen, Born, Spent
<1> QED
  BY <1>1, <1>3, <1>11

\* A revocation kills the family, or finds it dead.
LEMMA RevokeIsKill ==
  ASSUME Inv, Inv', NEW r \in Request, Revoke(r)
  PROVE  (\E f \in Family : Families!Kill(f)) \/ UNCHANGED Families!vars
<1>1. PICK f \in Family : f = seen[r].family
  BY DEF Inv, TypeOK, StageOK, Revoke, Row
<1>2. ASSUME NEW t \in Token
      PROVE  /\ t \in Stored(f) => row'[t] = [row[t] EXCEPT !.consumed = TRUE]
             /\ t \notin Stored(f) => row'[t] = row[t]
  BY <1>1 DEF Revoke, Chain, Stored
<1>3. ASSUME NEW t \in Stored(f)
      PROVE  row[t] \in Row /\ row'[t] \in Row /\ row'[t].consumed /\ row'[t].family = row[t].family
             /\ row'[t] # None
  <2>1. row[t] \in Row
    BY DEF Stored, Inv, TypeOK
  <2>2. row'[t] = [row[t] EXCEPT !.consumed = TRUE]
    BY <1>2 DEF Stored
  <2> QED
    BY <2>1, <2>2, ConstantsAssumption DEF Row
<1>4. ASSUME NEW g \in Family PROVE Stored(g)' = Stored(g)
  BY <1>2, <1>3 DEF Stored
<1>5. Live(f)' = {}
  BY <1>1, <1>3, <1>4 DEF Live
<1>6. liveToken'[f] = None /\ scopeCeiling'[f] = {}
  BY <1>1, <1>5, MapIsLiveNext DEF LiveMap
<1>7. ASSUME NEW g \in Family \ {f}
      PROVE  liveToken'[g] = liveToken[g] /\ scopeCeiling'[g] = scopeCeiling[g]
  <2>1. \A t \in Stored(g) : t \notin Stored(f) /\ row'[t] = row[t]
    BY <1>2 DEF Stored
  <2>2. Live(g)' = Live(g) /\ \A u \in Live(g) : row'[u] = row[u]
    BY <1>4, <2>1 DEF Live
  <2> QED
    BY <2>2, FamilyStays, MapIsLive, MapIsLiveNext
<1>8. Born' = Born
  BY <1>4 DEF Born
<1>9. Spent' = Spent \union Live(f)
  BY <1>2, <1>3 DEF Spent, Live, Stored
<1>10. CASE Live(f) = {}
  <2>1. \A g \in Family : liveToken'[g] = liveToken[g] /\ scopeCeiling'[g] = scopeCeiling[g]
    BY <1>1, <1>6, <1>7, <1>10, MapIsLive DEF LiveMap
  <2>2. liveToken' = liveToken /\ scopeCeiling' = scopeCeiling
    BY <2>1, MapShape
  <2> QED
    BY <1>8, <1>9, <1>10, <2>2 DEF Families!vars, Born, Spent
<1>11. ASSUME NEW t \in Live(f) PROVE Families!Kill(f)
  <2>1. liveToken[f] = t /\ t \in Token
    BY <1>1, <1>11, MapIsLive DEF LiveMap, Live, Stored
  <2>2. Live(f) = {t}
    BY <1>1, <1>11 DEF Inv, OneLiveToken
  <2>3. liveToken[f] # None
    BY <2>1, ConstantsAssumption
  <2>4. /\ liveToken' = [liveToken EXCEPT ![f] = None]
        /\ scopeCeiling' = [scopeCeiling EXCEPT ![f] = {}]
    BY <1>1, <1>6, <1>7, FamilyChanges
  <2> QED
    BY <1>8, <1>9, <2>1, <2>2, <2>3, <2>4 DEF Families!Kill, Born, Spent
<1> QED
  BY <1>1, <1>10, <1>11

\* The requests, seen through the mapping, do what TokenFamily allows: a family
\* changes hands, is killed, or nothing happens that a client could tell.
THEOREM KeepsThePromise == Spec => KeepsPromise
<1>1. ASSUME Init PROVE Families!Init
  <2>1. \A f \in Family : Live(f) = {} /\ Stored(f) = {}
    BY <1>1 DEF Init, Live, Stored
  <2>2. \A f \in Family : liveToken[f] = None /\ scopeCeiling[f] = {}
    BY <2>1, <1>1, InitInv, MapIsLive DEF LiveMap
  <2>3. liveToken = [f \in Family |-> None] /\ scopeCeiling = [f \in Family |-> {}]
    BY <2>2, MapShape
  <2> QED
    BY <1>1, <2>1, <2>3 DEF Families!Init, Init
<1>2. ASSUME Inv, Inv', [Next]_vars PROVE [Families!Next]_(Families!vars)
  <2>1. ASSUME UNCHANGED row PROVE UNCHANGED Families!vars
    <3>1. ASSUME NEW f \in Family
          PROVE  Live(f)' = Live(f) /\ Stored(f)' = Stored(f)
      BY <2>1 DEF Live, Stored
    <3>2. \A f \in Family : liveToken'[f] = liveToken[f] /\ scopeCeiling'[f] = scopeCeiling[f]
      BY <1>2, <2>1, <3>1, FamilyStays, MapIsLive, MapIsLiveNext
    <3>3. liveToken' = liveToken /\ scopeCeiling' = scopeCeiling
      BY <3>2, MapShape
    <3> QED
      BY <2>1, <3>1, <3>3 DEF Families!vars
  <2>2. ASSUME NEW f \in Family, NEW t \in Token, NEW c \in Client, NEW s \in SUBSET Scope,
               IssueFamily(f, t, c, s)
        PROVE  Families!Next
    BY <1>2, <2>2, IssueIsBegin DEF Families!Next
  <2>3. ASSUME NEW r \in Request, Rotate(r) PROVE Families!Next
    BY <1>2, <2>3, RotateIsSucceed DEF Families!Next
  <2>4. ASSUME NEW r \in Request, Revoke(r) PROVE [Families!Next]_(Families!vars)
    BY <1>2, <2>4, RevokeIsKill DEF Families!Next
  <2>5. ASSUME NEW r \in Request, Step(r) PROVE [Families!Next]_(Families!vars)
    BY <2>1, <2>3, <2>4, <2>5, StoreUntouched
  <2> QED
    BY <1>2, <2>1, <2>2, <2>5 DEF Next, Receive, Crash, Tick, vars
<1>3. Init => Families!Init
  BY <1>1
<1>4. Inv /\ Inv' /\ [Next]_vars => [Families!Next]_(Families!vars)
  BY <1>2
<1> QED
  BY <1>3, <1>4, InvHolds, PTL DEF Spec, KeepsPromise, Families!Spec

------------------------------------------------------------------------------
(***************************************************************************)
(* Serial presentations: no two requests that present the same token       *)
(* overlap, while others may, in the same family too (AloneOnToken).  The  *)
(* in-memory adapter serves one request at a time, so it is such a server; *)
(* another adapter is one if something outside this code makes it one.  A  *)
(* request then finds its token as it saw it, or finds that a replay of    *)
(* another token of the family killed them all: rotate never refuses a     *)
(* token and leaves a live one in the family.                              *)
(***************************************************************************)

AloneOnToken ==
  \A p, q \in Request :
    Running(p) /\ Running(q) /\ req[p].token = req[q].token /\ req[p].token # None => p = q

\* What a request under way knows of the token it presents.
CopyOK(r) ==
  /\ pc[r] \in {"check", "rotate"} /\ seen[r] # None =>
       seen[r] = row[req[r].token] \/ Live(seen[r].family) = {}
  /\ pc[r] = "rotate" => Rotatable(req[r].token, stamp[r]) \/ Live(seen[r].family) = {}

SpurnedStored == \A t \in spurned : row[t] # None

SerialInv ==
  /\ Inv
  /\ \A r \in Request : CopyOK(r)
  /\ SpurnedStored
  /\ SecondUseRevokes

\* A family without a live token gets none, unless it is opened.
LEMMA DeadStaysDead ==
  ASSUME Inv, NEW r \in Request, Rotate(r) \/ Revoke(r), NEW f \in Family, Live(f) = {}
  PROVE  Live(f)' = {}
<1>1. CASE Rotate(r)
  <2>1. PICK old \in Token, t \in Token, new \in Row :
             /\ row[old] \in Row /\ ~row[old].consumed /\ new.family = row[old].family
             /\ row'[old] = [row[old] EXCEPT !.consumed = TRUE] /\ row'[t] = new
             /\ \A u \in Token \ {old, t} : row'[u] = row[u]
    BY <1>1, Rotation
  <2>2. row[old].family # f
    BY <2>1, ConstantsAssumption DEF Live, Stored
  <2>3. row'[old].consumed
    BY <2>1 DEF Row
  <2> QED
    BY <2>1, <2>2, <2>3 DEF Live, Stored
<1>2. CASE Revoke(r)
  <2>1. ASSUME NEW u \in Token, row'[u] # None, ~row'[u].consumed PROVE row'[u] = row[u]
    <3>1. CASE row[u] # None /\ row'[u] = [row[u] EXCEPT !.consumed = TRUE]
      BY <2>1, <3>1 DEF Inv, TypeOK, Row
    <3> QED
      BY <1>2, <3>1 DEF Revoke
  <2> QED
    BY <2>1 DEF Live, Stored
<1> QED
  BY <1>1, <1>2

\* Rows stay and keep their family.
LEMMA FamiliesStay ==
  ASSUME Inv, NEW r \in Request, Rotate(r) \/ Revoke(r), NEW t \in Token, row[t] # None
  PROVE  row'[t] # None /\ row'[t].family = row[t].family
<1> DEFINE used == [row[t] EXCEPT !.consumed = TRUE]
<1>1. row[t] \in Row
  BY DEF Inv, TypeOK
<1>2. used \in Row /\ used.family = row[t].family
  BY <1>1 DEF Row
<1>3. used # None
  BY <1>2, ConstantsAssumption
<1>4. CASE Rotate(r)
  <2>1. row'[t] = used \/ row'[t] = row[t]
    BY <1>4, Rotation
  <2> HIDE DEF used
  <2> QED
    BY <1>2, <1>3, <2>1
<1>5. CASE Revoke(r)
  <2>1. row'[t] = used \/ row'[t] = row[t]
    BY <1>5 DEF Revoke
  <2> HIDE DEF used
  <2> QED
    BY <1>2, <1>3, <2>1
<1> QED
  BY <1>4, <1>5

\* A token that was refused as used keeps its row, and its family stays dead.
LEMMA SpurnedStays ==
  ASSUME SerialInv, NEW r \in Request, Rotate(r) \/ Revoke(r), NEW t \in spurned
  PROVE  t \in Token /\ row'[t] # None /\ (Live(row[t].family) = {})'
<1>1. t \in Token /\ row[t] # None /\ Live(row[t].family) = {}
  BY DEF SerialInv, Inv, TypeOK, SpurnedStored, SecondUseRevokes
<1>2. PICK f \in Family : f = row[t].family
  BY <1>1 DEF SerialInv, Inv, TypeOK, Row
<1>3. row'[t] # None /\ row'[t].family = f
  BY <1>1, <1>2, FamiliesStay DEF SerialInv
<1>4. Live(f)' = {}
  BY <1>1, <1>2, DeadStaysDead DEF SerialInv
<1> QED
  BY <1>1, <1>3, <1>4 DEF Live, Stored

\* The steps that leave the store alone: one request goes on by itself, or rests.
LEMMA QuietSerial ==
  ASSUME SerialInv, Inv', NEW r \in Request,
         \A q \in Request \ {r} :
           pc'[q] = pc[q] /\ req'[q] = req[q] /\ seen'[q] = seen[q] /\ stamp'[q] = stamp[q],
         CopyOK(r)', UNCHANGED <<row, spurned>>
  PROVE  SerialInv'
<1>1. \A q \in Request : CopyOK(q)'
  BY DEF SerialInv, CopyOK, Rotatable, Live, Stored
<1>2. SpurnedStored' /\ SecondUseRevokes'
  BY DEF SerialInv, SpurnedStored, SecondUseRevokes, Live, Stored
<1> QED
  BY <1>1, <1>2 DEF SerialInv

\* rotate disturbs nobody else's token: it consumes the presented one, which no
\* other request presents, and inserts a value nobody can have looked up.
LEMMA RotateSerial ==
  ASSUME SerialInv, AloneOnToken, Inv', NEW r \in Request, Rotate(r)
  PROVE  SerialInv'
<1>1. /\ pc[r] = "rotate" /\ pc'[r] = "answer" /\ spurned' = spurned
      /\ req[r].token \in Token /\ req[r].token # None
      /\ row[fresh[r]] = None
      /\ \A u \in Token \ {req[r].token, fresh[r]} : row'[u] = row[u]
  BY ConstantsAssumption DEF SerialInv, Inv, TypeOK, SnapshotOK, StageOK, Rotate
<1>2. ASSUME NEW q \in Request PROVE CopyOK(q)'
  <2>1. CASE q = r
    BY <1>1, <2>1 DEF CopyOK
  <2>2. CASE q # r /\ pc[q] \in {"check", "rotate"} /\ seen[q] # None
    <3>1. /\ pc'[q] = pc[q]
          /\ req'[q] = req[q] /\ seen'[q] = seen[q] /\ stamp'[q] = stamp[q]
      BY <2>2 DEF Rotate, local, SerialInv, Inv, TypeOK
    <3>2. req[q].token \in Token \ {req[r].token, fresh[r]}
      BY <1>1, <2>2 DEF SerialInv, Inv, SnapshotOK, AloneOnToken, Running
    <3>3. row'[req[q].token] = row[req[q].token]
      BY <1>1, <3>2
    <3>4. PICK f \in Family : f = seen[q].family
      BY <2>2 DEF SerialInv, Inv, TypeOK, Row
    <3>5. Live(f) = {} => Live(f)' = {}
      BY DeadStaysDead DEF SerialInv
    <3>6. CopyOK(q)
      BY DEF SerialInv
    <3>7. (Live(seen[q].family) = {}) => (Live(seen[q].family) = {})'
      BY <3>1, <3>4, <3>5 DEF Live, Stored
    <3> QED
      BY <2>2, <3>1, <3>3, <3>6, <3>7 DEF CopyOK, Rotatable
  <2>3. CASE q # r /\ ~(pc[q] \in {"check", "rotate"} /\ seen[q] # None)
    <3>1. pc'[q] = pc[q] /\ seen'[q] = seen[q]
      BY <2>3 DEF Rotate, local, SerialInv, Inv, TypeOK
    <3>2. pc[q] # "rotate"
      BY <2>3 DEF SerialInv, Inv, StageOK
    <3> QED
      BY <2>3, <3>1, <3>2 DEF CopyOK
  <2> QED
    BY <2>1, <2>2, <2>3
<1>3. SpurnedStored' /\ SecondUseRevokes'
  BY <1>1, SpurnedStays DEF SpurnedStored, SecondUseRevokes
<1> QED
  BY <1>2, <1>3 DEF SerialInv

\* revoke_family takes the tokens other requests of the family present: those
\* find their family dead.
LEMMA RevokeSerial ==
  ASSUME SerialInv, Inv', NEW r \in Request, Revoke(r)
  PROVE  SerialInv'
<1>1. PICK f \in Family, v \in Token : f = seen[r].family /\ v = req[r].token /\ row[v] # None
                                       /\ row[v].family = f
  <2>1. seen[r] # None /\ seen[r] \in Row
    BY DEF SerialInv, Inv, TypeOK, StageOK, Revoke
  <2> QED
    BY <2>1 DEF SerialInv, Inv, SnapshotOK, Row
<1>2. f \in revoked' /\ spurned' = spurned \union {v} /\ pc'[r] = "idle"
  BY <1>1 DEF Revoke, Finish, SerialInv, Inv, TypeOK
<1>3. Live(f)' = {}
  BY <1>2 DEF Inv, RevokedStaysDead
<1>4. ASSUME NEW q \in Request PROVE CopyOK(q)'
  <2>1. CASE q = r
    BY <1>2, <2>1 DEF CopyOK
  <2>2. CASE q # r /\ pc[q] \in {"check", "rotate"} /\ seen[q] # None
    <3>1. /\ pc'[q] = pc[q]
          /\ req'[q] = req[q] /\ seen'[q] = seen[q] /\ stamp'[q] = stamp[q]
      BY <2>2 DEF Revoke, Finish, SerialInv, Inv, TypeOK
    <3>2. /\ req[q].token \in Token /\ row[req[q].token] # None
          /\ seen[q].family = row[req[q].token].family
      BY <2>2 DEF SerialInv, Inv, SnapshotOK
    <3>3. PICK g \in Family : g = seen[q].family
      BY <2>2 DEF SerialInv, Inv, TypeOK, Row
    <3>4. CASE g = f
      BY <1>3, <2>2, <3>1, <3>3, <3>4 DEF CopyOK, Live, Stored
    <3>5. CASE g # f
      <4>1. row'[req[q].token] = row[req[q].token]
        BY <1>1, <3>2, <3>3, <3>5 DEF Revoke, Chain, Stored
      <4>2. Live(g) = {} => Live(g)' = {}
        BY DeadStaysDead DEF SerialInv
      <4>3. (Live(seen[q].family) = {}) => (Live(seen[q].family) = {})'
        BY <3>1, <3>3, <4>2 DEF Live, Stored
      <4>4. CopyOK(q)
        BY DEF SerialInv
      <4> QED
        BY <2>2, <3>1, <4>1, <4>3, <4>4 DEF CopyOK, Rotatable
    <3> QED
      BY <3>4, <3>5
  <2>3. CASE q # r /\ ~(pc[q] \in {"check", "rotate"} /\ seen[q] # None)
    <3>1. pc'[q] = pc[q] /\ seen'[q] = seen[q]
      BY <2>3 DEF Revoke, Finish, SerialInv, Inv, TypeOK
    <3>2. pc[q] # "rotate"
      BY <2>3 DEF SerialInv, Inv, StageOK
    <3> QED
      BY <2>3, <3>1, <3>2 DEF CopyOK
  <2> QED
    BY <2>1, <2>2, <2>3
<1>5. row'[v] # None /\ row'[v].family = f
  BY <1>1, FamiliesStay DEF SerialInv
<1>6. \A t \in spurned' : row'[t] # None /\ (Live(row[t].family) = {})'
  BY <1>2, <1>3, <1>5, SpurnedStays DEF Live, Stored
<1> QED
  BY <1>4, <1>6 DEF SerialInv, SpurnedStored, SecondUseRevokes

\* rotate refuses a token: its family was killed while the request was under way.
LEMMA LoseRaceSerial ==
  ASSUME SerialInv, Inv', NEW r \in Request, LoseRace(r)
  PROVE  SerialInv'
<1>1. /\ pc[r] = "rotate" /\ seen[r] # None /\ row' = row
      /\ spurned' = spurned \union {req[r].token} /\ pc'[r] = "idle"
      /\ \A q \in Request \ {r} :
           pc'[q] = pc[q] /\ req'[q] = req[q] /\ seen'[q] = seen[q] /\ stamp'[q] = stamp[q]
  BY DEF SerialInv, Inv, TypeOK, StageOK, LoseRace, Finish
<1>2. row[req[r].token] # None /\ Live(row[req[r].token].family) = {}
  BY <1>1 DEF SerialInv, Inv, SnapshotOK, CopyOK, LoseRace
<1>3. \A q \in Request : CopyOK(q)'
  BY <1>1 DEF SerialInv, CopyOK, Rotatable, Live, Stored
<1>4. \A t \in spurned' : row[t] # None /\ Live(row[t].family) = {}
  BY <1>1, <1>2 DEF SerialInv, SpurnedStored, SecondUseRevokes
<1>5. \A t \in spurned' : row'[t] # None /\ (Live(row[t].family) = {})'
  BY <1>1, <1>4 DEF Live, Stored
<1> QED
  BY <1>3, <1>5 DEF SerialInv, SpurnedStored, SecondUseRevokes

LEMMA StepSerial ==
  ASSUME SerialInv, AloneOnToken, Inv', NEW r \in Request, Step(r)
  PROVE  SerialInv'
<1>1. CASE Refuse(r) \/ Answer(r) \/ LoseAnswer(r)
  <2>1. /\ pc'[r] = "idle" /\ UNCHANGED <<row, spurned>>
        /\ \A q \in Request \ {r} :
             pc'[q] = pc[q] /\ req'[q] = req[q] /\ seen'[q] = seen[q] /\ stamp'[q] = stamp[q]
    BY <1>1 DEF SerialInv, Inv, TypeOK, Refuse, Answer, LoseAnswer, Finish, history
  <2>2. CopyOK(r)'
    BY <2>1 DEF CopyOK
  <2> QED
    BY <2>1, <2>2, QuietSerial
<1>2. CASE Lookup(r)
  <2>1. CopyOK(r)'
    BY <1>2 DEF SerialInv, Inv, TypeOK, Lookup, CopyOK
  <2>2. \A q \in Request \ {r} :
             pc'[q] = pc[q] /\ req'[q] = req[q] /\ seen'[q] = seen[q] /\ stamp'[q] = stamp[q]
    BY <1>2 DEF SerialInv, Inv, TypeOK, Lookup
  <2> QED
    BY <1>2, <2>1, <2>2, QuietSerial DEF Lookup, history
<1>3. CASE DetectReplay(r) \/ \E t \in Token : Accept(r, t)
  <2>1. /\ pc[r] = "check" /\ seen[r] # None /\ stamp'[r] = now
        /\ pc'[r] \in {"rotate", "revoke"} /\ UNCHANGED <<row, req, seen, spurned>>
        /\ pc'[r] = "rotate" => ~seen[r].consumed /\ ~Expired(seen[r], now)
        /\ \A q \in Request \ {r} :
             pc'[q] = pc[q] /\ req'[q] = req[q] /\ seen'[q] = seen[q] /\ stamp'[q] = stamp[q]
    BY <1>3 DEF SerialInv, Inv, TypeOK, DetectReplay, Accept, Replay, Acceptable, history
  <2>2. seen[r] = row[req[r].token] \/ Live(seen[r].family) = {}
    BY <2>1 DEF SerialInv, CopyOK
  <2>3. seen[r].expires \in Nat /\ now \in Nat
    BY <2>1 DEF SerialInv, Inv, TypeOK, Row
  <2>4. (Live(seen[r].family) = {})' <=> (Live(seen[r].family) = {})
    BY <2>1 DEF Live, Stored
  <2>5. CopyOK(r)'
    <3>1. CASE seen[r] = row[req[r].token]
      BY <2>1, <2>3, <3>1 DEF CopyOK, Rotatable, Expired
    <3>2. CASE Live(seen[r].family) = {}
      BY <2>4, <3>2 DEF CopyOK
    <3> QED
      BY <2>2, <3>1, <3>2
  <2> QED
    BY <2>1, <2>5, QuietSerial
<1> QED
  BY <1>1, <1>2, <1>3, RotateSerial, RevokeSerial, LoseRaceSerial DEF Step

\* A family is opened under a name no token bears.
LEMMA IssueSerial ==
  ASSUME SerialInv, Inv', NEW f \in Family, NEW u \in Token, NEW c \in Client,
         NEW s \in SUBSET Scope, IssueFamily(f, u, c, s)
  PROVE  SerialInv'
<1>1. /\ row[u] = None /\ Stored(f) = {} /\ row'[u].family = f
      /\ UNCHANGED <<pc, req, seen, stamp, spurned>>
      /\ \A t \in Token \ {u} : row'[t] = row[t]
  BY DEF SerialInv, Inv, TypeOK, IssueFamily, Fresh, local
<1>2. ASSUME NEW t \in Token, row[t] # None
      PROVE  row'[t] = row[t] /\ (Live(row[t].family) = {} => (Live(row[t].family) = {})')
  <2>1. row'[t] = row[t] /\ row[t].family # f
    BY <1>1, <1>2 DEF Stored
  <2> QED
    BY <1>1, <2>1 DEF Live, Stored
<1>3. ASSUME NEW q \in Request PROVE CopyOK(q)'
  <2>1. CASE seen[q] # None
    <3>1. /\ req[q].token \in Token /\ row[req[q].token] # None
          /\ seen[q].family = row[req[q].token].family
      BY <2>1 DEF SerialInv, Inv, SnapshotOK
    <3>2. row'[req[q].token] = row[req[q].token]
      BY <1>2, <3>1
    <3>3. (Live(seen[q].family) = {}) => (Live(seen[q].family) = {})'
      BY <1>1, <1>2, <3>1, <3>2
    <3>4. CopyOK(q)
      BY DEF SerialInv
    <3> QED
      BY <1>1, <3>2, <3>3, <3>4 DEF CopyOK, Rotatable
  <2>2. CASE seen[q] = None
    BY <1>1, <2>2 DEF SerialInv, Inv, StageOK, CopyOK
  <2> QED
    BY <2>1, <2>2
<1>4. ASSUME NEW t \in spurned PROVE row'[t] # None /\ (Live(row[t].family) = {})'
  <2>1. t \in Token /\ row[t] # None /\ Live(row[t].family) = {}
    BY DEF SerialInv, Inv, TypeOK, SpurnedStored, SecondUseRevokes
  <2> QED
    BY <1>2, <2>1
<1> QED
  BY <1>1, <1>3, <1>4 DEF SerialInv, SpurnedStored, SecondUseRevokes

LEMMA NextSerial ==
  ASSUME SerialInv, AloneOnToken, [Next]_vars
  PROVE  SerialInv'
<1>1. Inv'
  BY NextInv DEF SerialInv
<1>2. ASSUME NEW r \in Request, NEW c \in Client, NEW v \in Token \union {None},
             NEW s \in SUBSET Scope, Receive(r, c, v, s)
      PROVE  SerialInv'
  <2>1. /\ pc'[r] = "lookup" /\ UNCHANGED <<row, seen, stamp, spurned>>
        /\ \A q \in Request \ {r} : pc'[q] = pc[q] /\ req'[q] = req[q]
    BY <1>2 DEF SerialInv, Inv, TypeOK, Receive, history
  <2>2. CopyOK(r)'
    BY <2>1 DEF CopyOK
  <2> QED
    BY <1>1, <2>1, <2>2, QuietSerial
<1>3. CASE Crash
  <2>1. \A q \in Request : CopyOK(q)'
    BY <1>3 DEF Crash, CopyOK
  <2>2. SpurnedStored' /\ SecondUseRevokes'
    BY <1>3 DEF SerialInv, Crash, history, SpurnedStored, SecondUseRevokes, Live, Stored
  <2> QED
    BY <1>1, <2>1, <2>2 DEF SerialInv
<1>4. CASE Tick \/ UNCHANGED vars
  BY <1>1, <1>4 DEF SerialInv, CopyOK, Rotatable, SpurnedStored,
     SecondUseRevokes, Live, Stored, Tick, vars, local, history
<1> QED
  BY <1>1, <1>2, <1>3, <1>4, IssueSerial, StepSerial DEF Next

\* Presenting a used token leaves nothing in its family to redeem, over any
\* adapter and through crashes, as long as presentations of one token do not
\* overlap (RefreshUnrevokedReplay shows what happens if they do).
THEOREM SerialSecondUseKills == Spec /\ []AloneOnToken => []SecondUseRevokes
<1>1. Init => SerialInv
  BY InitInv DEF Init, SerialInv, CopyOK, SpurnedStored, SecondUseRevokes
<1>2. SerialInv /\ AloneOnToken /\ [Next]_vars => SerialInv'
  BY NextSerial
<1>3. SerialInv => SecondUseRevokes
  BY DEF SerialInv
<1> QED
  BY <1>1, <1>2, <1>3, PTL DEF Spec

------------------------------------------------------------------------------
\* The in-memory adapter: requests run alone.

RunAlone == \A q, r \in Request : Running(q) /\ Running(r) => q = r

LEMMA MemoryIsAlone ==
  ASSUME ~Suspends
  PROVE  Spec => []AloneOnToken
<1>1. Init => RunAlone
  BY DEF Init, RunAlone, Running
<1>2. ASSUME TypeOK, RunAlone, [Next]_vars PROVE RunAlone'
  <2>1. ASSUME NEW r \in Request, Scheduled({r}), pc' = [pc EXCEPT ![r] = "lookup"]
        PROVE  RunAlone'
    BY <1>2, <2>1 DEF TypeOK, Scheduled, RunAlone, Running
  <2>2. ASSUME NEW r \in Request, NEW to, Running(r) \/ to = "idle",
               pc' = [pc EXCEPT ![r] = to]
        PROVE  RunAlone'
    BY <1>2, <2>2 DEF TypeOK, RunAlone, Running
  <2>3. CASE pc' = pc
    BY <1>2, <2>3 DEF RunAlone, Running
  <2>4. ASSUME NEW r \in Request, Step(r) PROVE RunAlone'
    BY <2>2, <2>4 DEF Step, Lookup, Refuse, DetectReplay, Accept, Rotate, LoseRace, Revoke,
       Answer, LoseAnswer, Finish, Running
  <2> QED
    BY <1>2, <2>1, <2>3, <2>4 DEF Next, IssueFamily, Receive, Crash, Tick, vars, local
<1>3. RunAlone => AloneOnToken
  BY DEF RunAlone, AloneOnToken
<1> QED
  BY <1>1, <1>2, <1>3, TypeCorrect, PTL DEF Spec

\* Presenting a used token leaves nothing in its family to redeem.
THEOREM SecondUseKills ==
  ASSUME ~Suspends
  PROVE  Spec => []SecondUseRevokes
  BY MemoryIsAlone, SerialSecondUseKills, PTL
==============================================================================
