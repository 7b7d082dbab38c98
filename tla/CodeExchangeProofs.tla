------------------------- MODULE CodeExchangeProofs --------------------------
(***************************************************************************)
(* Proofs about CodeExchange, for any number of codes, clients and         *)
(* overlapping requests.  consume is the only step at which requests       *)
(* compete, so the invariant says that a consumed code has one holder at   *)
(* most (Sole), which works on the row as it will stay (HolderOK) and      *)
(* finds nothing minted for it yet.                                        *)
(***************************************************************************)
EXTENDS CodeExchange, TLAPS

Holds(r) == pc[r] \in {"check", "save", "answer"}

\* What a request knows at a program point.
HolderOK(r) ==
  /\ pc[r] # "idle" => req[r] \in Params
  /\ Holds(r) => /\ req[r].code \in Code
                 /\ row[req[r].code] \in Row /\ row[req[r].code].consumed
                 /\ seen[r] = row[req[r].code]
  /\ pc[r] = "check" => mints[req[r].code] = 0
  /\ pc[r] \in {"save", "answer"} => /\ mints[req[r].code] = 1
                                     /\ req[r].client = row[req[r].code].client
  /\ pc[r] = "save" => opened[req[r].code] = 0 /\ req[r].client \in Refreshing
  /\ pc[r] = "answer" =>
       opened[req[r].code] = IF row[req[r].code].client \in Refreshing THEN 1 ELSE 0

Sole == \A r, q \in Request : Holds(r) /\ Holds(q) /\ req[r].code = req[q].code => r = q

\* What a grant has in common with the row it was made from.
Matches(g, d) ==
  /\ g.client = row[d].client /\ g.user = row[d].user
  /\ S256(g.verifier) = row[d].challenge
  /\ g.scope = row[d].scope

\* A row against what was given for its code.
CodeOK(d) ==
  /\ mints[d] <= 1 /\ opened[d] <= mints[d]
  /\ mints[d] # 0 => row[d] # None /\ row[d].consumed /\ granted[d] # {}
  /\ row[d] # None => row[d].scope \subseteq AllowedScopes[row[d].client]
  /\ \A g \in granted[d] : row[d] # None /\ Matches(g, d)
  /\ row[d] # None /\ row[d].consumed =>
       mints[d] = 1 \/ Holding(d) # {} \/ d \in burnt \union dropped

Inv ==
  /\ TypeOK
  /\ \A r \in Request : HolderOK(r)
  /\ Sole
  /\ \A d \in Code : CodeOK(d)

------------------------------------------------------------------------------
\* Helpers.

LEMMA Challenges ==
  ASSUME NEW v \in Verifier
  PROVE  S256(v) \in {S256(w) : w \in Verifier}
  OBVIOUS

\* The row a consume in progress would match.
LEMMA Matched ==
  ASSUME Inv, NEW r \in Request, pc[r] = "consume", Consumable(req[r].code, stamp[r])
  PROVE  /\ req[r].code \in Code /\ row[req[r].code] \in Row /\ ~row[req[r].code].consumed
         /\ mints[req[r].code] = 0
<1>1. req[r].code \in Code
  BY DEF Inv, HolderOK, Params, Consumable
<1>2. row[req[r].code] \in Row /\ ~row[req[r].code].consumed
  BY <1>1 DEF Inv, TypeOK, Consumable
<1> QED
  BY <1>1, <1>2 DEF Inv, CodeOK

\* A request keeps what it knows while its row and its ledger stand still.
LEMMA HolderKept ==
  ASSUME Inv, NEW q \in Request, pc'[q] = pc[q], req'[q] = req[q], seen'[q] = seen[q],
         Holds(q) => /\ row'[req[q].code] = row[req[q].code]
                     /\ mints'[req[q].code] = mints[req[q].code]
                     /\ opened'[req[q].code] = opened[req[q].code]
  PROVE  HolderOK(q)'
<1>1. CASE Holds(q)
  BY <1>1 DEF Inv, HolderOK, Holds
<1>2. CASE ~Holds(q)
  BY <1>2 DEF Inv, HolderOK, Holds
<1> QED
  BY <1>1, <1>2

LEMMA FinishLocal ==
  ASSUME TypeOK, NEW r \in Request, Finish(r)
  PROVE  /\ pc' \in [Request -> {"idle", "consume", "check", "save", "answer"}]
         /\ req' \in [Request -> Params \union {None}]
         /\ seen' \in [Request -> Row \union {None}]
         /\ stamp' \in [Request -> Nat]
         /\ pc'[r] = "idle"
         /\ \A q \in Request \ {r} :
              pc'[q] = pc[q] /\ req'[q] = req[q] /\ seen'[q] = seen[q]
  BY DEF TypeOK, Finish

\* A request ends without touching the store.  If it held a code, the code is
\* accounted for by what it bought or by what became of the request.
LEMMA FinishInv ==
  ASSUME Inv, NEW r \in Request, Finish(r), UNCHANGED <<row, now, granted, mints, opened, dropped>>,
         burnt' \in SUBSET Code, burnt \subseteq burnt',
         Holds(r) => mints[req[r].code] = 1 \/ req[r].code \in burnt'
  PROVE  Inv'
<1>1. TypeOK'
  BY FinishLocal DEF Inv, TypeOK
<1>2. ASSUME NEW q \in Request PROVE HolderOK(q)'
  <2>1. CASE q = r
    BY <2>1, FinishLocal DEF Inv, HolderOK, Holds
  <2>2. CASE q # r
    BY <2>2, FinishLocal, HolderKept DEF Inv
  <2> QED
    BY <2>1, <2>2
<1>3. Sole'
  BY FinishLocal DEF Inv, Sole, Holds
<1>4. ASSUME NEW d \in Code PROVE CodeOK(d)'
  <2>1. ASSUME row[d] # None, row[d].consumed, mints[d] # 1, d \notin burnt' \union dropped
        PROVE  Holding(d)' # {}
    <3>1. PICK q \in Request : Holds(q) /\ req[q].code = d
      BY <2>1 DEF Inv, CodeOK, Holding, Holds
    <3>2. q # r
      BY <2>1, <3>1
    <3> QED
      BY <3>1, <3>2, FinishLocal DEF Inv, Holding, Holds
  <2> QED
    BY <2>1 DEF Inv, CodeOK, Matches
<1> QED
  BY <1>1, <1>2, <1>3, <1>4 DEF Inv

------------------------------------------------------------------------------
\* The actions.

LEMMA IssueCodeInv ==
  ASSUME Inv, NEW d \in Code, NEW c \in Client, NEW u \in User, NEW s \in SUBSET Scope,
         NEW x \in Redirect, NEW v \in Verifier, IssueCode(d, c, u, s, x, S256(v))
  PROVE  Inv'
<1> DEFINE new == [client |-> c, user |-> u, scope |-> GrantedScope(c, s), redirect |-> x,
                   challenge |-> S256(v), expires |-> Deadline, consumed |-> FALSE]
<1>1. GrantedScope(c, s) \in SUBSET Scope /\ GrantedScope(c, s) \subseteq AllowedScopes[c]
  BY ConstantsAssumption DEF GrantedScope, IssueCode, Grantable
<1>2. new \in Row
  BY <1>1, Challenges, ConstantsAssumption DEF Inv, TypeOK, Row, Deadline
<1>3. ~new.consumed /\ new.scope \subseteq AllowedScopes[new.client] /\ new # None
  BY <1>1, <1>2, ConstantsAssumption
<1>4. row[d] = None /\ row' = [row EXCEPT ![d] = new]
      /\ UNCHANGED <<now, pc, req, seen, stamp, granted, mints, opened, burnt, dropped>>
  BY DEF IssueCode, local, history
<1> HIDE DEF new
<1>5. TypeOK'
  BY <1>2, <1>4 DEF Inv, TypeOK
<1>6. ASSUME NEW q \in Request PROVE HolderOK(q)'
  <2>1. Holds(q) => req[q].code # d
    BY <1>4, ConstantsAssumption DEF Inv, HolderOK
  <2>2. Holds(q) => row'[req[q].code] = row[req[q].code]
    BY <1>4, <2>1 DEF Inv, TypeOK, HolderOK
  <2> QED
    BY <1>4, <2>2, HolderKept
<1>7. Sole'
  BY <1>4 DEF Inv, Sole, Holds
<1>8. ASSUME NEW e \in Code PROVE CodeOK(e)'
  <2>1. CASE e = d
    BY <1>3, <1>4, <2>1 DEF Inv, TypeOK, CodeOK
  <2>2. CASE e # d
    BY <1>4, <2>2 DEF Inv, TypeOK, CodeOK, Matches, Holding
  <2> QED
    BY <2>1, <2>2
<1> QED
  BY <1>5, <1>6, <1>7, <1>8 DEF Inv

LEMMA ReceiveInv ==
  ASSUME Inv, NEW r \in Request, NEW p \in Params, Receive(r, p)
  PROVE  Inv'
<1>1. TypeOK'
  BY DEF Inv, TypeOK, Receive, Goto, history
<1>2. /\ pc'[r] = "consume" /\ req'[r] = p
      /\ \A q \in Request \ {r} : pc'[q] = pc[q] /\ req'[q] = req[q]
      /\ pc[r] = "idle"
      /\ UNCHANGED <<row, seen, granted, mints, opened, burnt, dropped>>
  BY DEF Inv, TypeOK, Receive, Goto, history
<1>3. ASSUME NEW q \in Request PROVE HolderOK(q)'
  <2>1. CASE q = r
    BY <1>2, <2>1 DEF HolderOK, Holds
  <2>2. CASE q # r
    BY <1>2, <2>2, HolderKept
  <2> QED
    BY <2>1, <2>2
<1>4. Sole'
  BY <1>2 DEF Inv, Sole, Holds
<1>5. ASSUME NEW d \in Code PROVE CodeOK(d)'
  <2>1. Holding(d)' = Holding(d)
    BY <1>2 DEF Holding
  <2> QED
    BY <1>2, <2>1 DEF Inv, CodeOK, Matches
<1> QED
  BY <1>1, <1>3, <1>4, <1>5 DEF Inv

\* Nobody holds a code that is not consumed, so the winner is its only holder.
LEMMA ConsumeInv ==
  ASSUME Inv, NEW r \in Request, Consume(r)
  PROVE  Inv'
<1> DEFINE d == req[r].code
           new == [row[d] EXCEPT !.consumed = TRUE]
<1>1. pc[r] = "consume" /\ pc' = [pc EXCEPT ![r] = "check"]
  BY DEF Consume, Goto
<1>2. d \in Code /\ row[d] \in Row /\ ~row[d].consumed /\ mints[d] = 0
  BY <1>1, Matched DEF Consume
<1>3. /\ new \in Row /\ new.consumed
      /\ new.client = row[d].client /\ new.scope = row[d].scope
      /\ new.user = row[d].user /\ new.challenge = row[d].challenge
  BY <1>2 DEF Row
<1>4. row' = [row EXCEPT ![d] = new] /\ seen' = [seen EXCEPT ![r] = new]
  BY <1>2 DEF Inv, TypeOK, Consume
<1>5. UNCHANGED <<now, req, stamp, granted, mints, opened, burnt, dropped>>
  BY DEF Consume, history
<1>6. \A q \in Request : Holds(q) => req[q].code # d
  BY <1>2 DEF Inv, HolderOK
<1> HIDE DEF new
<1>7. TypeOK'
  BY <1>1, <1>2, <1>3, <1>4, <1>5 DEF Inv, TypeOK
<1>8. ASSUME NEW q \in Request PROVE HolderOK(q)'
  <2>1. CASE q = r
    <3>1. /\ pc'[r] = "check" /\ req'[r] = req[r] /\ seen'[r] = new /\ row'[d] = new
          /\ mints'[d] = 0 /\ req[r] \in Params
      BY <1>1, <1>2, <1>4, <1>5 DEF Inv, TypeOK, HolderOK
    <3> QED
      BY <1>2, <1>3, <2>1, <3>1 DEF HolderOK, Holds
  <2>2. CASE q # r
    <3>1. Holds(q) => row'[req[q].code] = row[req[q].code]
      BY <1>4, <1>6 DEF Inv, TypeOK, HolderOK
    <3> QED
      BY <1>1, <1>4, <1>5, <2>2, <3>1, HolderKept DEF Inv, TypeOK
  <2> QED
    BY <2>1, <2>2
<1>9. Sole'
  BY <1>1, <1>5, <1>6 DEF Inv, TypeOK, Sole, Holds
<1>10. ASSUME NEW e \in Code PROVE CodeOK(e)'
  <2>1. CASE e = d
    <3>1. r \in Holding(d)'
      BY <1>1, <1>5 DEF Inv, TypeOK, Holding
    <3>2. row'[d] = new /\ row[d] # None /\ new # None
      BY <1>2, <1>3, <1>4, ConstantsAssumption DEF Inv, TypeOK
    <3> QED
      BY <1>2, <1>3, <1>5, <2>1, <3>1, <3>2 DEF Inv, CodeOK, Matches
  <2>2. CASE e # d
    <3>1. row'[e] = row[e]
      BY <1>4, <2>2 DEF Inv, TypeOK
    <3>2. Holding(e) \subseteq Holding(e)'
      BY <1>1, <1>5 DEF Inv, TypeOK, Holding
    <3> QED
      BY <1>5, <3>1, <3>2 DEF Inv, CodeOK, Matches
  <2> QED
    BY <2>1, <2>2
<1> QED
  BY <1>7, <1>8, <1>9, <1>10 DEF Inv

\* The refusals and the answer.
LEMMA EndInv ==
  ASSUME Inv, NEW r \in Request, RefuseCode(r) \/ RefuseBinding(r) \/ Answer(r)
  PROVE  Inv'
<1>1. CASE RefuseCode(r)
  BY <1>1, FinishInv DEF Inv, TypeOK, RefuseCode, Holds, history
<1>2. CASE RefuseBinding(r)
  <2>1. req[r].code \in Code
    BY <1>2 DEF Inv, HolderOK, Holds, RefuseBinding
  <2> QED
    BY <1>2, <2>1, FinishInv DEF Inv, TypeOK, RefuseBinding
<1>3. CASE Answer(r)
  <2>1. mints[req[r].code] = 1
    BY <1>3 DEF Inv, HolderOK, Answer
  <2> QED
    BY <1>3, <2>1, FinishInv DEF Inv, TypeOK, Answer, history
<1> QED
  BY <1>1, <1>2, <1>3

LEMMA MintInv ==
  ASSUME Inv, NEW r \in Request, Mint(r)
  PROVE  Inv'
<1> DEFINE d == req[r].code
           g == [client |-> req[r].client, user |-> seen[r].user,
                 scope |-> seen[r].scope, verifier |-> req[r].verifier]
<1>1. pc[r] = "check" /\ pc' = [pc EXCEPT ![r] = AfterMint(req[r].client)]
  BY DEF Mint, Goto
<1>2. /\ d \in Code /\ row[d] \in Row /\ row[d].consumed /\ seen[r] = row[d]
      /\ mints[d] = 0 /\ opened[d] = 0 /\ req[r] \in Params
  BY <1>1 DEF Inv, TypeOK, CodeOK, HolderOK, Holds
<1>3. /\ req[r].client = row[d].client /\ req[r].verifier \in Verifier
      /\ S256(req[r].verifier) = row[d].challenge
  BY <1>2 DEF Mint, Bound, Params
<1>4. g \in Grant
  BY <1>2, <1>3 DEF Grant, Row, Params
<1>5. Matches(g, d)
  BY <1>2, <1>3 DEF Matches
<1>6. /\ granted' = [granted EXCEPT ![d] = granted[d] \union {g}]
      /\ mints' = [mints EXCEPT ![d] = 1]
      /\ UNCHANGED <<row, now, req, seen, stamp, opened, burnt, dropped>>
  BY <1>2 DEF Mint, More, Inv, TypeOK, local
<1> HIDE DEF g
<1>7. TypeOK'
  BY <1>1, <1>2, <1>4, <1>6 DEF Inv, TypeOK, AfterMint
<1>8. ASSUME NEW q \in Request PROVE HolderOK(q)'
  <2>1. CASE q = r
    BY <1>1, <1>2, <1>3, <1>6, <2>1 DEF Inv, TypeOK, HolderOK, Holds, AfterMint
  <2>2. CASE q # r
    <3>1. Holds(q) => req[q].code # d
      BY <1>1, <2>2 DEF Inv, Sole, Holds
    <3> QED
      BY <1>1, <1>6, <2>2, <3>1, HolderKept DEF Inv, TypeOK, HolderOK
  <2> QED
    BY <2>1, <2>2
<1>9. Sole'
  BY <1>1, <1>6 DEF Inv, TypeOK, Sole, Holds
<1>10. ASSUME NEW e \in Code PROVE CodeOK(e)'
  <2>1. CASE e = d
    <3>1. granted'[d] = granted[d] \union {g} /\ mints'[d] = 1 /\ row[d] # None
      BY <1>2, <1>6, ConstantsAssumption DEF Inv, TypeOK
    <3> QED
      BY <1>2, <1>5, <1>6, <2>1, <3>1 DEF Inv, CodeOK, Matches
  <2>2. CASE e # d
    <3>1. granted'[e] = granted[e] /\ mints'[e] = mints[e]
      BY <1>6, <2>2 DEF Inv, TypeOK
    <3>2. Holding(e) \subseteq Holding(e)'
      BY <1>1, <1>6, <2>2 DEF Inv, TypeOK, Holding
    <3> QED
      BY <1>6, <3>1, <3>2 DEF Inv, CodeOK, Matches
  <2> QED
    BY <2>1, <2>2
<1> QED
  BY <1>7, <1>8, <1>9, <1>10 DEF Inv

LEMMA SaveRefreshInv ==
  ASSUME Inv, NEW r \in Request, SaveRefresh(r)
  PROVE  Inv'
<1> DEFINE d == req[r].code
<1>1. pc[r] = "save" /\ pc' = [pc EXCEPT ![r] = "answer"]
  BY DEF SaveRefresh, Goto
<1>2. /\ d \in Code /\ mints[d] = 1 /\ opened[d] = 0
      /\ row[d].client \in Refreshing /\ HolderOK(r)
  BY <1>1 DEF Inv, HolderOK, Holds
<1>3. opened' = [opened EXCEPT ![d] = 1]
      /\ UNCHANGED <<row, now, req, seen, stamp, granted, mints, burnt, dropped>>
  BY <1>2 DEF SaveRefresh, More, Inv, TypeOK, local
<1>4. TypeOK'
  <2>1. opened' \in [Code -> 0 .. 2]
    BY <1>2, <1>3 DEF Inv, TypeOK
  <2>2. pc' \in [Request -> {"idle", "consume", "check", "save", "answer"}]
    BY <1>1 DEF Inv, TypeOK
  <2> QED
    BY <1>3, <2>1, <2>2 DEF Inv, TypeOK
<1>5. ASSUME NEW q \in Request PROVE HolderOK(q)'
  <2>1. CASE q = r
    BY <1>1, <1>2, <1>3, <2>1 DEF Inv, TypeOK, HolderOK, Holds
  <2>2. CASE q # r
    <3>1. Holds(q) => req[q].code # d
      BY <1>1, <2>2 DEF Inv, Sole, Holds
    <3> QED
      BY <1>1, <1>3, <2>2, <3>1, HolderKept DEF Inv, TypeOK, HolderOK
  <2> QED
    BY <2>1, <2>2
<1>6. Sole'
  BY <1>1, <1>3 DEF Inv, TypeOK, Sole, Holds
<1>7. ASSUME NEW e \in Code PROVE CodeOK(e)'
  <2>1. Holding(e) = Holding(e)'
    BY <1>1, <1>3 DEF Inv, TypeOK, Holding
  <2>2. opened'[e] <= mints'[e]
    BY <1>2, <1>3 DEF Inv, TypeOK, CodeOK
  <2> QED
    BY <1>3, <2>1, <2>2 DEF Inv, CodeOK, Matches
<1> QED
  BY <1>4, <1>5, <1>6, <1>7 DEF Inv

\* A crash drops every code that was held.
LEMMA CrashInv ==
  ASSUME Inv, Crash
  PROVE  Inv'
<1>1. TypeOK'
  BY DEF Inv, TypeOK, Crash
<1>2. Sole' /\ \A r \in Request : HolderOK(r)'
  BY DEF Crash, Sole, HolderOK, Holds
<1>3. \A d \in Code : CodeOK(d)'
  BY DEF Inv, CodeOK, Matches, Crash
<1> QED
  BY <1>1, <1>2, <1>3 DEF Inv

LEMMA NextInv ==
  ASSUME Inv, [Next]_vars
  PROVE  Inv'
<1>1. CASE Tick
  BY <1>1 DEF Inv, TypeOK, HolderOK, Holds, Sole, CodeOK, Matches, Holding, Tick, local, history
<1>2. CASE UNCHANGED vars
  BY <1>2 DEF Inv, TypeOK, HolderOK, Holds, Sole, CodeOK, Matches, Holding, vars, local, history
<1>3. CASE Exchange
  BY <1>3, ReceiveInv, ConsumeInv, EndInv, MintInv, SaveRefreshInv, CrashInv DEF Exchange, Step
<1> QED
  BY <1>1, <1>2, <1>3, IssueCodeInv DEF Next

\* Inv holds in every reachable state.
THEOREM InvHolds == Spec => []Inv
<1>1. Init => Inv
  BY ConstantsAssumption DEF Init, Inv, TypeOK, HolderOK, Holds, Sole, CodeOK
<1>2. Inv /\ [Next]_vars => Inv'
  BY NextInv
<1> QED
  BY <1>1, <1>2, PTL DEF Spec

\* Every variable keeps its type.
THEOREM TypeCorrect == Spec => []TypeOK
<1>1. Inv => TypeOK
  BY DEF Inv
<1> QED
  BY <1>1, InvHolds, PTL

\* However exchanges overlap and whenever the process dies, a code buys one
\* access token and one refresh family at most.
THEOREM CodesBuyOnce == Spec => []CodeBuysOnce
<1>1. Inv => CodeBuysOnce
  BY DEF Inv, CodeOK, CodeBuysOnce
<1> QED
  BY <1>1, InvHolds, PTL

\* What a code bought is what it was bound to.
THEOREM GrantsMatchTheirCode == Spec => []GrantMatchesCode
<1>1. Inv => GrantMatchesCode
  BY DEF Inv, CodeOK, Matches, GrantMatchesCode
<1> QED
  BY <1>1, InvHolds, PTL

\* A consumed code has bought its tokens, is being worked on, or has failed for
\* a reason; and no client is answered with half of what it is entitled to.
THEOREM EveryCodeAccounted == Spec => []CodesAccounted
<1>1. Inv => CodesAccounted
  BY DEF Inv, CodeOK, HolderOK, Holding, CodesAccounted
<1> QED
  BY <1>1, InvHolds, PTL

------------------------------------------------------------------------------
\* The refinement of OneTimeGrant.

\* The mapping, read off the invariant: until its code is lost an approval stands
\* for the terms in the row.
Standing(d) ==
  IF mints[d] = 1 THEN "spent"
  ELSE IF row[d] = None THEN "new"
  ELSE IF ~row[d].consumed THEN "approved"
  ELSE IF Holding(d) # {} THEN "claimed" ELSE "lost"

Due(d) == IF Standing(d) \in {"new", "lost"} THEN None ELSE TermsOf(row[d])

MapOK ==
  /\ codeState = [d \in Code |-> Standing(d)]
  /\ codeTerms = [d \in Code |-> Due(d)]

LEMMA MapReads == Inv => MapOK
<1> SUFFICES ASSUME Inv PROVE MapOK
  OBVIOUS
<1>1. ASSUME NEW d \in Code PROVE StateOf(d) = Standing(d)
  <2>1. mints[d] = 0 \/ mints[d] = 1
    BY DEF Inv, TypeOK, CodeOK
  <2>2. row[d] # None => row[d].consumed \in BOOLEAN
    BY DEF Inv, TypeOK, Row
  <2>3. CASE mints[d] = 1
    BY <2>3 DEF StateOf, Standing
  <2>4. CASE mints[d] = 0 /\ (row[d] = None \/ ~row[d].consumed)
    BY <2>4 DEF StateOf, Standing
  <2>5. CASE mints[d] = 0 /\ row[d] # None /\ row[d].consumed
    BY <2>5 DEF StateOf, Standing
  <2> QED
    BY <2>1, <2>2, <2>3, <2>4, <2>5
<1>2. ASSUME NEW d \in Code PROVE DueFor(d) = Due(d)
  <2>1. CASE Standing(d) = "spent"
    <3>1. mints[d] = 1
      BY <2>1 DEF Standing
    <3>2. (CHOOSE g \in granted[d] : TRUE) \in granted[d]
      BY <3>1 DEF Inv, CodeOK
    <3>3. TermsOfGrant(CHOOSE g \in granted[d] : TRUE) = TermsOf(row[d])
      BY <3>2 DEF Inv, CodeOK, Matches, TermsOf, TermsOfGrant
    <3>4. DueFor(d) = TermsOfGrant(CHOOSE g \in granted[d] : TRUE)
      BY <1>1, <2>1 DEF DueFor
    <3> QED
      BY <2>1, <3>3, <3>4 DEF Due
  <2>2. CASE Standing(d) # "spent"
    BY <1>1, <2>2 DEF DueFor, Due, Standing
  <2> QED
    BY <2>1, <2>2
<1> QED
  BY <1>1, <1>2 DEF MapOK, codeState, codeTerms

LEMMA MapReadsNext == Inv' => MapOK'
  BY MapReads, PTL

\* A code looks the same as long as its row, what it bought and whether anybody
\* holds it do.
LEMMA CodeStays ==
  ASSUME NEW d \in Code, row'[d] = row[d], mints'[d] = mints[d],
         mints[d] = 1 \/ (Holding(d)' = {} <=> Holding(d) = {})
  PROVE  Standing(d)' = Standing(d) /\ Due(d)' = Due(d)
<1>1. Standing(d)' = Standing(d)
  BY DEF Standing
<1> QED
  BY <1>1 DEF Due

LEMMA AllStay ==
  ASSUME Inv, Inv', \A d \in Code : Standing(d)' = Standing(d) /\ Due(d)' = Due(d)
  PROVE  UNCHANGED Grants!vars
<1>1. codeState' = [d \in Code |-> Standing(d)'] /\ codeTerms' = [d \in Code |-> Due(d)']
  BY MapReadsNext DEF MapOK
<1>2. codeState = [d \in Code |-> Standing(d)] /\ codeTerms = [d \in Code |-> Due(d)]
  BY MapReads DEF MapOK
<1>3. codeState' = codeState /\ codeTerms' = codeTerms
  BY <1>1, <1>2
<1> QED
  BY <1>3 DEF Grants!vars

LEMMA OneMoves ==
  ASSUME Inv, Inv', NEW d \in Code,
         \A e \in Code \ {d} : Standing(e)' = Standing(e) /\ Due(e)' = Due(e)
  PROVE  /\ codeState[d] = Standing(d)
         /\ codeState' = [codeState EXCEPT ![d] = Standing(d)']
         /\ codeTerms' = [codeTerms EXCEPT ![d] = Due(d)']
         /\ Due(d)' = Due(d) => codeTerms' = codeTerms
<1>1. codeState' = [e \in Code |-> Standing(e)'] /\ codeTerms' = [e \in Code |-> Due(e)']
  BY MapReadsNext DEF MapOK
<1>2. codeState = [e \in Code |-> Standing(e)] /\ codeTerms = [e \in Code |-> Due(e)]
  BY MapReads DEF MapOK
<1> QED
  BY <1>1, <1>2

\* An approval saves a code nobody has seen.
LEMMA IssueIsApprove ==
  ASSUME Inv, Inv', NEW d \in Code, NEW c \in Client, NEW u \in User, NEW s \in SUBSET Scope,
         NEW x \in Redirect, NEW v \in Verifier, IssueCode(d, c, u, s, x, S256(v))
  PROVE  Grants!Next
<1> DEFINE new == [client |-> c, user |-> u, scope |-> GrantedScope(c, s), redirect |-> x,
                   challenge |-> S256(v), expires |-> Deadline, consumed |-> FALSE]
           t == TermsOf(new)
<1>1. /\ row[d] = None /\ row' = [row EXCEPT ![d] = new]
      /\ UNCHANGED <<pc, req, mints>>
  BY DEF IssueCode, local, history
<1>2. GrantedScope(c, s) \in SUBSET Scope
  BY ConstantsAssumption DEF GrantedScope
<1>3. t \in [client : Client, user : User, scope : SUBSET Scope,
             challenge : {S256(w) : w \in Verifier}]
  BY <1>2 DEF TermsOf
<1>4. ~new.consumed
  OBVIOUS
<1> HIDE DEF new
<1>5. mints[d] = 0
  BY <1>1 DEF Inv, CodeOK
<1>6. row'[d] = new /\ new # None
  <2>1. new \in Row
    BY <1>1, <1>2, Challenges, ConstantsAssumption DEF new, Inv, TypeOK, Row, Deadline
  <2> QED
    BY <1>1, <2>1, ConstantsAssumption DEF Inv, TypeOK
<1>7. Standing(d) = "new" /\ Standing(d)' = "approved" /\ Due(d)' = t
  BY <1>1, <1>4, <1>5, <1>6 DEF Standing, Due
<1>8. \A e \in Code \ {d} : Standing(e)' = Standing(e) /\ Due(e)' = Due(e)
  <2> SUFFICES ASSUME NEW e \in Code \ {d} PROVE Standing(e)' = Standing(e) /\ Due(e)' = Due(e)
    OBVIOUS
  <2>1. row'[e] = row[e] /\ Holding(e)' = Holding(e)
    BY <1>1 DEF Inv, TypeOK, Holding
  <2> QED
    BY <1>1, <2>1, CodeStays
<1>9. Grants!Approve(d, t)
  BY <1>7, <1>8, OneMoves DEF Grants!Approve, Grants!Moves
<1> QED
  BY <1>3, <1>9 DEF Grants!Next

\* The request that consumes a code claims it.
LEMMA ConsumeIsClaim ==
  ASSUME Inv, Inv', NEW r \in Request, Consume(r)
  PROVE  Grants!Next
<1>0. PICK d \in Code : d = req[r].code
  BY Matched DEF Consume, Goto
<1> DEFINE new == [row[d] EXCEPT !.consumed = TRUE]
<1>1. /\ pc[r] = "consume" /\ pc' = [pc EXCEPT ![r] = "check"]
      /\ UNCHANGED <<req, mints>>
  BY DEF Consume, Goto, history
<1>2. d \in Code /\ row[d] \in Row /\ ~row[d].consumed /\ mints[d] = 0 /\ row[d] # None
  BY <1>0, <1>1, Matched, ConstantsAssumption DEF Consume
<1>3. new.consumed /\ TermsOf(new) = TermsOf(row[d]) /\ new # None
  <2>1. new \in Row
    BY <1>2 DEF Row
  <2> QED
    BY <1>2, <2>1, ConstantsAssumption DEF Row, TermsOf
<1>4. row'[d] = new /\ \A e \in Code \ {d} : row'[e] = row[e]
  BY <1>0, <1>2 DEF Inv, TypeOK, Consume
<1> HIDE DEF new
<1>5. r \in Holding(d)'
  BY <1>0, <1>1 DEF Inv, TypeOK, Holding
<1>6. /\ Standing(d) = "approved" /\ Standing(d)' = "claimed"
      /\ Due(d) = TermsOf(row[d]) /\ Due(d)' = Due(d)
  BY <1>1, <1>2, <1>3, <1>4, <1>5 DEF Standing, Due
<1>7. \A e \in Code \ {d} : Standing(e)' = Standing(e) /\ Due(e)' = Due(e)
  <2> SUFFICES ASSUME NEW e \in Code \ {d} PROVE Standing(e)' = Standing(e) /\ Due(e)' = Due(e)
    OBVIOUS
  <2>1. Holding(e)' = Holding(e)
    BY <1>0, <1>1 DEF Inv, TypeOK, Holding
  <2> QED
    BY <1>1, <1>4, <2>1, CodeStays
<1>8. /\ codeState[d] = "approved"
      /\ codeState' = [codeState EXCEPT ![d] = "claimed"]
      /\ codeTerms' = codeTerms
  BY <1>2, <1>6, <1>7, OneMoves
<1>9. Grants!Claim(d)
  BY <1>8 DEF Grants!Claim, Grants!Moves
<1> QED
  BY <1>2, <1>9 DEF Grants!Next

\* The holder gets what was approved.
LEMMA MintIsSpend ==
  ASSUME Inv, Inv', NEW r \in Request, Mint(r)
  PROVE  Grants!Next
<1>0. PICK d \in Code : d = req[r].code
  BY DEF Inv, HolderOK, Holds, Mint, Goto, RefuseBinding
<1>1. /\ pc[r] = "check" /\ pc' = [pc EXCEPT ![r] = AfterMint(req[r].client)]
      /\ UNCHANGED <<row, req>> /\ mints' = [mints EXCEPT ![d] = More(@)]
  BY <1>0 DEF Mint, Goto, local
<1>2. d \in Code /\ row[d] # None /\ row[d].consumed /\ mints[d] = 0
  BY <1>0, <1>1, ConstantsAssumption DEF Inv, HolderOK, Holds
<1>3. r \in Holding(d)
  BY <1>0, <1>1 DEF Holding
<1>4. mints'[d] = 1 /\ \A e \in Code \ {d} : mints'[e] = mints[e]
  BY <1>1, <1>2 DEF Inv, TypeOK, More
<1>5. /\ Standing(d) = "claimed" /\ Standing(d)' = "spent"
      /\ Due(d) = TermsOf(row[d]) /\ Due(d)' = Due(d)
  BY <1>1, <1>2, <1>3, <1>4 DEF Standing, Due
<1>6. \A e \in Code \ {d} : Standing(e)' = Standing(e) /\ Due(e)' = Due(e)
  <2> SUFFICES ASSUME NEW e \in Code \ {d} PROVE Standing(e)' = Standing(e) /\ Due(e)' = Due(e)
    OBVIOUS
  <2>1. Holding(e)' = Holding(e)
    BY <1>0, <1>1 DEF Inv, TypeOK, Holding
  <2> QED
    BY <1>1, <1>4, <2>1, CodeStays
<1>7. /\ codeState[d] = "claimed"
      /\ codeState' = [codeState EXCEPT ![d] = "spent"]
      /\ codeTerms' = codeTerms
  BY <1>2, <1>5, <1>6, OneMoves
<1>8. Grants!Spend(d)
  BY <1>7 DEF Grants!Spend, Grants!Moves
<1> QED
  BY <1>2, <1>8 DEF Grants!Next

\* A consumed code that fails a check is lost to everybody.
LEMMA RefusalIsLoss ==
  ASSUME Inv, Inv', NEW r \in Request, RefuseBinding(r)
  PROVE  Grants!Next
<1>0. PICK d \in Code : d = req[r].code
  BY DEF Inv, HolderOK, Holds, Mint, Goto, RefuseBinding
<1>1. pc[r] = "check" /\ Finish(r) /\ UNCHANGED <<row, mints>>
  BY DEF RefuseBinding
<1>2. d \in Code /\ row[d] # None /\ row[d].consumed /\ mints[d] = 0
  BY <1>0, <1>1, ConstantsAssumption DEF Inv, HolderOK, Holds
<1>3. Holding(d) = {r}
  BY <1>0, <1>1 DEF Inv, Sole, Holds, Holding
<1>4. Holding(d)' = Holding(d) \ {r}
  BY <1>0, <1>1, FinishLocal DEF Inv, Holding
<1>5. Holding(d) # {} /\ Holding(d)' = {}
  BY <1>3, <1>4
<1>6. Standing(d) = "claimed" /\ Standing(d)' = "lost" /\ Due(d)' = None
  BY <1>1, <1>2, <1>5 DEF Standing, Due
<1>7. \A e \in Code \ {d} : Standing(e)' = Standing(e) /\ Due(e)' = Due(e)
  <2> SUFFICES ASSUME NEW e \in Code \ {d} PROVE Standing(e)' = Standing(e) /\ Due(e)' = Due(e)
    OBVIOUS
  <2>1. Holding(e)' = Holding(e)
    BY <1>0, <1>1, FinishLocal DEF Inv, Holding
  <2> QED
    BY <1>1, <2>1, CodeStays
<1>8. /\ codeState[d] = "claimed"
      /\ codeState' = [codeState EXCEPT ![d] = "lost"]
      /\ codeTerms' = [codeTerms EXCEPT ![d] = None]
  BY <1>2, <1>6, <1>7, OneMoves
<1>9. Grants!Lose({d}, {})
  BY <1>2, <1>8 DEF Grants!Lose, codeState, codeTerms
<1> QED
  BY <1>2, <1>9 DEF Grants!Next

\* A crash loses every code that was claimed and not spent.
LEMMA CrashIsLoss ==
  ASSUME Inv, Inv', Crash
  PROVE  Grants!Next
<1> DEFINE lost == {d \in Code : Standing(d) = "claimed"}
<1>1. UNCHANGED <<row, mints>> /\ \A d \in Code : Holding(d)' = {}
  BY DEF Crash, Holding
<1>2. ASSUME NEW d \in lost PROVE Standing(d)' = "lost" /\ Due(d)' = None
  BY <1>1 DEF Standing, Due
<1>3. ASSUME NEW d \in Code \ lost PROVE Standing(d)' = Standing(d) /\ Due(d)' = Due(d)
  BY <1>1 DEF Standing, Due
<1>4. /\ codeState = [d \in Code |-> Standing(d)]
      /\ codeTerms = [d \in Code |-> Due(d)]
      /\ codeState' = [d \in Code |-> Standing(d)']
      /\ codeTerms' = [d \in Code |-> Due(d)']
  BY MapReads, MapReadsNext DEF MapOK
<1>5. Grants!Lose(lost, {})
  BY <1>2, <1>3, <1>4 DEF Grants!Lose
<1> QED
  BY <1>5 DEF Grants!Next

\* A request that arrives, or ends with nothing to lose.
LEMMA QuietStays ==
  ASSUME Inv, Inv', NEW r \in Request,
         \/ \E p \in Params : Receive(r, p)
         \/ RefuseCode(r) \/ SaveRefresh(r) \/ Answer(r)
  PROVE  UNCHANGED Grants!vars
<1>1. UNCHANGED <<row, mints>>
  BY DEF Receive, RefuseCode, SaveRefresh, Answer, history
<1>2. ASSUME NEW d \in Code PROVE mints[d] = 1 \/ Holding(d)' = Holding(d)
  <2>1. CASE \E p \in Params : Receive(r, p)
    BY <2>1 DEF Inv, TypeOK, Receive, Goto, Holding
  <2>2. CASE SaveRefresh(r)
    BY <2>2 DEF Inv, TypeOK, SaveRefresh, Goto, local, Holding
  <2>3. CASE RefuseCode(r)
    BY <2>3, FinishLocal DEF Inv, RefuseCode, Holding
  <2>4. CASE Answer(r)
    <3>1. mints[req[r].code] = 1
      BY <2>4 DEF Inv, HolderOK, Answer
    <3> QED
      BY <2>4, <3>1, FinishLocal DEF Inv, Answer, Holding
  <2> QED
    BY <2>1, <2>2, <2>3, <2>4
<1> QED
  BY <1>1, <1>2, CodeStays, AllStay

\* Whoever overlaps with whom and whatever dies, codes do what OneTimeGrant
\* allows: an approval is claimed once and buys what was approved, or is lost.
THEOREM KeepsThePromise == Spec => KeepsPromise
<1>1. Init => Grants!Init
  <2> SUFFICES ASSUME Init PROVE Grants!Init
    OBVIOUS
  <2>1. ASSUME NEW d \in Code PROVE StateOf(d) = "new"
    BY DEF Init, StateOf
  <2>2. ASSUME NEW d \in Code PROVE DueFor(d) = None
    BY <2>1 DEF DueFor
  <2> QED
    BY <2>1, <2>2 DEF Grants!Init, codeState, codeTerms
<1>2. ASSUME Inv, Inv', [Next]_vars PROVE [Grants!Next]_(Grants!vars)
  <2>1. CASE Tick \/ UNCHANGED vars
    <3>1. UNCHANGED <<row, mints, pc, req>>
      BY <2>1 DEF Tick, vars, local, history
    <3>2. \A d \in Code : Holding(d)' = Holding(d)
      BY <3>1 DEF Holding
    <3> QED
      BY <1>2, <3>1, <3>2, CodeStays, AllStay
  <2>2. CASE Crash
    BY <1>2, <2>2, CrashIsLoss
  <2>3. ASSUME NEW r \in Request, Step(r) \/ \E p \in Params : Receive(r, p)
        PROVE  [Grants!Next]_(Grants!vars)
    BY <1>2, <2>3, ConsumeIsClaim, RefusalIsLoss, MintIsSpend, QuietStays DEF Step
  <2> QED
    BY <1>2, <2>1, <2>2, <2>3, IssueIsApprove DEF Next, Exchange
<1> QED
  BY <1>1, <1>2, InvHolds, PTL DEF Spec, KeepsPromise, Grants!Spec
==============================================================================
