----------------------- MODULE AuthorizationFlowProofs -----------------------
(***************************************************************************)
(* The authorization-code flow implements each of its two components, so   *)
(* their invariants hold in it; with the approval behind every row of the  *)
(* code store (RowsApproved) they give EveryTokenWasApproved, for any      *)
(* number of tabs, accounts, clients, codes and overlapping requests.      *)
(***************************************************************************)
EXTENDS AuthorizationFlow, TLAPS

CodeProofs == INSTANCE CodeExchangeProofs
PageProofs == INSTANCE BrowserSessionProofs
                WITH AuthRequest <- AuthorizeRequests, DevicePage <- {}

\* The approval a row was made from.
Approves(v, d) ==
  /\ v.by = row[d].user /\ v.shown = row[d].user
  /\ v.ask.client = row[d].client /\ v.ask.challenge = row[d].challenge
  /\ v.ask.redirect = row[d].redirect

RowsApproved == \A d \in Code : row[d] # None => \E v \in approvals : Approves(v, d)

Inv == CodeProofs!Inv /\ PageProofs!Inv /\ RowsApproved

------------------------------------------------------------------------------
\* The flow implements its components.

\* The modules of the proofs instantiate the components a second time.
LEMMA SameCodes ==
  [Tokens!Next]_(Tokens!vars) <=> [CodeProofs!Next]_(CodeProofs!vars)
  BY Z3
     DEF Tokens!S256, CodeProofs!S256, Tokens!Row, CodeProofs!Row, Tokens!local,
         CodeProofs!local, Tokens!history, CodeProofs!history, Tokens!vars,
         CodeProofs!vars, Tokens!More, CodeProofs!More, Tokens!Consumable,
         CodeProofs!Consumable, Tokens!Bound, CodeProofs!Bound, Tokens!Finish,
         CodeProofs!Finish, Tokens!Goto, CodeProofs!Goto, Tokens!Grantable,
         CodeProofs!Grantable, Tokens!GrantedScope, CodeProofs!GrantedScope,
         Tokens!Deadline, CodeProofs!Deadline, Tokens!IssueCode,
         CodeProofs!IssueCode, Tokens!Receive, CodeProofs!Receive, Tokens!Params,
         CodeProofs!Params, Tokens!Consume, CodeProofs!Consume, Tokens!RefuseCode,
         CodeProofs!RefuseCode, Tokens!RefuseBinding, CodeProofs!RefuseBinding,
         Tokens!AfterMint, CodeProofs!AfterMint, Tokens!Mint, CodeProofs!Mint,
         Tokens!SaveRefresh, CodeProofs!SaveRefresh, Tokens!Answer,
         CodeProofs!Answer, Tokens!Holding, CodeProofs!Holding, Tokens!Crash,
         CodeProofs!Crash, Tokens!Tick, CodeProofs!Tick, Tokens!Step,
         CodeProofs!Step, Tokens!Exchange, CodeProofs!Exchange, Tokens!Next,
         CodeProofs!Next

LEMMA SamePages ==
  [Browser!Next]_(Browser!vars) <=> [PageProofs!Next]_(PageProofs!vars)
  BY Z3
     DEF Browser!Ask, PageProofs!Ask, Browser!Blank, PageProofs!Blank,
         Browser!Valid, PageProofs!Valid, Browser!FreshCsrf, PageProofs!FreshCsrf,
         Browser!NextUrl, PageProofs!NextUrl, Browser!Quote, PageProofs!Quote,
         Browser!Unquote, PageProofs!Unquote, Browser!SafeNext,
         PageProofs!SafeNext, Browser!Show, PageProofs!Show, Browser!AskConsent,
         PageProofs!AskConsent, Browser!SendToLogin, PageProofs!SendToLogin,
         Browser!Turn, PageProofs!Turn, Browser!OpenLogin, PageProofs!OpenLogin,
         Browser!Login, PageProofs!Login, Browser!RestartLogin,
         PageProofs!RestartLogin, Browser!SameSession, PageProofs!SameSession,
         Browser!RejectForm, PageProofs!RejectForm, Browser!Decide,
         PageProofs!Decide, Browser!Tick, PageProofs!Tick, Browser!Browse,
         PageProofs!Browse, Browser!Next, PageProofs!Next, Browser!vars,
         PageProofs!vars

LEMMA CodeAssumption == CodeProofs!ConstantsAssumption
  BY ConstantsAssumption
     DEF Tokens!Row, Tokens!Params, Tokens!S256, CodeProofs!Row, CodeProofs!Params,
         CodeProofs!S256

LEMMA PageAssumption == PageProofs!ConstantsAssumption
  BY ConstantsAssumption DEF Browser!Session, PageProofs!Ask, PageProofs!Session

\* What an approved page carries.
LEMMA Approved ==
  ASSUME PageProofs!Inv, NEW b \in Tab, Browser!Decide(b, TRUE)
  PROVE  /\ tab[b].ask \in AuthorizeRequests
         /\ jar.user \in User /\ tab[b].shown = jar.user
         /\ [ask |-> tab[b].ask, by |-> jar.user, shown |-> tab[b].shown,
            age |-> now - tab[b].login] \in approvals'
<1>1. jar # None /\ tab[b].kind = "consent" /\ tab[b].csrf = jar.csrf
  BY DEF Browser!Decide, Browser!Valid, Browser!SameSession
<1>2. jar \in PageProofs!Session /\ tab[b] \in PageProofs!Page
  BY <1>1 DEF PageProofs!Inv, PageProofs!TypeOK
<1>3. jar.user \in User /\ tab[b].ask \in AuthorizeRequests
  BY <1>1, <1>2 DEF PageProofs!Session, PageProofs!Page, PageProofs!Ask
<1>4. tab[b].shown = jar.user
  BY <1>1 DEF PageProofs!Inv, PageProofs!PageOK
<1> QED
  BY <1>3, <1>4 DEF Browser!Decide

\* An approval issues a code; nothing else in the browser touches the codes.
LEMMA CodeStep ==
  ASSUME PageProofs!Inv, [Next]_vars
  PROVE  [Tokens!Next]_(Tokens!vars)
<1>1. ASSUME NEW b \in Tab, NEW s \in SUBSET Scope, NEW d \in Code, Approve(b, d, s)
      PROVE  Tokens!Next
  <2>1. tab[b].ask \in AuthorizeRequests /\ jar.user \in User
    BY <1>1, Approved DEF Approve
  <2>2. PICK v \in Verifier : tab[b].ask.challenge = Tokens!S256(v)
    BY <2>1 DEF AuthorizeRequests
  <2>3. tab[b].ask.client \in Client /\ tab[b].ask.redirect \in Redirect
    BY <2>1 DEF AuthorizeRequests
  <2> QED
    BY <1>1, <2>1, <2>2, <2>3 DEF Approve, Tokens!Next
<1>2. CASE Exchange
  BY <1>2 DEF Exchange, Tokens!Next
<1>3. CASE Tick
  BY <1>3 DEF Tick, Tokens!Next
<1>4. CASE UNCHANGED <<codes, now>>
  BY <1>4 DEF codes, Tokens!vars, Tokens!local, Tokens!history
<1>5. Browse \/ (\E b \in Tab : Deny(b)) \/ (\E b \in Tab, s \in SUBSET Scope : ApproveTooMuch(b, s))
      => UNCHANGED <<codes, now>>
  BY DEF Browse, Deny, ApproveTooMuch, Browser!Browse, Browser!Decide, Browser!AskConsent,
         Browser!SendToLogin, Browser!Turn, Browser!OpenLogin, Browser!RestartLogin,
         Browser!RejectForm, Browser!Login
<1> QED
  BY <1>1, <1>2, <1>3, <1>4, <1>5 DEF Next, vars

\* Nothing at /token touches the browser.
LEMMA PageStep ==
  ASSUME [Next]_vars
  PROVE  [Browser!Next]_(Browser!vars)
<1>1. CASE Exchange
  <2>1. now' = now
    BY <1>1 DEF Exchange, Tokens!Exchange, Tokens!Receive, Tokens!Step, Tokens!Consume,
       Tokens!RefuseCode, Tokens!RefuseBinding, Tokens!Mint, Tokens!SaveRefresh, Tokens!Answer,
       Tokens!Crash
  <2> QED
    BY <1>1, <2>1 DEF Exchange, browser, Browser!vars
<1>2. CASE UNCHANGED vars
  BY <1>2 DEF vars, browser, Browser!vars
<1> QED
  BY <1>1, <1>2 DEF Next, Browse, Approve, ApproveTooMuch, Deny, Tick, Browser!Next

------------------------------------------------------------------------------
\* Every row goes back to an approval.

LEMMA ApprovalsStay ==
  ASSUME [Next]_vars
  PROVE  approvals \subseteq approvals'
<1>1. [Browser!Next]_(Browser!vars)
  BY PageStep
<1> QED
  BY <1>1 DEF Browser!Next, Browser!vars, Browser!Browse, Browser!Decide, Browser!AskConsent,
       Browser!SendToLogin, Browser!Turn, Browser!OpenLogin, Browser!RestartLogin,
       Browser!RejectForm, Browser!Login, Browser!Tick

\* An exchange consumes a row and changes nothing else in it.
LEMMA RowStays ==
  ASSUME CodeProofs!Inv, Exchange, NEW d \in Code, row'[d] # None
  PROVE  /\ row[d] # None
         /\ row'[d].user = row[d].user /\ row'[d].client = row[d].client
         /\ row'[d].challenge = row[d].challenge /\ row'[d].redirect = row[d].redirect
<1>1. row \in [Code -> CodeProofs!Row \union {None}]
  BY DEF CodeProofs!Inv, CodeProofs!TypeOK
<1>2. CASE UNCHANGED row
  BY <1>2
<1>3. ASSUME NEW r \in Request, Tokens!Consume(r)
      PROVE  /\ row[d] # None
             /\ row'[d].user = row[d].user /\ row'[d].client = row[d].client
             /\ row'[d].challenge = row[d].challenge /\ row'[d].redirect = row[d].redirect
  <2>1. row[req[r].code] # None /\ row' = [row EXCEPT ![req[r].code].consumed = TRUE]
    BY <1>3 DEF Tokens!Consume, Tokens!Consumable
  <2>2. CASE d = req[r].code
    <3>1. row[d] \in CodeProofs!Row
      BY <1>1, <2>1, <2>2
    <3>2. row'[d] = [row[d] EXCEPT !.consumed = TRUE]
      BY <1>1, <2>1, <2>2
    <3> QED
      BY <2>1, <2>2, <3>1, <3>2 DEF CodeProofs!Row
  <2>3. CASE d # req[r].code
    BY <1>1, <2>1, <2>3
  <2> QED
    BY <2>2, <2>3
<1> QED
  BY <1>2, <1>3 DEF Exchange, Tokens!Exchange, Tokens!Step, Tokens!Receive, Tokens!RefuseCode,
     Tokens!RefuseBinding, Tokens!Mint, Tokens!SaveRefresh, Tokens!Answer, Tokens!Crash

LEMMA RowsApprovedStep ==
  ASSUME Inv, [Next]_vars
  PROVE  RowsApproved'
<1> SUFFICES ASSUME NEW e \in Code, row'[e] # None
             PROVE  \E v \in approvals' : Approves(v, e)'
  BY DEF RowsApproved
<1>1. approvals \subseteq approvals'
  BY ApprovalsStay
<1>2. CASE /\ row[e] # None
           /\ row'[e].user = row[e].user /\ row'[e].client = row[e].client
           /\ row'[e].challenge = row[e].challenge /\ row'[e].redirect = row[e].redirect
  BY <1>1, <1>2 DEF Inv, RowsApproved, Approves
<1>3. ASSUME NEW b \in Tab, NEW s \in SUBSET Scope, NEW d \in Code, Approve(b, d, s)
      PROVE  \E v \in approvals' : Approves(v, e)'
  <2>1. /\ tab[b].shown = jar.user
        /\ [ask |-> tab[b].ask, by |-> jar.user, shown |-> tab[b].shown,
            age |-> now - tab[b].login] \in approvals'
    BY <1>3, Approved DEF Inv, Approve
  <2>2. row \in [Code -> CodeProofs!Row \union {None}]
    BY DEF Inv, CodeProofs!Inv, CodeProofs!TypeOK
  <2>3. CASE e = d
    <3>1. /\ row'[d].user = jar.user /\ row'[d].client = tab[b].ask.client
          /\ row'[d].challenge = tab[b].ask.challenge /\ row'[d].redirect = tab[b].ask.redirect
      BY <1>3, <2>2 DEF Approve, Tokens!IssueCode
    <3> QED
      BY <2>1, <2>3, <3>1 DEF Approves
  <2>4. CASE e # d
    BY <1>2, <1>3, <2>2, <2>4 DEF Approve, Tokens!IssueCode
  <2> QED
    BY <2>3, <2>4
<1>4. CASE Exchange
  BY <1>2, <1>4, RowStays DEF Inv
<1>5. CASE UNCHANGED row
  BY <1>2, <1>5
<1> QED
  BY <1>3, <1>4, <1>5
     DEF Next, vars, codes, Browse, ApproveTooMuch, Deny, Tick, Tokens!Tick

LEMMA InitInv == Init => Inv
<1> SUFFICES ASSUME Init PROVE Inv
  OBVIOUS
<1>1. CodeProofs!Inv
  BY CodeAssumption DEF Init, Tokens!Init, CodeProofs!Inv, CodeProofs!TypeOK,
     CodeProofs!HolderOK, CodeProofs!Holds, CodeProofs!Sole, CodeProofs!CodeOK
<1>2. PageProofs!Init
  BY DEF Init, Browser!Init, Browser!Blank, PageProofs!Init, PageProofs!Blank
<1>3. PageProofs!Inv
  BY <1>2, PageAssumption, PageProofs!InitInv
<1>4. RowsApproved
  BY DEF Init, Tokens!Init, RowsApproved
<1> QED
  BY <1>1, <1>3, <1>4 DEF Inv

LEMMA NextInv ==
  ASSUME Inv, [Next]_vars
  PROVE  Inv'
<1>1. [CodeProofs!Next]_(CodeProofs!vars)
  BY CodeStep, SameCodes DEF Inv
<1>2. CodeProofs!Inv'
  BY <1>1, CodeAssumption, CodeProofs!NextInv DEF Inv
<1>3. [PageProofs!Next]_(PageProofs!vars)
  BY PageStep, SamePages
<1>4. PageProofs!Inv'
  BY <1>3, PageAssumption, PageProofs!NextInv DEF Inv
<1> QED
  BY <1>2, <1>4, RowsApprovedStep DEF Inv

\* Inv holds in every reachable state of the flow.
THEOREM InvHolds == Spec => []Inv
  BY InitInv, NextInv, PTL DEF Spec

\* The flow, seen from the code store, is CodeExchange.
THEOREM ImplementsCodeExchange == Spec => Tokens!Spec
<1>1. Init => Tokens!Init
  BY DEF Init
<1>2. Inv /\ [Next]_vars => [Tokens!Next]_(Tokens!vars)
  BY CodeStep DEF Inv
<1> QED
  BY <1>1, <1>2, InvHolds, PTL DEF Spec, Tokens!Spec

\* The flow, seen from the browser, is BrowserSession.
THEOREM ImplementsBrowserSession == Spec => Browser!Spec
<1>1. Init => Browser!Init
  BY DEF Init
<1>2. [Next]_vars => [Browser!Next]_(Browser!vars)
  BY PageStep
<1> QED
  BY <1>1, <1>2, PTL DEF Spec, Browser!Spec

\* A token for a user goes back to an approval by that user, on a page shown to
\* that user, to that client, for the challenge whose verifier was presented.
THEOREM TokensWereApproved == Spec => []EveryTokenWasApproved
<1>1. ASSUME Inv PROVE EveryTokenWasApproved
  <2> SUFFICES ASSUME NEW d \in Code, NEW g \in granted[d]
               PROVE  \E v \in approvals :
                        /\ v.by = g.user /\ v.shown = g.user
                        /\ v.ask.client = g.client /\ v.ask.challenge = Tokens!S256(g.verifier)
                        /\ v.ask.redirect = row[d].redirect
    BY DEF EveryTokenWasApproved
  <2>1. /\ row[d] # None /\ g.client = row[d].client /\ g.user = row[d].user
        /\ Tokens!S256(g.verifier) = row[d].challenge
    BY <1>1 DEF Inv, CodeProofs!Inv, CodeProofs!CodeOK, CodeProofs!Matches, CodeProofs!S256,
       Tokens!S256
  <2> QED
    BY <1>1, <2>1 DEF Inv, RowsApproved, Approves
<1>2. Inv => EveryTokenWasApproved
  BY <1>1
<1> QED
  BY <1>2, InvHolds, PTL

\* The codes of the flow keep the promise of OneTimeGrant, too: an approval in the
\* browser is worth one claim at /token and tokens for just what was approved.
THEOREM CodesKeepThePromise == Spec => CodeProofs!KeepsPromise
<1>1. Init => CodeProofs!Init
  BY DEF Init, Tokens!Init, CodeProofs!Init
<1>2. Inv /\ [Next]_vars => [CodeProofs!Next]_(CodeProofs!vars)
  BY CodeStep, SameCodes DEF Inv
<1>3. Spec => CodeProofs!Spec
  BY <1>1, <1>2, InvHolds, PTL DEF Spec, CodeProofs!Spec
<1>4. CodeProofs!Spec => CodeProofs!KeepsPromise
  BY CodeAssumption, CodeProofs!KeepsThePromise
<1> QED
  BY <1>3, <1>4
==============================================================================
