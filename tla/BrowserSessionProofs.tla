------------------------ MODULE BrowserSessionProofs -------------------------
(***************************************************************************)
(* Proofs about BrowserSession, for any number of tabs and accounts.  The  *)
(* csrf_token of a cookie is drawn fresh at every login, so a page that    *)
(* carries the token of the present cookie was rendered for its user and   *)
(* under its login; and a login form reached by a redirect still carries   *)
(* the path of the device page it came from.                               *)
(***************************************************************************)
EXTENDS BrowserSession, TLAPS

\* A page that the cookie would let through shows the user of the cookie, and
\* was rendered under the login the cookie comes from.
PageOK(b) ==
  jar # None /\ tab[b].kind = "consent" /\ tab[b].csrf = jar.csrf =>
    tab[b].shown = jar.user /\ tab[b].login = jar.at

\* Nobody signed in tomorrow.
JarOK == jar # None => jar.at <= now

\* A tab on its way remembers a device page; a consent page is nowhere to go.
WayOK(b) ==
  /\ tab[b].kind \in {"login", "redirect"} /\ aim[b] \in DevicePage => tab[b].ask = aim[b]
  /\ tab[b].kind = "consent" => aim[b] = None

Inv ==
  /\ TypeOK
  /\ JarOK
  /\ \A b \in Tab : PageOK(b) /\ WayOK(b)
  /\ ApprovedInSession

\* One tab turns to another page and the cookie stays.
LEMMA ShowInv ==
  ASSUME Inv, NEW b \in Tab, NEW page \in Page, NEW a \in Ask \union {None},
         Show(b, page), aim' = [aim EXCEPT ![b] = a], UNCHANGED <<jar, now, approvals>>,
         jar # None /\ page.kind = "consent" /\ page.csrf = jar.csrf =>
           page.shown = jar.user /\ page.login = jar.at,
         page.kind \in {"login", "redirect"} /\ a \in DevicePage => page.ask = a,
         page.kind = "consent" => a = None
  PROVE  Inv'
<1>1. TypeOK'
  BY DEF Inv, TypeOK, Show
<1>2. ASSUME NEW e \in Tab PROVE PageOK(e)' /\ WayOK(e)'
  <2>1. CASE e = b
    <3>1. tab'[b] = page /\ aim'[b] = a
      BY DEF Inv, TypeOK, Show
    <3> QED
      BY <2>1, <3>1 DEF PageOK, WayOK
  <2>2. CASE e # b
    <3>1. tab'[e] = tab[e] /\ aim'[e] = aim[e]
      BY <2>2 DEF Inv, TypeOK, Show
    <3> QED
      BY <3>1 DEF Inv, PageOK, WayOK
  <2> QED
    BY <2>1, <2>2
<1>3. ApprovedInSession'
  BY DEF Inv, ApprovedInSession
<1> QED
  BY <1>1, <1>2, <1>3 DEF Inv, JarOK

\* ... or the page leads where the tab was going before.
LEMMA StayInv ==
  ASSUME Inv, NEW b \in Tab, NEW page \in Page, Show(b, page), page.kind # "consent",
         page.kind \in {"login", "redirect"} /\ aim[b] \in DevicePage => page.ask = aim[b],
         UNCHANGED <<jar, now, aim, approvals>>
  PROVE  Inv'
<1>1. aim' = [aim EXCEPT ![b] = aim[b]] /\ aim[b] \in Ask \union {None}
  BY DEF Inv, TypeOK
<1> QED
  BY <1>1, ShowInv

LEMMA AskConsentInv ==
  ASSUME Inv, NEW b \in Tab, NEW a \in Ask, AskConsent(b, a)
  PROVE  Inv'
<1> DEFINE page == [kind |-> "consent", ask |-> a, csrf |-> jar.csrf, shown |-> jar.user,
                  login |-> jar.at]
<1>1. jar \in Session
  BY DEF Inv, TypeOK, AskConsent, Valid
<1>2. page \in Page
  BY <1>1 DEF Session, Page
<1> QED
  BY <1>2, ShowInv DEF AskConsent

\* What becomes of `next` on its way into the login form.
LEMMA NextBack ==
  ASSUME NEW a
  PROVE  SafeNext(Unquote(Quote(NextUrl(a)))) = IF a \in DevicePage THEN a ELSE None
<1> DEFINE form == IF a \in DevicePage THEN "path" ELSE "absolute"
<1>1. Quote(NextUrl(a)) = [target |-> a, form |-> form, quotes |-> 1]
  BY DEF Quote, NextUrl
<1>2. Unquote(Quote(NextUrl(a))) = [target |-> a, form |-> form, quotes |-> 0]
  BY <1>1 DEF Unquote
<1> QED
  BY <1>2 DEF SafeNext

LEMMA SendToLoginInv ==
  ASSUME Inv, NEW b \in Tab, NEW a \in Ask, SendToLogin(b, a)
  PROVE  Inv'
<1> DEFINE back == SafeNext(Unquote(Quote(NextUrl(a))))
<1>1. back = IF a \in DevicePage THEN a ELSE None
  BY NextBack
<1>2. [kind |-> "login", ask |-> back] \in Page
  BY <1>1 DEF Page
<1> QED
  BY <1>1, <1>2, ShowInv DEF SendToLogin

\* The pages that carry no target.
LEMMA PlainPages ==
  Blank \in Page /\ [kind |-> "login", ask |-> None] \in Page
  BY DEF Blank, Page

LEMMA TurnInv ==
  ASSUME Inv, NEW b \in Tab, Turn(b) \/ OpenLogin(b)
  PROVE  Inv'
<1>1. CASE Turn(b)
  BY <1>1, PlainPages, ShowInv DEF Turn, Blank
<1>2. CASE OpenLogin(b)
  <2>1. None \notin DevicePage
    BY ConstantsAssumption DEF Ask
  <2> QED
    BY <1>2, <2>1, PlainPages, ShowInv DEF OpenLogin
<1> QED
  BY <1>1, <1>2

\* No page holds the csrf_token of the new cookie.
LEMMA LoginInv ==
  ASSUME Inv, NEW b \in Tab, NEW u \in User, NEW c \in Csrf, Login(b, u, c)
  PROVE  Inv'
<1> DEFINE page == [kind |-> "redirect", ask |-> tab[b].ask]
<1>1. tab[b].kind = "login" /\ tab[b].ask \in Ask \union {None}
  BY DEF Inv, TypeOK, Page, Login
<1>2. page \in Page
  BY <1>1 DEF Page
<1>3. /\ jar' = [user |-> u, csrf |-> c, at |-> now]
      /\ tab' = [tab EXCEPT ![b] = page]
      /\ UNCHANGED <<now, aim, approvals>>
  BY DEF Login, Show
<1>4. jar' \in Session
  BY <1>3 DEF Inv, TypeOK, Session
<1>5. TypeOK'
  BY <1>2, <1>3, <1>4 DEF Inv, TypeOK
<1>6. ASSUME NEW e \in Tab PROVE PageOK(e)' /\ WayOK(e)'
  <2>1. CASE e = b
    <3>1. tab'[e] = page
      BY <1>3, <2>1 DEF Inv, TypeOK
    <3> QED
      BY <1>1, <1>3, <2>1, <3>1 DEF Inv, PageOK, WayOK
  <2>2. CASE e # b
    <3>1. tab'[e] = tab[e] /\ jar'.csrf = c
      BY <1>3, <2>2 DEF Inv, TypeOK
    <3>2. tab[e].kind = "consent" => tab[e].csrf # c
      BY DEF Login, FreshCsrf
    <3> QED
      BY <1>3, <3>1, <3>2 DEF Inv, PageOK, WayOK
  <2> QED
    BY <2>1, <2>2
<1>7. ApprovedInSession'
  BY <1>3 DEF Inv, ApprovedInSession
<1>8. JarOK'
  BY <1>3 DEF Inv, TypeOK, JarOK
<1> QED
  BY <1>5, <1>6, <1>7, <1>8 DEF Inv

LEMMA FormInv ==
  ASSUME Inv, NEW b \in Tab, RestartLogin(b) \/ RejectForm(b)
  PROVE  Inv'
<1>1. CASE RestartLogin(b)
  <2>1. aim[b] = None /\ None \notin DevicePage
    BY <1>1, ConstantsAssumption DEF Inv, WayOK, RestartLogin, Ask
  <2> QED
    BY <1>1, <2>1, PlainPages, StayInv DEF RestartLogin
<1>2. CASE RejectForm(b)
  BY <1>2, PlainPages, StayInv DEF RejectForm, Blank
<1> QED
  BY <1>1, <1>2

LEMMA DecideInv ==
  ASSUME Inv, NEW b \in Tab, NEW yes \in BOOLEAN, Decide(b, yes)
  PROVE  Inv'
<1> DEFINE v == [ask |-> tab[b].ask, by |-> jar.user, shown |-> tab[b].shown,
                 age |-> now - tab[b].login]
<1>1. /\ jar \in Session /\ jar # None /\ tab[b].kind = "consent"
      /\ now - jar.at <= SessionTTL /\ tab[b].csrf = jar.csrf
  BY DEF Inv, TypeOK, Decide, Valid, SameSession
<1>2. tab[b].shown = jar.user /\ tab[b].login = jar.at
  BY <1>1 DEF Inv, PageOK
<1>3. now - jar.at \in Nat
  BY <1>1 DEF Inv, TypeOK, JarOK, Session
<1>4. tab[b].ask \in Ask /\ tab[b].shown \in User
  BY <1>1 DEF Inv, TypeOK, Page
<1>5. v \in Approval
  BY <1>1, <1>2, <1>3, <1>4 DEF Approval, Session
<1>6. v.by = v.shown /\ v.age <= SessionTTL
  BY <1>1, <1>2
<1>7. approvals' \in {approvals, approvals \union {v}} /\ UNCHANGED <<jar, tab, now, aim>>
  BY DEF Decide
<1> HIDE DEF v
<1>8. TypeOK'
  BY <1>5, <1>7 DEF Inv, TypeOK
<1>9. ApprovedInSession'
  BY <1>6, <1>7 DEF Inv, ApprovedInSession
<1> QED
  BY <1>7, <1>8, <1>9 DEF Inv, JarOK, PageOK, WayOK

LEMMA NextInv ==
  ASSUME Inv, [Next]_vars
  PROVE  Inv'
<1>1. CASE Browse
  BY <1>1, AskConsentInv, SendToLoginInv, TurnInv, FormInv, LoginInv DEF Browse
<1>2. CASE Tick
  BY <1>2 DEF Inv, TypeOK, JarOK, Session, PageOK, WayOK, ApprovedInSession, Tick
<1>3. CASE UNCHANGED vars
  BY <1>3 DEF Inv, TypeOK, JarOK, PageOK, WayOK, ApprovedInSession, vars
<1> QED
  BY <1>1, <1>2, <1>3, DecideInv DEF Next

LEMMA InitInv == Init => Inv
<1> SUFFICES ASSUME Init PROVE Inv
  OBVIOUS
<1>1. \A b \in Tab : tab[b] = Blank
  BY DEF Init
<1>2. TypeOK
  BY PlainPages DEF Init, TypeOK
<1> QED
  BY <1>1, <1>2 DEF Init, Inv, JarOK, PageOK, WayOK, ApprovedInSession, Blank

\* Inv holds in every reachable state.
THEOREM InvHolds == Spec => []Inv
  BY InitInv, NextInv, PTL DEF Spec

\* Every variable keeps its type.
THEOREM TypeCorrect == Spec => []TypeOK
<1>1. Inv => TypeOK
  BY DEF Inv
<1> QED
  BY <1>1, InvHolds, PTL

\* Whoever signs in in whichever tab, nobody approves on a page that was rendered
\* for somebody else, or under a login that is over.
THEOREM ApprovalsAreOwn == Spec => []ApprovedInSession
<1>1. Inv => ApprovedInSession
  BY DEF Inv
<1> QED
  BY <1>1, InvHolds, PTL

\* A user who was sent to sign in on the way to /device comes back to it.
THEOREM BackToTheDevice == Spec => []DeviceReturns
<1>1. Inv => DeviceReturns
  BY DEF Inv, WayOK, DeviceReturns, Returns
<1> QED
  BY <1>1, InvHolds, PTL

------------------------------------------------------------------------------
\* The other page: safe_next drops the URL of /authorize, so no login on the way
\* to it leads anywhere but "/" (LoginDeadEnd shows one such way).

LostOK(b) ==
  tab[b].kind \in {"login", "redirect"} /\ aim[b] \notin DevicePage => tab[b].ask = None

\* A tab that turns to another page, and the others, which stay.
LEMMA ShowLost ==
  ASSUME TypeOK, \A e \in Tab : LostOK(e), NEW b \in Tab, NEW page, Show(b, page),
         \A e \in Tab \ {b} : aim'[e] = aim[e],
         page.kind \in {"login", "redirect"} /\ aim'[b] \notin DevicePage => page.ask = None
  PROVE  \A e \in Tab : LostOK(e)'
<1>1. tab'[b] = page /\ \A e \in Tab \ {b} : tab'[e] = tab[e]
  BY DEF TypeOK, Show
<1> QED
  BY <1>1 DEF LostOK

LEMMA NextLost ==
  ASSUME TypeOK, \A b \in Tab : LostOK(b), [Next]_vars
  PROVE  \A b \in Tab : LostOK(b)'
<1>1. ASSUME NEW b \in Tab, NEW a \in Ask, AskConsent(b, a) PROVE \A e \in Tab : LostOK(e)'
  BY <1>1, ShowLost DEF AskConsent, TypeOK
<1>2. ASSUME NEW b \in Tab, NEW a \in Ask, SendToLogin(b, a) PROVE \A e \in Tab : LostOK(e)'
  <2>1. aim'[b] = a /\ \A e \in Tab \ {b} : aim'[e] = aim[e]
    BY <1>2 DEF SendToLogin, TypeOK
  <2>2. a \notin DevicePage => SafeNext(Unquote(Quote(NextUrl(a)))) = None
    BY NextBack
  <2> QED
    BY <1>2, <2>1, <2>2, ShowLost DEF SendToLogin
<1>3. ASSUME NEW b \in Tab, Turn(b) \/ OpenLogin(b) \/ RestartLogin(b) \/ RejectForm(b)
      PROVE  \A e \in Tab : LostOK(e)'
  BY <1>3, ShowLost DEF Turn, OpenLogin, RestartLogin, RejectForm, Blank, TypeOK
<1>4. ASSUME NEW b \in Tab, NEW u \in User, NEW c \in Csrf, Login(b, u, c)
      PROVE  \A e \in Tab : LostOK(e)'
  <2>1. tab[b].kind = "login" /\ aim' = aim /\ LostOK(b)
    BY <1>4 DEF Login
  <2>2. aim'[b] \notin DevicePage => tab[b].ask = None
    BY <2>1 DEF LostOK
  <2> QED
    BY <1>4, <2>1, <2>2, ShowLost DEF Login
<1>5. CASE Tick \/ (\E b \in Tab, yes \in BOOLEAN : Decide(b, yes)) \/ UNCHANGED vars
  BY <1>5 DEF LostOK, Tick, Decide, vars
<1> QED
  BY <1>1, <1>2, <1>3, <1>4, <1>5 DEF Next, Browse

\* A user who was sent to sign in on the way to /authorize is never led back to
\* it, whichever request it was and whatever the other tabs do.
THEOREM AuthorizeIsLost ==
  Spec => [](\A b \in Tab : tab[b].kind = "redirect" /\ aim[b] \in AuthRequest \ DevicePage
                              => tab[b].ask = None)
<1> DEFINE Lost == \A b \in Tab : LostOK(b)
           Dead == \A b \in Tab : tab[b].kind = "redirect" /\ aim[b] \in AuthRequest \ DevicePage
                                    => tab[b].ask = None
<1>1. Init => Lost
  BY DEF Init, Blank, LostOK
<1>2. TypeOK /\ Lost /\ [Next]_vars => Lost'
  BY NextLost
<1>3. Lost => Dead
  BY DEF LostOK
<1> HIDE DEF Lost, Dead
<1>4. Spec => []Dead
  BY <1>1, <1>2, <1>3, TypeCorrect, PTL DEF Spec
<1> QED
  BY <1>4 DEF Dead
==============================================================================
