--------------------------- MODULE BrowserSession ----------------------------
(***************************************************************************)
(* The browser side: a cookie jar shared by several tabs, /login, and the  *)
(* two pages on which a user decides, /authorize with POST /consent and    *)
(* /device with POST /device/consent.  The server keeps no session: the    *)
(* signed cookie is all there is, and the csrf_token in it is what ties a  *)
(* page to the login it was rendered for.  Users and tabs act in any order.*)
(***************************************************************************)
EXTENDS Naturals

CONSTANTS
  Tab,         \* tabs of one browser
  User,        \* accounts
  AuthRequest, \* what a tab may ask: GET /authorize with its parameters ...
  DevicePage,  \* ... or GET /device with a user_code
  Csrf,        \* csrf_token values
  SessionTTL,  \* session_ttl_seconds, in ticks
  MaxTime,     \* bound of the model: the clock stops here
  None         \* no cookie, no target (the path "/")

Ask == AuthRequest \union DevicePage

\* The signed cookie; at is the signer's timestamp.
Session == [user : User, csrf : Csrf, at : Nat]

\* What a tab shows: a blank, error or success page, the login form and the
\* redirect after it (ask is the `next` they carry), or a consent page.  login is
\* history: when the login happened under which the page was rendered.
Page ==
  [kind : {"blank"}]
    \union [kind : {"login", "redirect"}, ask : Ask \union {None}]
    \union [kind : {"consent"}, ask : Ask, csrf : Csrf, shown : User, login : Nat]

\* An approval, with the user its page showed and how long ago that user had
\* signed in.
Approval == [ask : Ask, by : User, shown : User, age : Nat]

ASSUME ConstantsAssumption ==
  /\ SessionTTL \in Nat /\ MaxTime \in Nat
  /\ None \notin Ask \union Session

VARIABLES
  jar,      \* the session cookie, or None
  tab,      \* the page in each tab
  now,      \* the signer's clock
  aim,      \* history: where a tab was going when it was sent to /login
  approvals \* history: approvals the server took, with the user the page was for

vars == <<jar, tab, now, aim, approvals>>

TypeOK ==
  /\ jar \in Session \union {None}
  /\ tab \in [Tab -> Page]
  /\ now \in Nat
  /\ aim \in [Tab -> Ask \union {None}]
  /\ approvals \in SUBSET Approval

Blank == [kind |-> "blank"]

Init ==
  /\ jar = None
  /\ tab = [b \in Tab |-> Blank]
  /\ now = 0
  /\ aim = [b \in Tab |-> None]
  /\ approvals = {}

------------------------------------------------------------------------------
\* Helpers.

\* SessionSigner.verify: the cookie is there and not older than the TTL.
Valid == jar # None /\ now - jar.at <= SessionTTL

\* token_urlsafe: not in the cookie and not on any page.
FreshCsrf(c) ==
  /\ jar # None => jar.csrf # c
  /\ \A b \in Tab : tab[b].kind = "consent" => tab[b].csrf # c

\* The URL each controller wants to come back to.  /authorize takes that of its
\* request, which names scheme and host; /device builds a path.
NextUrl(a) ==
  [target |-> a, form |-> IF a \in DevicePage THEN "path" ELSE "absolute", quotes |-> 0]

\* Mutant: the URL is quoted once by the controller and once more by a helper.
QuoteTwice(url) == [url EXCEPT !.quotes = @ + 2]

\* quote_plus, on its way into the query of /login ...
Quote(url) == [url EXCEPT !.quotes = @ + 1]

\* ... and what the query parser of /login takes off again.
Unquote(url) == IF url.quotes = 0 THEN url ELSE [url EXCEPT !.quotes = @ - 1]

\* Mutant: the form keeps the URL and not its target.
SafeNextRaw(url) == url

\* safe_next, on GET and again on POST: a target with an origin becomes "/", and
\* so does one that is still quoted, as it starts with "%2F".
SafeNext(url) == IF url.form = "path" /\ url.quotes = 0 THEN url.target ELSE None

Show(b, page) == tab' = [tab EXCEPT ![b] = page]

------------------------------------------------------------------------------
\* Actions.

\* GET of either page with a valid session: the consent form, for its user,
\* with the csrf_token of the cookie.
AskConsent(b, a) ==
  /\ Valid
  /\ Show(b, [kind |-> "consent", ask |-> a, csrf |-> jar.csrf, shown |-> jar.user,
              login |-> jar.at])
  /\ aim' = [aim EXCEPT ![b] = None]
  /\ UNCHANGED <<jar, now, approvals>>

\* ... without one: 303 to /login, which renders the form around safe_next(next).
\* (So does a valid session whose user is gone; no code deletes users.)
SendToLogin(b, a) ==
  /\ ~Valid
  /\ Show(b, [kind |-> "login", ask |-> SafeNext(Unquote(Quote(NextUrl(a))))])
  /\ aim' = [aim EXCEPT ![b] = a]
  /\ UNCHANGED <<jar, now, approvals>>

\* ... or the request itself is bad (unknown client, redirect_uri or user_code,
\* an expired or decided device code): an error page or an error redirect.
Turn(b) ==
  /\ Show(b, Blank)
  /\ aim' = [aim EXCEPT ![b] = None]
  /\ UNCHANGED <<jar, now, approvals>>

\* GET /login from a bookmark: the form with no `next`.
OpenLogin(b) ==
  /\ Show(b, [kind |-> "login", ask |-> None])
  /\ aim' = [aim EXCEPT ![b] = None]
  /\ UNCHANGED <<jar, now, approvals>>

\* POST /login with the right password: a new cookie, then a 303 to `next`.
\* (With a wrong one the form is rendered again and nothing changes.)
Login(b, u, c) ==
  /\ tab[b].kind = "login" /\ FreshCsrf(c)
  /\ jar' = [user |-> u, csrf |-> c, at |-> now]
  /\ Show(b, [kind |-> "redirect", ask |-> tab[b].ask])
  /\ UNCHANGED <<now, aim, approvals>>

\* POST of the form without a valid session: /login, with no `next`.
RestartLogin(b) ==
  /\ tab[b].kind = "consent" /\ ~Valid
  /\ Show(b, [kind |-> "login", ask |-> None])
  /\ UNCHANGED <<jar, now, aim, approvals>>

\* Mutant: any form is good as long as somebody is signed in.
SameSessionAlways(page) == TRUE

\* require_session_with_csrf: the form's token is the one in the cookie.
SameSession(page) == page.csrf = jar.csrf

\* ... with a token of another login: invalid_request.
RejectForm(b) ==
  /\ tab[b].kind = "consent" /\ Valid /\ ~SameSession(tab[b])
  /\ Show(b, Blank)
  /\ UNCHANGED <<jar, now, aim, approvals>>

\* ... and the decision is taken for the user of the cookie.  The Back button
\* brings the form back, so it stays in the tab.
Decide(b, yes) ==
  /\ tab[b].kind = "consent" /\ Valid /\ SameSession(tab[b])
  /\ approvals' = IF yes THEN approvals \union {[ask |-> tab[b].ask, by |-> jar.user,
                                                 shown |-> tab[b].shown,
                                                 age |-> now - tab[b].login]}
                         ELSE approvals
  /\ UNCHANGED <<jar, tab, now, aim>>

Tick ==
  /\ now < MaxTime
  /\ now' = now + 1
  /\ UNCHANGED <<jar, tab, aim, approvals>>

\* Everything but decisions and time.
Browse ==
  \/ \E b \in Tab, a \in Ask : AskConsent(b, a) \/ SendToLogin(b, a)
  \/ \E b \in Tab : Turn(b) \/ OpenLogin(b) \/ RestartLogin(b) \/ RejectForm(b)
  \/ \E b \in Tab, u \in User, c \in Csrf : Login(b, u, c)

Next ==
  \/ Browse
  \/ \E b \in Tab, yes \in BOOLEAN : Decide(b, yes)
  \/ Tick

Spec == Init /\ [][Next]_vars

------------------------------------------------------------------------------
\* Properties.

\* Nobody approves on a page that was rendered for somebody else, even when one
\* tab signs in as another user while a form is open in the next, nor on one whose
\* login is over: a later login does not bring its forms back (session_guard).
ApprovedInSession ==
  \A v \in approvals : v.by = v.shown /\ v.age <= SessionTTL

\* A tab that was sent to /login comes back to the page it was going to.
Returns(asks) ==
  \A b \in Tab : tab[b].kind = "redirect" /\ aim[b] \in asks => tab[b].ask = aim[b]

\* "The user comes back with the code intact" (device_controller.py).
DeviceReturns == Returns(DevicePage)

\* "Carrying this authorize URL in `next` so the flow resumes after
\* authentication" (authorize_controller.py).
AuthorizeReturns == Returns(AuthRequest)
==============================================================================
