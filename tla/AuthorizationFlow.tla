-------------------------- MODULE AuthorizationFlow --------------------------
(***************************************************************************)
(* The whole authorization-code flow: the browser of BrowserSession on one *)
(* side, the code store and /token of CodeExchange on the other, joined    *)
(* where POST /consent turns an approved page into a code.  A page stands  *)
(* for one validated /authorize request; the hidden fields of its form are *)
(* the user's to change, so the scope that arrives is any scope.           *)
(***************************************************************************)
EXTENDS Naturals

CONSTANTS
  Tab, User, Csrf, SessionTTL,
  Code, Client, Scope, Redirect, Verifier, Request,
  AllowedScopes, RedirectUris, Refreshing, CodeTTL,
  MaxTime, None

VARIABLES
  jar, tab, aim, approvals,                                        \* browser
  row, pc, req, seen, stamp, granted, mints, opened, burnt, dropped, \* codes
  now

browser == <<jar, tab, aim, approvals>>
codes == <<row, pc, req, seen, stamp, granted, mints, opened, burnt, dropped>>
vars == <<browser, codes, now>>

Tokens == INSTANCE CodeExchange

\* The /authorize requests that AuthorizeService lets through.  The scope it
\* shows comes back in the form, and is chosen there.
AuthorizeRequests ==
  {a \in [client : Client, redirect : Redirect,
          challenge : {Tokens!S256(v) : v \in Verifier}] : a.redirect \in RedirectUris[a.client]}

Browser == INSTANCE BrowserSession WITH AuthRequest <- AuthorizeRequests, DevicePage <- {}

\* What the two components assume of their constants.
ASSUME ConstantsAssumption ==
  /\ AllowedScopes \in [Client -> SUBSET Scope]
  /\ RedirectUris \in [Client -> SUBSET Redirect]
  /\ Refreshing \subseteq Client
  /\ CodeTTL \in Nat \ {0} /\ SessionTTL \in Nat /\ MaxTime \in Nat
  /\ None \notin Code \union Redirect \union Verifier \union Tokens!Row \union Tokens!Params
  /\ None \notin AuthorizeRequests \union Browser!Session

Init == Browser!Init /\ Tokens!Init

------------------------------------------------------------------------------
\* Actions.

Browse == Browser!Browse /\ UNCHANGED codes

\* Approve, with scope s in the form: a code for the user of the session.
Approve(b, d, s) ==
  /\ Browser!Decide(b, TRUE)
  /\ Tokens!IssueCode(d, tab[b].ask.client, jar.user, s,
                      tab[b].ask.redirect, tab[b].ask.challenge)

\* Approve with a scope beyond the client's: invalid_scope, and no code.
ApproveTooMuch(b, s) ==
  /\ Browser!Decide(b, TRUE)
  /\ ~Tokens!Grantable(tab[b].ask.client, s)
  /\ UNCHANGED codes

\* Deny: access_denied goes back to the client.
Deny(b) == Browser!Decide(b, FALSE) /\ UNCHANGED codes

Exchange == Tokens!Exchange /\ UNCHANGED browser

Tick == Browser!Tick /\ Tokens!Tick

Next ==
  \/ Browse
  \/ \E b \in Tab, s \in SUBSET Scope :
       ApproveTooMuch(b, s) \/ \E d \in Code : Approve(b, d, s)
  \/ \E b \in Tab : Deny(b)
  \/ Exchange
  \/ Tick

Spec == Init /\ [][Next]_vars

------------------------------------------------------------------------------
\* Properties.

\* Whatever tabs, logins and requests did meanwhile, a token for a user goes
\* back to an approval which that user gave, on a page that showed it to that
\* user, to that client, for the PKCE challenge whose verifier was presented.
EveryTokenWasApproved ==
  \A d \in Code : \A g \in granted[d] : \E v \in approvals :
    /\ v.by = g.user /\ v.shown = g.user
    /\ v.ask.client = g.client /\ v.ask.challenge = Tokens!S256(g.verifier)
    /\ v.ask.redirect = row[d].redirect
==============================================================================
