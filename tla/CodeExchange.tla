---------------------------- MODULE CodeExchange -----------------------------
(***************************************************************************)
(* The authorization-code grant: ConsentService saves a code bound to user,*)
(* client, scope, redirect_uri and PKCE challenge, and AuthorizationCode-  *)
(* Grant.execute exchanges it, once, for tokens.  Requests overlap: the    *)
(* SQL adapters suspend at every repository call and their rows outlive    *)
(* the process.  consume is one conditional UPDATE, so it is one step; the *)
(* caller read the clock it passes before that step.                       *)
(***************************************************************************)
EXTENDS Naturals

CONSTANTS
  Code,          \* authorization code values
  Client,        \* clients registered for the authorization_code grant
  User,          \* resource owners
  Scope,         \* scope atoms
  Redirect,      \* redirect URIs
  Verifier,      \* well-formed PKCE code verifiers
  Request,       \* concurrent /token requests, each slot reused without end
  AllowedScopes, \* client.allowed_scopes
  RedirectUris,  \* client.redirect_uris
  Refreshing,    \* clients that also have the refresh_token grant
  CodeTTL,       \* authorization_code_ttl_seconds, in ticks
  MaxTime,       \* bound of the model: the clock stops here
  None           \* absent value

\* BASE64URL(SHA256(v)), which is as good as injective.
S256(v) == <<"S256", v>>

Row == [client : Client, user : User, scope : SUBSET Scope, redirect : Redirect,
        challenge : {S256(v) : v \in Verifier}, expires : Nat, consumed : BOOLEAN]

\* What /token receives: None is an unknown code, an absent redirect_uri and a
\* verifier of the wrong shape.
Params == [client : Client, code : Code \union {None},
           redirect : Redirect \union {None}, verifier : Verifier \union {None}]

Grant == [client : Client, user : User, scope : SUBSET Scope, verifier : Verifier]

ASSUME ConstantsAssumption ==
  /\ AllowedScopes \in [Client -> SUBSET Scope]
  /\ RedirectUris \in [Client -> SUBSET Redirect]
  /\ Refreshing \subseteq Client
  /\ CodeTTL \in Nat \ {0} /\ MaxTime \in Nat
  /\ None \notin Code \union Redirect \union Verifier \union Row \union Params

VARIABLES
  row,     \* the store: Code -> Row or None
  now,     \* Clock.now()
  pc,      \* where each request stands between two awaits
  req,     \* its parameters
  seen,    \* the row consume returned to it
  stamp,   \* the `now` it passed to consume
  granted, \* history: what was granted for each code
  mints,   \* history: access tokens signed per code (2 means "more")
  opened,  \* history: refresh families opened per code (2 means "more")
  burnt,   \* history: codes consumed by a request that then failed a check
  dropped  \* history: codes consumed by a request that died with the process

local == <<req, seen, stamp>>
history == <<granted, mints, opened, burnt, dropped>>
vars == <<row, now, pc, local, history>>

TypeOK ==
  /\ row \in [Code -> Row \union {None}]
  /\ now \in Nat
  /\ pc \in [Request -> {"idle", "consume", "check", "save", "answer"}]
  /\ req \in [Request -> Params \union {None}]
  /\ seen \in [Request -> Row \union {None}]
  /\ stamp \in [Request -> Nat]
  /\ granted \in [Code -> SUBSET Grant]
  /\ mints \in [Code -> 0..2] /\ opened \in [Code -> 0..2]
  /\ burnt \in SUBSET Code /\ dropped \in SUBSET Code

Init ==
  /\ row = [d \in Code |-> None]
  /\ now = 0
  /\ pc = [r \in Request |-> "idle"]
  /\ req = [r \in Request |-> None]
  /\ seen = [r \in Request |-> None]
  /\ stamp = [r \in Request |-> 0]
  /\ granted = [d \in Code |-> {}]
  /\ mints = [d \in Code |-> 0] /\ opened = [d \in Code |-> 0]
  /\ burnt = {} /\ dropped = {}

------------------------------------------------------------------------------
\* Helpers.

More(n) == IF n = 0 THEN 1 ELSE 2

\* Mutant: the UPDATE forgets consumed_at IS NULL.
ConsumableTwice(d, at) == d # None /\ row[d] # None /\ row[d].expires > at

\* consume's WHERE clause.
Consumable(d, at) ==
  d # None /\ row[d] # None /\ ~row[d].consumed /\ row[d].expires > at

\* Mutant: the code_verifier is taken at its word.
BoundAnyVerifier(p, c) ==
  /\ p.client = c.client
  /\ p.redirect \in {None, c.redirect}
  /\ p.verifier # None

\* The checks execute makes on the code it has just consumed.
Bound(p, c) ==
  /\ p.client = c.client
  /\ p.redirect \in {None, c.redirect}
  /\ p.verifier # None /\ S256(p.verifier) = c.challenge

Finish(r) ==
  /\ pc' = [pc EXCEPT ![r] = "idle"]
  /\ req' = [req EXCEPT ![r] = None]
  /\ seen' = [seen EXCEPT ![r] = None]
  /\ stamp' = [stamp EXCEPT ![r] = 0]

Goto(r, from, to) == pc[r] = from /\ pc' = [pc EXCEPT ![r] = to]

------------------------------------------------------------------------------
\* Actions.

\* ConsentService checks the form's scope against the client once more.
Grantable(c, s) == s \subseteq AllowedScopes[c]

\* Nothing asked means all the client may have.
GrantedScope(c, s) == IF s = {} THEN AllowedScopes[c] ELSE s

\* Mutant: a code is saved without its deadline.
DeadlineNever == None

Deadline == now + CodeTTL

\* An approved consent form with scope s: a fresh code, saved.
IssueCode(d, c, u, s, x, ch) ==
  /\ row[d] = None
  /\ x \in RedirectUris[c] /\ Grantable(c, s)
  /\ row' = [row EXCEPT ![d] =
               [client |-> c, user |-> u, scope |-> GrantedScope(c, s), redirect |-> x,
                challenge |-> ch, expires |-> Deadline, consumed |-> FALSE]]
  /\ UNCHANGED <<now, pc, local, history>>

\* A request with a code and a code_verifier, from a client that may use the
\* grant, calls consume.  (The refusals before that change nothing.)
Receive(r, p) ==
  /\ Goto(r, "idle", "consume")
  /\ p.code # None => row[p.code] # None
  /\ req' = [req EXCEPT ![r] = p]
  /\ stamp' = [stamp EXCEPT ![r] = now]
  /\ UNCHANGED <<row, now, seen, history>>

\* Mutant: the SELECT after the UPDATE finds nothing and the request gives up.
ConsumeSilently(r) ==
  /\ pc[r] = "consume" /\ Consumable(req[r].code, stamp[r])
  /\ row' = [row EXCEPT ![req[r].code].consumed = TRUE]
  /\ Finish(r)
  /\ UNCHANGED <<now, history>>

\* The UPDATE matches: consumed_at is set and the row is read back.
Consume(r) ==
  /\ Goto(r, "consume", "check")
  /\ Consumable(req[r].code, stamp[r])
  /\ row' = [row EXCEPT ![req[r].code].consumed = TRUE]
  /\ seen' = [seen EXCEPT ![r] = row'[req[r].code]]
  /\ UNCHANGED <<now, req, stamp, history>>

\* It matches no row: not found, used already or expired.
RefuseCode(r) ==
  /\ pc[r] = "consume" /\ ~Consumable(req[r].code, stamp[r])
  /\ Finish(r)
  /\ UNCHANGED <<row, now, history>>

\* Wrong client, redirect_uri or verifier.  The code stays consumed.
RefuseBinding(r) ==
  /\ pc[r] = "check" /\ ~Bound(req[r], seen[r])
  /\ burnt' = burnt \union {req[r].code}
  /\ Finish(r)
  /\ UNCHANGED <<row, now, granted, mints, opened, dropped>>

\* Only a client with the refresh_token grant goes on to save a refresh token.
AfterMint(c) == IF c \in Refreshing THEN "save" ELSE "answer"

\* The access token is signed for the code's user and scope.
Mint(r) ==
  /\ Goto(r, "check", AfterMint(req[r].client))
  /\ Bound(req[r], seen[r])
  /\ granted' = [granted EXCEPT ![req[r].code] = @ \union
                   {[client |-> req[r].client, user |-> seen[r].user,
                     scope |-> seen[r].scope, verifier |-> req[r].verifier]}]
  /\ mints' = [mints EXCEPT ![req[r].code] = More(@)]
  /\ UNCHANGED <<row, now, local, opened, burnt, dropped>>

\* A new refresh family, saved (RefreshRotation's IssueFamily).
SaveRefresh(r) ==
  /\ Goto(r, "save", "answer")
  /\ opened' = [opened EXCEPT ![req[r].code] = More(@)]
  /\ UNCHANGED <<row, now, local, granted, mints, burnt, dropped>>

\* The response leaves; whether it arrives changes nothing here.
Answer(r) ==
  /\ pc[r] = "answer"
  /\ Finish(r)
  /\ UNCHANGED <<row, now, history>>

\* Requests that hold a consumed code and have not answered.
Holding(d) == {r \in Request : pc[r] \in {"check", "save", "answer"} /\ req[r].code = d}

\* The process dies between two awaits and restarts over the same rows.
Crash ==
  /\ \E r \in Request : pc[r] # "idle"
  /\ dropped' = dropped \union {d \in Code : Holding(d) # {}}
  /\ pc' = [r \in Request |-> "idle"]
  /\ req' = [r \in Request |-> None]
  /\ seen' = [r \in Request |-> None]
  /\ stamp' = [r \in Request |-> 0]
  /\ UNCHANGED <<row, now, granted, mints, opened, burnt>>

Tick ==
  /\ now < MaxTime
  /\ now' = now + 1
  /\ UNCHANGED <<row, pc, local, history>>

Step(r) ==
  \/ Consume(r) \/ RefuseCode(r) \/ RefuseBinding(r)
  \/ Mint(r) \/ SaveRefresh(r) \/ Answer(r)

Exchange ==
  \/ \E r \in Request, p \in Params : Receive(r, p)
  \/ \E r \in Request : Step(r)
  \/ Crash

Next ==
  \/ \E d \in Code, c \in Client, u \in User, s \in SUBSET Scope, x \in Redirect,
        v \in Verifier : IssueCode(d, c, u, s, x, S256(v))
  \/ Exchange
  \/ Tick

Spec == Init /\ [][Next]_vars

------------------------------------------------------------------------------
\* Properties.

\* A code yields one access token and at most one refresh family, however its
\* exchanges overlap and whenever the process dies ("otherwise two concurrent
\* /token requests could both succeed", authorization_code_repository.py).
CodeBuysOnce == \A d \in Code : mints[d] <= 1 /\ opened[d] <= mints[d]

\* What a code bought is what it was bound to: its client, the holder of its
\* verifier, its user and its whole scope, which the client is registered for.
GrantMatchesCode ==
  \A d \in Code : \A g \in granted[d] :
    /\ g.client = row[d].client /\ g.user = row[d].user
    /\ S256(g.verifier) = row[d].challenge
    /\ g.scope = row[d].scope /\ g.scope \subseteq AllowedScopes[g.client]

\* No code is lost without a reason: if it is consumed it bought its tokens, a
\* request is still working on it, or that request failed a check or died.
\* And the answer never leaves with half of what the client is entitled to.
CodesAccounted ==
  \A d \in Code : row[d] # None =>
    /\ row[d].consumed =>
         mints[d] = 1 \/ Holding(d) # {} \/ d \in burnt \union dropped
    /\ \A r \in Holding(d) :
         pc[r] = "answer" => opened[d] = IF row[d].client \in Refreshing THEN 1 ELSE 0

------------------------------------------------------------------------------
\* Refinement: what a code is to OneTimeGrant.

StateOf(d) ==
  CASE mints[d] = 2 -> "spent twice"
    [] mints[d] = 1 -> "spent"
    [] mints[d] = 0 /\ row[d] = None -> "new"
    [] mints[d] = 0 /\ row[d] # None /\ ~row[d].consumed -> "approved"
    [] mints[d] = 0 /\ row[d] # None /\ row[d].consumed ->
         IF Holding(d) # {} THEN "claimed" ELSE "lost"

\* The terms of an approval, and of a grant.
TermsOf(c) ==
  [client |-> c.client, user |-> c.user, scope |-> c.scope, challenge |-> c.challenge]

TermsOfGrant(g) ==
  [client |-> g.client, user |-> g.user, scope |-> g.scope, challenge |-> S256(g.verifier)]

DueFor(d) ==
  CASE StateOf(d) \in {"approved", "claimed"} -> TermsOf(row[d])
    [] StateOf(d) \in {"spent", "spent twice"} -> TermsOfGrant(CHOOSE g \in granted[d] : TRUE)
    [] StateOf(d) \in {"new", "lost"} -> None

codeState == [d \in Code |-> StateOf(d)]
codeTerms == [d \in Code |-> DueFor(d)]

Grants == INSTANCE OneTimeGrant
            WITH state <- codeState, terms <- codeTerms,
                 Terms <- [client : Client, user : User, scope : SUBSET Scope,
                           challenge : {S256(v) : v \in Verifier}]

\* An approval buys tokens once and for what was approved, whoever overlaps with
\* whom and whatever dies: consume is "atomic single-use consumption"
\* (authorization_code_repository.py).
KeepsPromise == Grants!Spec
==============================================================================
