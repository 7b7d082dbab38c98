---------------------------- MODULE TokenService ----------------------------
(***************************************************************************)
(* POST /token from the header to the answer, for the grants that keep no  *)
(* state of their own (client_credentials, jwt-bearer, token-exchange),    *)
(* with the tokens that the other grants issue as their subject tokens.    *)
(*                                                                         *)
(* A request writes nothing that another one reads and the clients' rows   *)
(* never change (seeding again saves the same ones), so a request is one   *)
(* step, and as none depends on two tokens, the state has one: the one     *)
(* that somebody holds and may present, whichever it is.  A request that   *)
(* is refused changes nothing and is left out.  The clock is read when a   *)
(* token is verified and again when one is issued: a tick in between is    *)
(* not modelled.                                                           *)
(***************************************************************************)
EXTENDS AccessTokens

CONSTANTS
  Headers, Forms, Asked, \* what may arrive: subsets of Header, Form and SUBSET Scope
  Registration,    \* ClientId -> Client: the rows of clients
  IssuerAudiences, \* Issuer -> SUBSET Audience: the demo issuers
  Foreign,         \* issuer keys that are never registered
  MaxTime,         \* bounds of the model: the clock stops here,
  MaxHops          \* and a token is exchanged no further than this

ASSUME ServiceAssumption ==
  /\ Headers \subseteq Header /\ Forms \subseteq Form /\ Asked \subseteq SUBSET Scope
  /\ Registration \in [ClientId -> Client \union {None}]
  /\ IssuerAudiences \in [Issuer -> SUBSET Audience]
  /\ Foreign \subseteq IssuerKey
  /\ None \notin IssuerKey \union Token \union Client \union Trusted

VARIABLES
  settings,   \* token_format, and whether the signing key is kept in a file
  signing,    \* the signing key of the running server
  trusted,    \* the rows of trusted_assertion_issuers
  registered, \* history: the issuer keys ever saved there
  held,       \* issuer keys that somebody holds: the printed ones, and Foreign
  token,      \* a token that was issued
  now         \* Clock.now()

issuers == <<trusted, registered, held>>
vars == <<settings, signing, issuers, token, now>>

TypeOK ==
  /\ settings \in [format : {"jwt", "opaque"}, keyPath : BOOLEAN]
  /\ signing \in Key
  /\ trusted \in [Issuer -> Trusted \union {None}]
  /\ registered \in SUBSET IssuerKey /\ held \in SUBSET IssuerKey
  /\ token \in Token \union {None}
  /\ now \in Nat

Init ==
  /\ settings \in [format : {"jwt", "opaque"}, keyPath : BOOLEAN]
  /\ signing \in Key
  /\ trusted = [i \in Issuer |-> None] /\ registered = {} /\ held = Foreign
  /\ token = None /\ now = 0

------------------------------------------------------------------------------
\* The token endpoint.

\* A client that the pipeline lets in, and whether it showed its secret.
Admission == [id : ClientId, proved : BOOLEAN]

SecretIn(secret, header, form) ==
  secret = form.secret \/ (header.kind = "basic" /\ secret = header.secret)

Admissions ==
  {a \in Admission : \E header \in Headers, form \in Forms :
     /\ AuthenticatesAs(Registration, Credentials(header, form), a.id)
     /\ a.proved = SecretIn(Registration[a.id].secret, header, form)}

Allowed(a) == Registration[a.id].scopes

\* The grant that the registry resolves, for a client that may use it.
Serves(a, g) == SupportsGrant(Registration[a.id], g)

Answer(new) ==
  /\ token' \in new
  /\ UNCHANGED <<settings, signing, issuers, now>>

Minted(a, sub, s, from, hops) ==
  AccessToken(settings.format, signing, sub, a.id, s, now, from, hops, a.proved)

Rooted(a, kind, sub, s, signer) ==
  Minted(a, sub, s, RootOf(kind, signing, sub, s, now + AccessTTL, signer), 0)

\* The client for itself.
ClientCredentials(a, asked) ==
  /\ Serves(a, "client_credentials")
  /\ Grantable(asked, Allowed(a))
  /\ Answer({Rooted(a, "client", a.id, Granted(asked, Allowed(a)), None)})

\* The grants that CodeExchange, DeviceFlow and RefreshRotation model, for a user
\* who approved s: the access token, and for a code with openid an id_token.
UserGrant(a, g, u, s) ==
  /\ Serves(a, g) /\ s \subseteq Allowed(a)
  /\ Answer({Rooted(a, "user", u, s, None)} \union
       IF g = "authorization_code" /\ OpenId \in s
       THEN {IdToken(signing, u, a.id, s, now, a.proved)} ELSE {})

\* Whoever holds a key signs what he likes with it, early or late.
JwtBearer(a, assertion, asked) ==
  /\ Serves(a, "jwt-bearer") /\ assertion.key \in held
  /\ trusted[assertion.iss] # None
  /\ AssertionVerifies(assertion, trusted[assertion.iss], now)
  /\ Grantable(asked, Allowed(a))
  /\ Answer({Rooted(a, "assertion", assertion.sub, Granted(asked, Allowed(a)), assertion.key)})

\* The subject_token is decoded as one of our own; the token it buys has its
\* subject and a lifetime that starts now.
TokenExchange(a, type, requested, asked) ==
  /\ Serves(a, "token-exchange")
  /\ requested = "access_token" /\ type \in DecodableTypes
  /\ token # None /\ token.hops < MaxHops
  /\ VerifiesAsOwn(token, signing, now)
  /\ LET bound == UpperBound(token.scope, Allowed(a)) IN
       /\ Grantable(asked, bound)
       /\ Answer({Minted(a, token.sub, Granted(asked, bound), token.from, token.hops + 1)})

------------------------------------------------------------------------------
\* The environment.

\* What a run of the seed command changes here: a fresh key pair in the row of
\* issuer i, printed or, if the run dies first, lost.
SeedIssuer(i, k) ==
  /\ k \in IssuerKey \ (registered \union held)
  /\ registered' = registered \union {k}
  /\ trusted' = [trusted EXCEPT ![i] = [key |-> k, audiences |-> IssuerAudiences[i]]]
  /\ held' \in {held, held \union {k}}
  /\ UNCHANGED <<settings, signing, token, now>>

\* The server starts again: without a key file it makes itself a new key.
Restart ==
  /\ signing' \in IF settings.keyPath THEN {signing}
                  ELSE Key \ ({signing} \union {t.key : t \in {token} \ {None}})
  /\ UNCHANGED <<settings, issuers, token, now>>

Tick ==
  /\ now < MaxTime
  /\ now' = now + 1
  /\ UNCHANGED <<settings, signing, issuers, token>>

Request ==
  \E a \in Admissions, asked \in Asked :
    \/ ClientCredentials(a, asked)
    \/ \E g \in {"authorization_code", "device_code", "refresh_token"}, u \in User :
         UserGrant(a, g, u, asked)
    \/ \E assertion \in [iss : Issuer, sub : Subject, aud : Audience, exp : {now, now + 1}, key : held] :
         JwtBearer(a, assertion, asked)
    \/ \E type \in SubjectType, requested \in RequestedType :
         TokenExchange(a, type, requested, asked)

Next ==
  \/ Request
  \/ \E i \in Issuer, k \in IssuerKey : SeedIssuer(i, k)
  \/ Restart
  \/ Tick

Spec == Init /\ [][Next]_vars

------------------------------------------------------------------------------
\* Properties.

\* Through any chain of exchanges, by whichever clients, a token never has a
\* scope that its first grant had not, nor one its client may not have
\* ("exchange never widens", token_exchange_grant.py).
ExchangeNeverWidens ==
  token # None => token.scope \subseteq token.from.scope \intersect Registration[token.client].scopes

\* The subject stays the one of the first grant, and the chain stays under one
\* signing key: a restart without a key file ends it.
ChainIntact == token # None => token.sub = token.from.sub /\ token.key = token.from.key

\* Every exchange buys less than one more lifetime: it starts from a token that
\* is still alive.
LifetimeEarned ==
  token # None =>
    /\ token.hops = 0 => token.exp = token.from.exp
    /\ token.hops > 0 => token.exp < token.from.exp + token.hops * AccessTTL

\* What /userinfo would tell the holder of a token about a user, that user or an
\* assertion about that user granted, however often the token was exchanged.
UserInfoWithinGrant ==
  token # None /\ token.sub \in User =>
    /\ token.from.kind \in {"user", "assertion"}
    /\ Discloses(token, signing, now) \subseteq token.from.scope

\* No token goes to a client that is not a public one unless the request carried
\* its secret, whatever combination of headers and fields that was.
SecretShown == token # None /\ Registration[token.client].method # "none" => token.proved

\* A token that goes back to an assertion goes back to one that a key signed
\* which the seed command had registered.
Vouched == token # None /\ token.from.kind = "assertion" => token.from.signer \in registered
=============================================================================
