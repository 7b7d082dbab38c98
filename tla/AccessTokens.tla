---------------------------- MODULE AccessTokens ----------------------------
(***************************************************************************)
(* Tokens as this server makes and reads them: the issuers of access and   *)
(* id tokens, the verifiers of /userinfo and token exchange, the verifier  *)
(* of assertions, and the scope algebra of the grants.  No state.          *)
(*                                                                         *)
(* A signature is the key that made it: verifying compares keys, as nobody *)
(* signs with a key he does not hold.  The audience of an access token is  *)
(* chosen by its caller and read by nobody here; it is left out.           *)
(***************************************************************************)
EXTENDS ClientAuthentication

CONSTANTS
  User,      \* subjects of the users table
  Key,       \* signing keys of this server
  IssuerKey, \* signing keys of assertion issuers
  Issuer,    \* names of assertion issuers
  Audience,  \* aud values of assertions
  TokenEndpoint, \* the aud value that is this server's token endpoint
  Profile, Email, OpenId, \* scopes with a meaning of their own
  AccessTTL, \* access_token_ttl_seconds, in ticks
  IdTTL      \* the lifetime of an id_token, in ticks

\* A client that is a user as well would read that user's data (README).
ASSUME TokensAssumption ==
  /\ ClientId \intersect User = {}
  /\ TokenEndpoint \in Audience
  /\ {Profile, Email, OpenId} \subseteq Scope
  /\ AccessTTL \in Nat /\ IdTTL \in Nat

Subject == User \union ClientId

\* History: what the first token of a chain of exchanges was granted for.
\* signer is the key of the assertion, if it was one.
Root == [kind : {"user", "client", "assertion"}, sub : Subject, scope : SUBSET Scope,
         key : Key, exp : Nat, signer : IssuerKey \union {None}]

\* from, hops (how many exchanges ago) and proved (the request came with the
\* client's secret) are history.
Token == [format : {"jwt", "opaque"}, key : Key, sub : Subject, client : ClientId,
          scope : SUBSET Scope, exp : Nat, from : Root, hops : Nat, proved : BOOLEAN]

Assertion == [iss : Issuer, sub : Subject, aud : Audience, exp : Nat, key : IssuerKey]

\* A row of trusted_assertion_issuers.
Trusted == [key : IssuerKey, audiences : SUBSET Audience]

------------------------------------------------------------------------------
\* Issuing.

\* Mutant: subject and client_id are swapped.
AccessTokenSwapped(format, key, sub, client, scope, now, from, hops, proved) ==
  [format |-> format, key |-> key, sub |-> client, client |-> sub, scope |-> scope,
   exp |-> now + AccessTTL, from |-> from, hops |-> hops, proved |-> proved]

\* TokenIssuerFactory picks the issuer by token_format.  Nothing of an opaque
\* token is stored, so its other fields are history as well.
AccessToken(format, key, sub, client, scope, now, from, hops, proved) ==
  [format |-> format, key |-> key, sub |-> sub, client |-> client, scope |-> scope,
   exp |-> now + AccessTTL, from |-> from, hops |-> hops, proved |-> proved]

RootOf(kind, key, sub, scope, exp, signer) ==
  [kind |-> kind, sub |-> sub, scope |-> scope, key |-> key, exp |-> exp, signer |-> signer]

\* An id_token is always a JWT, without a scope, and short-lived.
IdToken(key, sub, client, scope, now, proved) ==
  [format |-> "jwt", key |-> key, sub |-> sub, client |-> client, scope |-> {},
   exp |-> now + IdTTL, from |-> RootOf("user", key, sub, scope, now + IdTTL, None), hops |-> 0,
   proved |-> proved]

------------------------------------------------------------------------------
\* Scopes.

\* ScopeValidator.grantable refuses any scope beyond the allowed ones ...
Grantable(requested, allowed) == requested \subseteq allowed

\* ... and reads an empty request as all of them.
Granted(requested, allowed) == IF requested = {} THEN allowed ELSE requested

\* Mutant: only the client limits an exchange.
UpperBoundOfClient(subjectScope, clientScope) == clientScope

\* TokenExchangeGrant._derive_scope, steps 1 and 2.
UpperBound(subjectScope, clientScope) == subjectScope \intersect clientScope

------------------------------------------------------------------------------
\* Verifying.

\* Mutant: exp is not checked.
VerifiesEver(t, key, now) == t.format = "jwt" /\ t.key = key

\* Mutant: the signature is not checked.
VerifiesAny(t, key, now) == t.format = "jwt" /\ now < t.exp

\* jwt.decode of a token of our own.  Neither of the two verifiers looks at the
\* audience, nor at typ: an id_token passes for an access token.
VerifiesAsOwn(t, key, now) == t.format = "jwt" /\ t.key = key /\ now < t.exp

\* JwtAccessTokenVerifier.verify, for /userinfo ...
AcceptedByUserInfo(t, key, now) == VerifiesAsOwn(t, key, now)

\* ... and GetUserInfoService: the claims about the subject that a scope releases.
ReleasedClaims(t) == t.scope \intersect {Profile, Email}

\* GET /userinfo: what it tells about the subject of t, who has to be a user.
Discloses(t, key, now) ==
  IF AcceptedByUserInfo(t, key, now) /\ t.sub \in User THEN ReleasedClaims(t) ELSE {}

\* subject_token_type: the three that are decoded as a JWT, and any other.
SubjectType == {"access_token", "id_token", "jwt", "saml2"}
DecodableTypes == {"access_token", "id_token", "jwt"}

\* requested_token_type, where a missing one means an access token.
RequestedType == {"access_token", "id_token"}

\* Mutant: the assertion is only decoded.
AssertionDecoded(a, trusted, now) == now < a.exp

\* PyJwtAssertionVerifier.verify.
AssertionVerifies(a, trusted, now) ==
  /\ a.key = trusted.key
  /\ a.aud \in {TokenEndpoint} \union trusted.audiences
  /\ now < a.exp
=============================================================================
