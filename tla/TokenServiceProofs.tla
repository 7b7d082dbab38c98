------------------------- MODULE TokenServiceProofs -------------------------
(***************************************************************************)
(* Proofs about TokenService, for every registration of clients, every     *)
(* chain of exchanges and every lifetime (TLC: three clients, two hops).   *)
(***************************************************************************)
EXTENDS TokenService, TLAPS

\* The key in a row of the issuers was saved there by the seed command.
SeededKeys == \A i \in Issuer : trusted[i] # None => trusted[i].key \in registered

\* What every token satisfies.  All but one conjunct is a property of the model;
\* that a client vouches for nobody but itself is what keeps /userinfo closed to it.
TokenOK(t) ==
  /\ t.scope \subseteq t.from.scope \intersect Registration[t.client].scopes
  /\ t.sub = t.from.sub /\ t.key = t.from.key
  /\ t.hops = 0 => t.exp = t.from.exp
  /\ t.hops > 0 => t.exp < t.from.exp + t.hops * AccessTTL
  /\ t.from.kind = "client" => t.from.sub \in ClientId
  /\ Registration[t.client].method # "none" => t.proved
  /\ t.from.kind = "assertion" => t.from.signer \in registered

Inv ==
  /\ TypeOK
  /\ SeededKeys
  /\ token # None => TokenOK(token)

------------------------------------------------------------------------------
\* Helpers.

\* Of the authenticators at most one can handle a request, whatever header and
\* fields it carries: the order in which the container lists them decides nothing.
THEOREM OneAuthenticatorEach ==
  ASSUME NEW creds, NEW m \in Method, Handles(m, creds)
  PROVE  /\ Picks(m, creds)
         /\ \A n \in Method : Handles(n, creds) => n = m
<1>1. \A n : Handles(n, creds) => n = m
  BY DEF Handles
<1>2. PICK i \in DOMAIN Pipeline : Pipeline[i] = m
  <2>1. /\ DOMAIN Pipeline = 1 .. 3 /\ Pipeline[1] = "client_secret_basic"
        /\ Pipeline[2] = "client_secret_post" /\ Pipeline[3] = "none"
    BY DEF Pipeline
  <2>2. m \in {"client_secret_basic", "client_secret_post", "none"}
    BY DEF Handles
  <2> QED
    BY <2>1, <2>2
<1>3. i \in 1 .. 3 /\ \A j \in 1 .. i - 1 : Pipeline[j] # m
  BY <1>2 DEF Pipeline
<1>4. \A j \in 1 .. i - 1 : ~Handles(Pipeline[j], creds)
  BY <1>1, <1>3
<1> QED
  BY <1>1, <1>2, <1>4 DEF Picks

\* A request that names one client in its header and another in its form is
\* never taken for both.
THEOREM OneIdentity ==
  ASSUME NEW rows, NEW creds, NEW c, NEW d,
         AuthenticatesAs(rows, creds, c), AuthenticatesAs(rows, creds, d)
  PROVE  c = d
<1>1. PICK m \in Method : Picks(m, creds) /\ c = Presented(m, creds).id
  BY DEF AuthenticatesAs
<1>2. PICK n \in Method : Picks(n, creds) /\ d = Presented(n, creds).id
  BY DEF AuthenticatesAs
<1>3. Handles(m, creds) /\ Handles(n, creds)
  BY <1>1, <1>2 DEF Picks
<1>4. m = n
  BY <1>3, OneAuthenticatorEach
<1> QED
  BY <1>1, <1>2, <1>4

\* Whom the pipeline lets in: a registered client, with its secret unless it is
\* a public one.
LEMMA AdmittedClient ==
  ASSUME NEW a \in Admissions
  PROVE  /\ a \in Admission
         /\ Registration[a.id] \in Client
         /\ Registration[a.id].method # "none" => a.proved
<1>1. PICK header \in Headers, form \in Forms :
        /\ AuthenticatesAs(Registration, Credentials(header, form), a.id)
        /\ a.proved = SecretIn(Registration[a.id].secret, header, form)
  BY DEF Admissions
<1> DEFINE creds == Credentials(header, form)
<1>2. PICK m \in Method :
        /\ Picks(m, creds) /\ ~Malformed(m, creds) /\ Found(Registration, a.id)
        /\ RegisteredFor(Registration[a.id], m)
        /\ Verifies(Registration[a.id], m, Presented(m, creds))
  BY <1>1 DEF AuthenticatesAs
<1>3. a \in Admission
  BY DEF Admissions
<1>4. Registration[a.id] \in Client
  BY <1>2, <1>3, ServiceAssumption DEF Found, Admission
<1>5. ASSUME Registration[a.id].method # "none" PROVE a.proved
  <2>1. m # "none" /\ Registration[a.id].secret = Presented(m, creds).secret
    BY <1>2, <1>5 DEF RegisteredFor, Verifies
  <2>2. Handles(m, creds)
    BY <1>2 DEF Picks
  <2>3. CASE m = "client_secret_basic"
    <3>1. creds.basic # None /\ creds.basic.kind # "malformed"
      BY <1>2, <2>2, <2>3 DEF Handles, Malformed
    <3>2. creds.basic = header /\ header.kind = "basic"
      BY <3>1 DEF Credentials
    <3> QED
      BY <1>1, <2>1, <2>3, <3>2 DEF Presented, SecretIn
  <2>4. CASE m = "client_secret_post"
    <3>1. Presented(m, creds) = form
      BY <2>4 DEF Presented, Credentials
    <3> QED
      BY <1>1, <2>1, <3>1 DEF SecretIn
  <2> QED
    BY <2>1, <2>2, <2>3, <2>4 DEF Handles
<1> QED
  BY <1>3, <1>4, <1>5

\* The scope that is granted is among the allowed ones.
LEMMA GrantedWithin ==
  ASSUME NEW asked, NEW allowed, Grantable(asked, allowed)
  PROVE  Granted(asked, allowed) \subseteq allowed
  BY DEF Grantable, Granted

\* A token that a grant issues by itself is as it should be.
LEMMA RootedOK ==
  ASSUME Inv, NEW a \in Admissions, NEW kind \in {"user", "client", "assertion"},
         NEW sub \in Subject, kind = "client" => sub \in ClientId,
         NEW s \in SUBSET Scope, s \subseteq Allowed(a),
         NEW signer \in IssuerKey \union {None}, kind = "assertion" => signer \in registered
  PROVE  Rooted(a, kind, sub, s, signer) \in Token /\ TokenOK(Rooted(a, kind, sub, s, signer))
<1> DEFINE t == Rooted(a, kind, sub, s, signer)
<1>1. /\ a \in Admission /\ Registration[a.id] \in Client
      /\ Registration[a.id].method # "none" => a.proved
  BY AdmittedClient
<1>2. /\ settings.format \in {"jwt", "opaque"} /\ signing \in Key
      /\ now \in Nat /\ now + AccessTTL \in Nat
  BY TokensAssumption DEF Inv, TypeOK
<1>3. t.from \in Root
  BY <1>2 DEF Rooted, Minted, AccessToken, RootOf, Root
<1>4. t \in Token
  BY <1>1, <1>2, <1>3 DEF Rooted, Minted, AccessToken, Token, Admission
<1>5. TokenOK(t)
  BY <1>1 DEF TokenOK, Rooted, Minted, AccessToken, RootOf, Allowed
<1> QED
  BY <1>4, <1>5

\* So is an id_token, which carries no scope at all.
LEMMA IdTokenOK ==
  ASSUME Inv, NEW a \in Admissions, NEW u \in User, NEW s \in SUBSET Scope
  PROVE  /\ IdToken(signing, u, a.id, s, now, a.proved) \in Token
         /\ TokenOK(IdToken(signing, u, a.id, s, now, a.proved))
<1> DEFINE t == IdToken(signing, u, a.id, s, now, a.proved)
<1>1. /\ a \in Admission /\ Registration[a.id] \in Client
      /\ Registration[a.id].method # "none" => a.proved
  BY AdmittedClient
<1>2. signing \in Key /\ now \in Nat /\ now + IdTTL \in Nat
  BY TokensAssumption DEF Inv, TypeOK
<1>3. t.from \in Root
  BY <1>2 DEF IdToken, RootOf, Root, Subject
<1>4. t \in Token
  BY <1>1, <1>2, <1>3 DEF IdToken, Token, Admission, Subject
<1>5. TokenOK(t)
  BY <1>1 DEF TokenOK, IdToken, RootOf
<1> QED
  BY <1>4, <1>5

\* A request adds a good token and touches nothing else.
LEMMA AnswerInv ==
  ASSUME Inv, NEW new, Answer(new), \A t \in new : t \in Token /\ TokenOK(t)
  PROVE  Inv'
<1>1. token' \in Token /\ TokenOK(token') /\ UNCHANGED <<settings, signing, issuers, now>>
  BY DEF Answer
<1>2. TypeOK'
  BY <1>1 DEF Inv, TypeOK, issuers
<1>3. SeededKeys'
  BY <1>1 DEF Inv, SeededKeys, issuers
<1>4. TokenOK(token)'
  BY <1>1 DEF TokenOK, issuers
<1> QED
  BY <1>2, <1>3, <1>4 DEF Inv

------------------------------------------------------------------------------
\* The grants.

\* client_credentials: the client is its own subject.
LEMMA ClientCredentialsInv ==
  ASSUME Inv, NEW a \in Admissions, NEW asked \in Asked, ClientCredentials(a, asked)
  PROVE  Inv'
<1> DEFINE s == Granted(asked, Allowed(a))
<1>1. a.id \in ClientId /\ Allowed(a) \in SUBSET Scope
  BY AdmittedClient DEF Admission, Allowed, Client
<1>2. s \subseteq Allowed(a)
  BY GrantedWithin DEF ClientCredentials
<1>3. LET t == Rooted(a, "client", a.id, s, None) IN t \in Token /\ TokenOK(t)
  BY <1>1, <1>2, RootedOK DEF Subject
<1> QED
  BY <1>3, AnswerInv DEF ClientCredentials

\* The grants for a user, whose scope the grant's own module bounds.
LEMMA UserGrantInv ==
  ASSUME Inv, NEW a \in Admissions, NEW g, NEW u \in User, NEW s \in SUBSET Scope,
         UserGrant(a, g, u, s)
  PROVE  Inv'
<1>1. s \subseteq Allowed(a)
  BY DEF UserGrant
<1>2. LET t == Rooted(a, "user", u, s, None) IN t \in Token /\ TokenOK(t)
  BY <1>1, RootedOK DEF Subject
<1>3. LET t == IdToken(signing, u, a.id, s, now, a.proved) IN t \in Token /\ TokenOK(t)
  BY IdTokenOK
<1> QED
  BY <1>2, <1>3, AnswerInv DEF UserGrant

\* jwt-bearer: the key that signed is the one in the row, so it was seeded.
LEMMA JwtBearerInv ==
  ASSUME Inv, NEW a \in Admissions, NEW asked \in Asked, NEW x,
         x.iss \in Issuer, x.sub \in Subject, x.key \in held, JwtBearer(a, x, asked)
  PROVE  Inv'
<1> DEFINE s == Granted(asked, Allowed(a))
<1>1. Allowed(a) \in SUBSET Scope
  BY AdmittedClient DEF Allowed, Client
<1>2. s \subseteq Allowed(a)
  BY GrantedWithin DEF JwtBearer
<1>3. x.key \in IssuerKey /\ x.key \in registered
  BY DEF Inv, TypeOK, JwtBearer, AssertionVerifies, SeededKeys
<1>4. LET t == Rooted(a, "assertion", x.sub, s, x.key) IN t \in Token /\ TokenOK(t)
  BY <1>1, <1>2, <1>3, RootedOK
<1> QED
  BY <1>4, AnswerInv DEF JwtBearer

\* One more exchange is one more lifetime.
LEMMA OneMoreHop ==
  ASSUME NEW h \in Nat, NEW T \in Nat
  PROVE  (h + 1) * T = h * T + T
  BY SMT

\* token-exchange: the new token inherits the history of a living one.
LEMMA TokenExchangeInv ==
  ASSUME Inv, NEW a \in Admissions, NEW type, NEW requested, NEW asked \in Asked,
         TokenExchange(a, type, requested, asked)
  PROVE  Inv'
<1> DEFINE bound == UpperBound(token.scope, Allowed(a))
           s == Granted(asked, bound)
           t == Minted(a, token.sub, s, token.from, token.hops + 1)
<1>1. token \in Token /\ TokenOK(token)
  BY DEF Inv, TypeOK, TokenExchange
<1>2. token.key = signing /\ now < token.exp
  BY DEF TokenExchange, VerifiesAsOwn
<1>3. /\ a \in Admission /\ Registration[a.id] \in Client
      /\ Registration[a.id].method # "none" => a.proved
  BY AdmittedClient
<1>4. bound \subseteq token.scope /\ bound \subseteq Allowed(a) /\ s \subseteq bound
  BY GrantedWithin DEF TokenExchange, UpperBound
<1>5. settings.format \in {"jwt", "opaque"} /\ signing \in Key /\ now \in Nat /\ AccessTTL \in Nat
  BY TokensAssumption DEF Inv, TypeOK
<1>6. /\ token.sub \in Subject /\ token.scope \in SUBSET Scope /\ token.exp \in Nat
      /\ token.from \in Root /\ token.from.exp \in Nat /\ token.hops \in Nat
  BY <1>1 DEF Token, Root
<1>7. s \in SUBSET Scope /\ now + AccessTTL \in Nat /\ token.hops + 1 \in Nat
  BY <1>4, <1>5, <1>6
<1>8. t \in Token
  BY <1>3, <1>5, <1>6, <1>7 DEF Minted, AccessToken, Token, Admission
<1>9. t.exp < t.from.exp + t.hops * AccessTTL
  <2>1. t.exp = now + AccessTTL /\ t.from = token.from /\ t.hops = token.hops + 1
    BY DEF Minted, AccessToken
  <2>2. (token.hops + 1) * AccessTTL = token.hops * AccessTTL + AccessTTL
    BY <1>5, <1>6, OneMoreHop
  <2>3. token.hops * AccessTTL \in Nat
    BY <1>5, <1>6, SMT
  <2>4. token.exp <= token.from.exp + token.hops * AccessTTL
    <3>1. CASE token.hops = 0
      BY <1>1, <1>6, <2>3, <3>1 DEF TokenOK
    <3>2. CASE token.hops > 0
      BY <1>1, <1>6, <2>3, <3>2 DEF TokenOK
    <3> QED
      BY <1>6, <3>1, <3>2
  <2> HIDE DEF t
  <2>5. now + AccessTTL < token.from.exp + (token.hops * AccessTTL + AccessTTL)
    BY <1>2, <1>5, <1>6, <2>3, <2>4
  <2> QED
    BY <2>1, <2>2, <2>5
<1>10. TokenOK(t)
  <2>1. /\ t.scope = s /\ t.client = a.id /\ t.sub = token.sub /\ t.key = signing
        /\ t.from = token.from /\ t.hops = token.hops + 1 /\ t.proved = a.proved
    BY DEF Minted, AccessToken
  <2>2. t.scope \subseteq t.from.scope \intersect Registration[t.client].scopes
    BY <1>1, <1>4, <2>1 DEF TokenOK, Allowed
  <2>3. t.hops # 0
    BY <1>6, <2>1
  <2> HIDE DEF t
  <2> QED
    BY <1>1, <1>2, <1>3, <1>9, <2>1, <2>2, <2>3 DEF TokenOK
<1> QED
  BY <1>8, <1>10, AnswerInv DEF TokenExchange

\* Seeding replaces a row and only adds to what was registered.
LEMMA SeedIssuerInv ==
  ASSUME Inv, NEW i \in Issuer, NEW k \in IssuerKey, SeedIssuer(i, k)
  PROVE  Inv'
<1> DEFINE new == [key |-> k, audiences |-> IssuerAudiences[i]]
<1>1. new \in Trusted /\ new.key = k
  BY ServiceAssumption DEF Trusted
<1>2. registered' = registered \union {k} /\ trusted' = [trusted EXCEPT ![i] = new]
      /\ held' \in SUBSET IssuerKey /\ UNCHANGED <<settings, signing, token, now>>
  BY DEF Inv, TypeOK, SeedIssuer
<1> HIDE DEF new
<1>3. TypeOK'
  BY <1>1, <1>2 DEF Inv, TypeOK
<1>4. SeededKeys'
  BY <1>1, <1>2 DEF Inv, TypeOK, SeededKeys
<1>5. token' # None => TokenOK(token)'
  BY <1>2 DEF Inv, TokenOK
<1> QED
  BY <1>3, <1>4, <1>5 DEF Inv

\* Inv is inductive.
LEMMA NextInv ==
  ASSUME Inv, [Next]_vars
  PROVE  Inv'
<1>1. CASE Request
  <2>1. PICK a \in Admissions, asked \in Asked :
          \/ ClientCredentials(a, asked)
          \/ \E g \in {"authorization_code", "device_code", "refresh_token"}, u \in User :
               UserGrant(a, g, u, asked)
          \/ \E x \in [iss : Issuer, sub : Subject, aud : Audience, exp : {now, now + 1}, key : held] :
               JwtBearer(a, x, asked)
          \/ \E type \in SubjectType, requested \in RequestedType :
               TokenExchange(a, type, requested, asked)
    BY <1>1 DEF Request
  <2>2. asked \in SUBSET Scope
    BY ServiceAssumption
  <2>3. CASE ClientCredentials(a, asked)
    BY <2>3, ClientCredentialsInv
  <2>4. ASSUME NEW g, NEW u \in User, UserGrant(a, g, u, asked) PROVE Inv'
    BY <2>2, <2>4, UserGrantInv
  <2>5. ASSUME NEW x \in [iss : Issuer, sub : Subject, aud : Audience, exp : {now, now + 1}, key : held],
               JwtBearer(a, x, asked)
        PROVE  Inv'
    BY <2>5, JwtBearerInv
  <2>6. ASSUME NEW type, NEW requested, TokenExchange(a, type, requested, asked) PROVE Inv'
    BY <2>6, TokenExchangeInv
  <2> QED
    BY <2>1, <2>3, <2>4, <2>5, <2>6
<1>2. CASE \E i \in Issuer, k \in IssuerKey : SeedIssuer(i, k)
  BY <1>2, SeedIssuerInv
<1>3. CASE Restart
  <2>1. signing' \in Key /\ UNCHANGED <<settings, issuers, token, now>>
    BY <1>3 DEF Inv, TypeOK, Restart
  <2> QED
    BY <2>1 DEF Inv, TypeOK, SeededKeys, TokenOK, issuers
<1>4. CASE Tick
  BY <1>4 DEF Inv, TypeOK, SeededKeys, TokenOK, Tick, issuers
<1>5. CASE UNCHANGED vars
  BY <1>5 DEF Inv, TypeOK, SeededKeys, TokenOK, vars, issuers
<1> QED
  BY <1>1, <1>2, <1>3, <1>4, <1>5 DEF Next

\* It holds in every reachable state.
THEOREM InvHolds == Spec => []Inv
<1>1. Init => Inv
  BY ServiceAssumption DEF Init, Inv, TypeOK, SeededKeys
<1>2. Inv /\ [Next]_vars => Inv'
  BY NextInv
<1> QED
  BY <1>1, <1>2, PTL DEF Spec

------------------------------------------------------------------------------
\* What follows.

\* Every variable keeps its type.
THEOREM TypeCorrect == Spec => []TypeOK
<1>1. Inv => TypeOK
  BY DEF Inv
<1> QED
  BY <1>1, InvHolds, PTL

\* However long the chain: no scope that the first grant had not.
THEOREM ExchangeOnlyNarrows == Spec => []ExchangeNeverWidens
<1>1. Inv => ExchangeNeverWidens
  BY DEF Inv, TokenOK, ExchangeNeverWidens
<1> QED
  BY <1>1, InvHolds, PTL

\* One subject and one signing key along a chain.
THEOREM ChainsIntact == Spec => []ChainIntact
<1>1. Inv => ChainIntact
  BY DEF Inv, TokenOK, ChainIntact
<1> QED
  BY <1>1, InvHolds, PTL

\* n exchanges buy less than n lifetimes.
THEOREM LifetimesEarned == Spec => []LifetimeEarned
<1>1. Inv => LifetimeEarned
  BY DEF Inv, TokenOK, LifetimeEarned
<1> QED
  BY <1>1, InvHolds, PTL

\* /userinfo tells about a user what that user, or an assertion about him, granted.
THEOREM UserInfoBounded == Spec => []UserInfoWithinGrant
<1>1. ASSUME Inv, token # None, token.sub \in User
      PROVE  /\ token.from.kind \in {"user", "assertion"}
             /\ Discloses(token, signing, now) \subseteq token.from.scope
  <2>1. token.from.kind \in {"user", "client", "assertion"}
    BY <1>1 DEF Inv, TypeOK, Token, Root
  <2>2. token.from.kind # "client"
    BY <1>1, TokensAssumption DEF Inv, TokenOK
  <2>3. Discloses(token, signing, now) \subseteq token.scope
    BY DEF Discloses, ReleasedClaims
  <2> QED
    BY <1>1, <2>1, <2>2, <2>3 DEF Inv, TokenOK
<1>2. Inv => UserInfoWithinGrant
  BY <1>1 DEF UserInfoWithinGrant
<1> QED
  BY <1>2, InvHolds, PTL

\* No token for a client that is not public without its secret.
THEOREM SecretsShown == Spec => []SecretShown
<1>1. Inv => SecretShown
  BY DEF Inv, TokenOK, SecretShown
<1> QED
  BY <1>1, InvHolds, PTL

\* No assertion without a key that was seeded.
THEOREM AssertionsVouched == Spec => []Vouched
<1>1. Inv => Vouched
  BY DEF Inv, TokenOK, Vouched
<1> QED
  BY <1>1, InvHolds, PTL
=============================================================================
