------------------------ MODULE ClientAuthentication ------------------------
(***************************************************************************)
(* Client authentication at /token: what CoreHandler takes out of the      *)
(* Authorization header and the form, and what ClientCredentialsPipeline   *)
(* makes of it.  No state: the registered clients are a parameter.         *)
(***************************************************************************)
EXTENDS Naturals, Sequences

CONSTANTS
  ClientId,  \* client_id values
  Secret,    \* client secrets; a row holds a hash, which stands for its secret
  Empty,     \* the empty string, which only a Basic header can carry
  GrantType, \* GrantType: the values of grant_type that the enum knows
  Scope,     \* scope tokens that satisfy the ABNF of RFC 6749
  None       \* absent

ASSUME AuthenticationAssumption ==
  /\ Empty \notin ClientId \union Secret
  /\ None \notin ClientId \union Secret

\* A client row.  "private_key_jwt" stands for the four registered methods that
\* no authenticator implements.
Method == {"client_secret_basic", "client_secret_post", "none", "private_key_jwt"}

Client == [secret : Secret \union {None}, method : Method,
           grants : SUBSET GrantType, scopes : SUBSET Scope]

SupportsGrant(client, g) == g \in client.grants

\* What arrives.  Any scheme but Basic, and a Basic header whose value does not
\* decode or has no colon; and the form, in which an empty field is absent.
Header ==
  [kind : {"absent", "other", "malformed"}]
    \union [kind : {"basic"}, id : ClientId \union {Empty}, secret : Secret \union {Empty}]

Form == [id : ClientId \union {None}, secret : Secret \union {None}, assertion : BOOLEAN]

\* _extract_credentials: a header that is not Basic counts as no header.
Credentials(header, form) ==
  [basic |-> IF header.kind \in {"basic", "malformed"} THEN header ELSE None, form |-> form]

\* The order in which the container lists the authenticators.
Pipeline == <<"client_secret_basic", "client_secret_post", "none">>

\* can_handle of the authenticator for method m.
Handles(m, creds) ==
  \/ /\ m = "client_secret_basic" /\ creds.basic # None
  \/ /\ m = "client_secret_post" /\ creds.basic = None
     /\ creds.form.id # None /\ creds.form.secret # None
  \/ /\ m = "none" /\ creds.basic = None
     /\ creds.form.id # None /\ creds.form.secret = None /\ ~creds.form.assertion

\* The first authenticator that can handle the request, if there is one.
Picks(m, creds) ==
  \E i \in DOMAIN Pipeline :
    /\ Pipeline[i] = m /\ Handles(m, creds)
    /\ \A j \in 1 .. i - 1 : ~Handles(Pipeline[j], creds)

\* What that authenticator reads: the decoded header, or the form.
Presented(m, creds) == IF m = "client_secret_basic" THEN creds.basic ELSE creds.form

\* Mutant: the authenticator for public clients does not look at the method.
RegisteredForAny(client, m) == m = "none" \/ client.method = m

\* The method has to be the one the client registered.
RegisteredFor(client, m) == client.method = m

\* _verify_secret, which the authenticator for public clients has not got.
Verifies(client, m, presented) ==
  m = "none" \/ (client.secret # None /\ client.secret = presented.secret)

Malformed(m, creds) == m = "client_secret_basic" /\ creds.basic.kind = "malformed"

\* find_by_id.
Found(rows, c) == rows[c] # None

\* The pipeline returns client c, as rows has it.  Any other request is refused
\* (an empty client_id by the ValueError of ClientId, which is no OAuthError).
AuthenticatesAs(rows, creds, c) ==
  \E m \in Method :
    /\ Picks(m, creds) /\ ~Malformed(m, creds)
    /\ c = Presented(m, creds).id /\ Found(rows, c)
    /\ RegisteredFor(rows[c], m) /\ Verifies(rows[c], m, Presented(m, creds))
=============================================================================
