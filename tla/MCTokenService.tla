--------------------------- MODULE MCTokenService ---------------------------
(* A small instance of TokenService for TLC: three of the five demo clients, *)
(* one of them with client_secret_post, one user, and one issuer.            *)
EXTENDS TokenService, TLC

CONSTANTS spa, api, job, i1, j1, j2

MCClientId == {spa, api, job}
MCRegistration ==
  (spa :> [secret |-> None, method |-> "none", grants |-> {"authorization_code"},
           scopes |-> {OpenId, Profile}])
    @@ (api :> [secret |-> "s1", method |-> "client_secret_basic",
                grants |-> {"token-exchange", "client_credentials"}, scopes |-> {Profile}])
    @@ (job :> [secret |-> "s2", method |-> "client_secret_post",
                grants |-> {"token-exchange", "jwt-bearer"}, scopes |-> {Profile, Email}])
MCGrantType == {"authorization_code", "client_credentials", "jwt-bearer", "token-exchange"}
MCAudiences == [i \in Issuer |-> {"registered"}]

MCHeaders ==
  [kind : {"absent", "other", "malformed"}]
    \union [kind : {"basic"}, id : {api, job, Empty}, secret : {"s1", "s2"}]
MCForms == [id : {None, spa, api, job}, secret : {None, "s1", "s2"}, assertion : BOOLEAN]
MCAsked == SUBSET {OpenId, Profile, Email}

Symmetric == Permutations(Key) \union Permutations({j1, j2})
=============================================================================
