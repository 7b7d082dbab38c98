------------------------- MODULE MCAuthorizationFlow ------------------------
(* A small instance of AuthorizationFlow for TLC. *)
EXTENDS AuthorizationFlow, TLC

MCAllowedScopes == [c \in Client |-> {CHOOSE s \in Scope : TRUE}]
MCRedirectUris == [c \in Client |-> Redirect]

Symmetric == Permutations(Tab) \union Permutations(User) \union Permutations(Csrf)
               \union Permutations(Verifier)
=============================================================================
