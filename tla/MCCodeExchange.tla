--------------------------- MODULE MCCodeExchange ---------------------------
(* Small instances of CodeExchange for TLC. *)
EXTENDS CodeExchange, FiniteSets, TLC

\* A first client that may have every scope and a second that may have one.
MCAllowedScopes ==
  [c \in Client |-> IF c \in Refreshing THEN Scope ELSE {CHOOSE s \in Scope : TRUE}]

\* Every client is registered with every redirect URI of the instance.
MCRedirectUris == [c \in Client |-> Redirect]

Symmetric == Permutations(Code) \union Permutations(Request) \union Permutations(User)
               \union Permutations(Verifier) \union Permutations(Redirect)
=============================================================================
