------------------------- MODULE MCRefreshRotation --------------------------
(* Small instances of RefreshRotation for TLC. *)
EXTENDS RefreshRotation, TLC

\* Values and slots are interchangeable.
Symmetric == Permutations(Token) \union Permutations(Request)
               \union Permutations(Family) \union Permutations(Client)
               \union Permutations(Scope)
=============================================================================
