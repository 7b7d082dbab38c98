----------------------------- MODULE TokenFamily -----------------------------
(***************************************************************************)
(* What the refresh-token store promises, with no handler in sight.  The   *)
(* domain model calls a refresh token single-use and the family_id the key *)
(* of a rotation chain (domain/model/refresh_token.py, port/outbound/      *)
(* refresh_token_repository.py): a family has at most one usable token, a  *)
(* rotation hands the family over to a token never seen before and never   *)
(* widens its scope, and a family that was killed stays dead.              *)
(***************************************************************************)

CONSTANTS
  Token,    \* refresh token values
  Family,   \* family_id values
  Scope,    \* scope atoms
  None      \* "no token", itself not a token

VARIABLES
  live,     \* the only token of the family a client can still redeem, or None
  ceiling,  \* the scope that token carries ({} once the family has none)
  born,     \* families that have ever had a token
  spent     \* tokens that can never be redeemed again

vars == <<live, ceiling, born, spent>>

Init ==
  /\ live = [f \in Family |-> None]
  /\ ceiling = [f \in Family |-> {}]
  /\ born = {}
  /\ spent = {}

Unseen(t) == t \notin spent /\ \A f \in Family : live[f] # t

\* A grant that signs a user in opens a family with its first token.
Begin(f, t, s) ==
  /\ f \notin born /\ Unseen(t)
  /\ live' = [live EXCEPT ![f] = t]
  /\ ceiling' = [ceiling EXCEPT ![f] = s]
  /\ born' = born \union {f}
  /\ UNCHANGED spent

\* The live token is exchanged, once, for its successor.
Succeed(f, t, s) ==
  /\ live[f] # None /\ Unseen(t)
  /\ s \subseteq ceiling[f]
  /\ live' = [live EXCEPT ![f] = t]
  /\ ceiling' = [ceiling EXCEPT ![f] = s]
  /\ spent' = spent \union {live[f]}
  /\ UNCHANGED born

\* A replay of any token of the family kills the whole chain.
Kill(f) ==
  /\ live[f] # None
  /\ live' = [live EXCEPT ![f] = None]
  /\ ceiling' = [ceiling EXCEPT ![f] = {}]
  /\ spent' = spent \union {live[f]}
  /\ UNCHANGED born

Next ==
  \E f \in Family :
    \/ \E t \in Token, s \in SUBSET Scope : Begin(f, t, s) \/ Succeed(f, t, s)
    \/ Kill(f)

Spec == Init /\ [][Next]_vars
==============================================================================
