---------------------------- MODULE OneTimeGrant -----------------------------
(***************************************************************************)
(* What an authorization code and a device code promise alike, with no     *)
(* handler in sight: a user approves it once, for terms that never change  *)
(* (who may have what on whose behalf), and it buys tokens for these terms *)
(* once.  It is claimed "in one indivisible step" (consume and redeem, in  *)
(* application/port/outbound) before it is spent, so what dies in between  *)
(* is lost and never paid twice.                                           *)
(***************************************************************************)

CONSTANTS
  Code,  \* the codes
  Terms, \* what an approval is for
  None   \* no terms: not approved, or lost

VARIABLES
  state, \* how far each code has come
  terms  \* the terms it was approved for; once it is spent, those it was spent for

vars == <<state, terms>>

State == {"new", "open", "approved", "denied", "claimed", "spent", "lost"}

Init ==
  /\ state = [d \in Code |-> "new"]
  /\ terms = [d \in Code |-> None]

Moves(d, to) == state' = [state EXCEPT ![d] = to]

\* A code is handed out before anybody has been asked (the device's).
Open(d) ==
  /\ state[d] = "new" /\ Moves(d, "open")
  /\ UNCHANGED terms

\* A user approves; a code of the browser flow only comes to be by that.
Approve(d, t) ==
  /\ state[d] \in {"new", "open"} /\ Moves(d, "approved")
  /\ terms' = [terms EXCEPT ![d] = t]

Deny(d) ==
  /\ state[d] = "open" /\ Moves(d, "denied")
  /\ UNCHANGED terms

\* One request wins the code ...
Claim(d) ==
  /\ state[d] = "approved" /\ Moves(d, "claimed")
  /\ UNCHANGED terms

\* ... and gets tokens for just these terms.
Spend(d) ==
  /\ state[d] = "claimed" /\ Moves(d, "spent")
  /\ UNCHANGED terms

\* Codes that are not spent can be lost, several at once when a process dies.  One
\* that had only been handed out may be as good as new.
Lose(lost, forgotten) ==
  /\ \A d \in lost : state[d] \in {"open", "approved", "denied", "claimed"}
  /\ \A d \in forgotten : state[d] = "open"
  /\ state' = [d \in Code |-> IF d \in lost THEN "lost"
                              ELSE IF d \in forgotten THEN "new" ELSE state[d]]
  /\ terms' = [d \in Code |-> IF d \in lost THEN None ELSE terms[d]]

Next ==
  \/ \E d \in Code :
       \/ Open(d) \/ Deny(d) \/ Claim(d) \/ Spend(d)
       \/ \E t \in Terms : Approve(d, t)
  \/ \E lost, forgotten \in SUBSET Code : Lose(lost, forgotten)

Spec == Init /\ [][Next]_vars
==============================================================================
