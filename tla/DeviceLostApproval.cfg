\* Polling against approval, over an adapter that suspends.
SPECIFICATION Spec
CONSTANTS
  Code = {d1}
  Client = {c1, c2}
  User = {u1}
  Poll = {p1}
  Consent = {q1}
  CodeTTL = 2
  Interval = 1
  MaxTime = 2
  Suspends = TRUE
  None = None
SYMMETRY Symmetric
INVARIANTS VerdictSticks
CHECK_DEADLOCK FALSE
