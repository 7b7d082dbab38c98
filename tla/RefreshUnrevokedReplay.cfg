\* The documented reaction to a second use, over an adapter that suspends.
SPECIFICATION Spec
CONSTANTS
  Token = {t1, t2, t3}
  Family = {f1}
  Client = {c1}
  Scope = {a}
  Request = {r1, r2}
  RefreshTTL = 2
  MaxTime = 2
  Suspends = TRUE
  None = None
INVARIANTS SecondUseRevokes
CHECK_DEADLOCK FALSE
