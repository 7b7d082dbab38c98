\* The in-memory adapter: a handler runs from its arrival to its answer alone.
SPECIFICATION FairSpec
CONSTANTS
  Token = {t1, t2, t3, t4}
  Family = {f1}
  Client = {c1}
  Scope = {a}
  Request = {r1, r2}
  RefreshTTL = 2
  MaxTime = 2
  Suspends = FALSE
  None = None
INVARIANTS SecondUseRevokes
PROPERTIES ReplayKillsFamily
CHECK_DEADLOCK FALSE
