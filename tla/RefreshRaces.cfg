\* Overlapping presentations of two clients' chains over an adapter that suspends.
SPECIFICATION Spec
CONSTANTS
  Token = {t1, t2, t3, t4}
  Family = {f1, f2}
  Client = {c1, c2}
  Scope = {a}
  Request = {r1, r2}
  RefreshTTL = 1
  MaxTime = 1
  Suspends = TRUE
  None = None
SYMMETRY Symmetric
INVARIANTS TypeOK OneLiveToken RotatedOnce RevokedStaysDead NeverWidens RevocationEarned
PROPERTIES Tombstones OnlyOwnerRevokes KeepsPromise
CHECK_DEADLOCK FALSE
