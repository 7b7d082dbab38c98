\* Signing in on the way to /authorize.
SPECIFICATION Spec
CONSTANTS
  Tab = {b1}
  User = {u1}
  AuthRequest = {a1}
  DevicePage = {e1}
  Csrf = {k1, k2}
  SessionTTL = 1
  MaxTime = 2
  None = None
INVARIANTS AuthorizeReturns
CHECK_DEADLOCK FALSE
