\* Two tabs and two accounts over one cookie jar; the session expires.
SPECIFICATION Spec
CONSTANTS
  Tab = {b1, b2}
  User = {u1, u2}
  AuthRequest = {a1}
  DevicePage = {e1}
  Csrf = {k1, k2, k3, k4}
  SessionTTL = 1
  MaxTime = 3
  None = None
SYMMETRY Symmetric
INVARIANTS TypeOK ApprovedInSession DeviceReturns
CHECK_DEADLOCK FALSE
