\* Two tabs, two accounts and one code from /authorize to /token.
SPECIFICATION Spec
CONSTANTS
  Tab = {b1, b2}
  User = {u1, u2}
  Csrf = {k1, k2}
  SessionTTL = 0
  Code = {d1}
  Client = {c1}
  Scope = {a, b}
  Redirect = {x1}
  Verifier = {v1, v2}
  Request = {r1}
  AllowedScopes <- MCAllowedScopes
  RedirectUris <- MCRedirectUris
  Refreshing = {c1}
  CodeTTL = 1
  MaxTime = 1
  None = None
SYMMETRY Symmetric
INVARIANTS EveryTokenWasApproved
CHECK_DEADLOCK FALSE
