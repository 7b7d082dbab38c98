\* Overlapping exchanges of one code, a stray client and a wrong verifier.
SPECIFICATION Spec
CONSTANTS
  Code = {d1}
  Client = {c1, c2}
  User = {u1}
  Scope = {a, b}
  Redirect = {x1, x2}
  Verifier = {v1, v2}
  Request = {r1, r2}
  AllowedScopes <- MCAllowedScopes
  RedirectUris <- MCRedirectUris
  Refreshing = {c1}
  CodeTTL = 2
  MaxTime = 2
  None = None
SYMMETRY Symmetric
INVARIANTS TypeOK CodeBuysOnce GrantMatchesCode CodesAccounted
PROPERTIES KeepsPromise
CHECK_DEADLOCK FALSE
