\* SQLite: every grant.
SPECIFICATION Spec
CONSTANTS
  Backend = "sqlite"
  TTL = 2
  MaxTime = 3
  None = None
INVARIANTS EveryRequestAnswered
