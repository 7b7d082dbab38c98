\* The in-memory adapter: patient and impatient devices, two users, crashes.
SPECIFICATION FairSpec
CONSTANTS
  Code = {d1}
  Client = {c1, c2}
  User = {u1, u2}
  Poll = {p1, p2}
  Consent = {q1, q2}
  CodeTTL = 3
  Interval = 1
  MaxTime = 3
  Suspends = FALSE
  None = None
INVARIANTS TypeOK IssuedOnce OneVerdict VerdictSticks PatienceRewarded PaidOnlyApprovers
PROPERTIES RedemptionIsFinal KeepsPromise ApprovalPays
CHECK_DEADLOCK FALSE
