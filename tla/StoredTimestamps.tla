-------------------------- MODULE StoredTimestamps ---------------------------
(***************************************************************************)
(* What becomes of a deadline on its way through a storage adapter.  The   *)
(* services compute expires_at from SystemClock, whose datetimes carry UTC;*)
(* the ORM columns are DateTime() without a time zone.  Comparing a        *)
(* datetime with a zone to one without raises TypeError, which no handler  *)
(* catches: the request ends in a 500 and not in an OAuth answer.          *)
(***************************************************************************)
EXTENDS Naturals

CONSTANTS
  Backend,  \* the one in use: "memory", "sqlite" or "postgres"
  TTL,      \* lifetime of what is stored, in ticks
  MaxTime,  \* bound of the model: the clock stops here
  None      \* nothing stored, nothing answered

\* What has a deadline, one of each kind.
Artifact == {"authorization_code", "refresh_token", "device_code"}

\* A datetime: an instant, and whether it carries its zone.
Stamp == [at : Nat, aware : BOOLEAN]

VARIABLES
  expires,  \* expires_at of the stored artifact, as the adapter gives it back
  now,      \* SystemClock
  answer    \* how the last request about the artifact ended

vars == <<expires, now, answer>>

Init ==
  /\ expires = [k \in Artifact |-> None]
  /\ now = 0
  /\ answer = [k \in Artifact |-> None]

------------------------------------------------------------------------------
\* Conversions.

\* SystemClock.now().
Now == [at |-> now, aware |-> TRUE]

\* asyncpg refuses a datetime with a zone for a column without one (external).
Bindable(s) == Backend = "postgres" => ~s.aware

\* The in-memory adapters keep the object; SQLite drops the zone (external).
Stored(s) == IF Backend = "memory" THEN s ELSE [s EXCEPT !.aware = FALSE]

\* Python compares two datetimes only if both or neither have a zone.
Comparable(s, t) == s.aware = t.aware

Answers(k, how) == answer' = [answer EXCEPT ![k] = how]

\* Who compares the deadline with the clock: is_expired, except for the code of
\* the SQL adapters, whose consume compares inside its UPDATE.
ComparesInPython(k) == k # "authorization_code" \/ Backend = "memory"

------------------------------------------------------------------------------
\* Actions.

\* ConsentService, RefreshTokenGrant or RequestDeviceAuthorizationService saves
\* an artifact that is good for TTL.
Save(k) ==
  /\ LET deadline == [Now EXCEPT !.at = @ + TTL] IN
       IF Bindable(deadline)
         THEN /\ expires' = [expires EXCEPT ![k] = Stored(deadline)]
              /\ Answers(k, "ok")
         ELSE Answers(k, "crashed") /\ UNCHANGED expires
  /\ UNCHANGED now

\* A handler that uses it and can compare: consume, the refresh grant, a device
\* poll, a device consent or the device page.
Use(k) ==
  /\ expires[k] # None
  /\ ComparesInPython(k) => Comparable(Now, expires[k])
  /\ Answers(k, IF now >= expires[k].at THEN "refused" ELSE "ok")
  /\ UNCHANGED <<expires, now>>

\* ... and one that cannot: TypeError.
UseInVain(k) ==
  /\ expires[k] # None
  /\ ComparesInPython(k) /\ ~Comparable(Now, expires[k])
  /\ Answers(k, "crashed")
  /\ UNCHANGED <<expires, now>>

Tick ==
  /\ now < MaxTime
  /\ now' = now + 1
  /\ UNCHANGED <<expires, answer>>

Next == Tick \/ \E k \in Artifact : Save(k) \/ Use(k) \/ UseInVain(k)

Spec == Init /\ [][Next]_vars

------------------------------------------------------------------------------
\* Properties.

\* Every grant works over the backend: a request about an artifact the server
\* handed out ends in an OAuth answer ("implemented end-to-end", README.md).
EveryRequestAnswered == \A k \in Artifact : answer[k] # "crashed"
==============================================================================
