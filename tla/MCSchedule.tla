----------------------------- MODULE MCSchedule -----------------------------
(* Small instances of Schedule and ServiceDay for TLC.                     *)
EXTENDS Schedule, ServiceDay

CONSTANTS k1, k2

\* The second feed retimes one key and drops the other.
MCTimetable ==
  <<[k \in {k1, k2} |-> "x"], [k \in {k1} |-> "y"]>>
MCUnrouted(a) == IF a = "x" THEN "x, no route" ELSE "y, no route"

\* Clocks go from UTC-8 to UTC-7 at two in the morning of day 2, and back at
\* two in the morning of day 4.
MCUtcOffset(t) ==
  IF t < 2 * DAY + 10 * HOUR \/ t >= 4 * DAY + 9 * HOUR THEN -8 * HOUR ELSE -7 * HOUR

MCTimes ==
  {<<>>, <<8, 60, 0>>, <<25, 14, 0>>}
    \union {<<h, m, 0>> : h \in 0..36, m \in {0, 30}}

\* The arithmetic against the wall clock: everything from noon of the day before
\* to noon of the day after a change, the repeated hour and the hour that is
\* skipped included.
ASSUME ShownOnTheWall(MCTimes)
ASSUME DaysTellChanges

\* By hand: 8 o'clock on each date, and 25:14 (test_scheduled_time.py).
ASSUME \A d \in ServiceDates :
  /\ Local(CHOOSE t \in ScheduledUtc(d, <<8, 0, 0>>) : TRUE) = d * DAY + 8 * HOUR
  /\ ScheduledUtc(d, <<8, 60, 0>>) = {}
  /\ IsOnTime(d, <<>>, 0) = {}
=============================================================================
