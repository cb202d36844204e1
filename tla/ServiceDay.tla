----------------------------- MODULE ServiceDay -----------------------------
(***************************************************************************)
(* Scheduled times (spark/scheduled_time.py and the end of fct_otp): a     *)
(* GTFS time counts from noon minus twelve hours of its service date, and  *)
(* its hours run past 24.  There is no state here.                         *)
(*                                                                         *)
(* Instants are seconds UTC; a wall clock shows an instant plus the offset *)
(* in force, and dates are numbered so that date d begins at d * DAY on    *)
(* the wall.  A value that may be NULL is a set of at most one.            *)
(***************************************************************************)
EXTENDS Integers, Sequences

CONSTANTS
  UtcOffset(_), \* the offset of the agency's zone at an instant
  ServiceDates  \* the well-formed service dates, by number

HOUR == 3600
DAY == 24 * HOUR
QUARTER == 900

Local(t) == t + UtcOffset(t)
Noon(d) == d * DAY + 12 * HOUR

\* The instants at which a wall may show w: offsets are quarters of an hour.
Around(w) == {w - q * QUARTER : q \in -56..56}
Showing(w) == {t \in Around(w) : Local(t) = w}

\* "Noon is never ambiguous" (scheduled_time.py:14).
ASSUME ServiceDayAssumption ==
  /\ ServiceDates \subseteq Int
  /\ \A t \in UNION {Around(Noon(d)) : d \in ServiceDates} : UtcOffset(t) \in Int
  /\ \A d \in ServiceDates : \E t \in Around(Noon(d)) : Showing(Noon(d)) = {t}

AsUtc(w) == CHOOSE t \in Around(w) : Local(t) = w

\* service_day_start_utc: to UTC first, twelve hours less then.  A date that
\* is not well-formed has no entry in the lookup.
DayStart(d) == IF d \in ServiceDates THEN {AsUtc(Noon(d)) - 12 * HOUR} ELSE {}

\* gtfs_time_to_seconds of <<hours, minutes, seconds>>, or of <<>> for what
\* does not match.
Seconds(time) ==
  IF Len(time) = 3 /\ time[2] \in 0..59 /\ time[3] \in 0..59
    THEN {time[1] * HOUR + time[2] * 60 + time[3]} ELSE {}

ScheduledUtc(d, time) == {start + s : start \in DayStart(d), s \in Seconds(time)}

DelayS(d, time, actual) == {actual - t : t \in ScheduledUtc(d, time)}

ON_TIME_EARLY_S == -60
ON_TIME_LATE_S == 300
IsOnTime(d, time, actual) ==
  {ON_TIME_EARLY_S <= delay /\ delay <= ON_TIME_LATE_S : delay \in DelayS(d, time, actual)}

---------------------------------------------------------------------------
\* What the arithmetic is for ("'8am' is 8am on every date",
\* test_scheduled_time.py:77): a scheduled time is the one the wall clock shows
\* on its date, past midnight on the next, however the clocks were changed before
\* noon, as long as they are not changed between noon and the time.
ShownOnTheWall(T) ==
  \A d \in ServiceDates, time \in T :
    \A t \in ScheduledUtc(d, time) :
      UtcOffset(t) = UtcOffset(AsUtc(Noon(d))) => {Local(t)} = {d * DAY + s : s \in Seconds(time)}

\* Service days are as long as their days on the wall from noon to noon, 23, 24
\* or 25 hours, so times of two days are as far apart as the changes say.
DaysTellChanges ==
  \A d, e \in ServiceDates :
    \A s \in DayStart(d), t \in DayStart(e) :
      t - s = (e - d) * DAY - (UtcOffset(AsUtc(Noon(e))) - UtcOffset(AsUtc(Noon(d))))
=============================================================================
