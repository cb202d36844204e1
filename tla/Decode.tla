------------------------------- MODULE Decode -------------------------------
(***************************************************************************)
(* From the bytes of a poll to validated events: the presence-aware        *)
(* decoder (ingest/poller/decode.py) and the event contracts               *)
(* (streaming/contracts.py).                                               *)
(*                                                                         *)
(* A payload is a sequence of entities.  A scalar that the agency left out *)
(* is Absent, which is not 0.                                              *)
(***************************************************************************)
EXTENDS Integers, Sequences, SequencesExt

CONSTANTS
  Absent,      \* HasField is false
  ServiceDates \* the well-formed service dates

ASSUME AbsentAssumption == Absent \notin ServiceDates \union Int

Feeds == {"trip_updates", "vehicle_positions"}

---------------------------------------------------------------------------
(* Decoding.                                                               *)

\* Broken: the default of an unset scalar is read.
GetDefault(msg, f) == IF msg = <<>> \/ Head(msg)[f] = Absent THEN 0 ELSE Head(msg)[f]

\* A submessage is a sequence of at most one record; a field of an unset one
\* is as absent as an unset field.
Get(msg, f) == IF msg = <<>> THEN Absent ELSE Head(msg)[f]

TripDescriptor(trip) ==
  [trip_id |-> Get(trip, "trip_id"), service_date |-> Get(trip, "start_date")]

\* The columns about a stop, of one StopTimeUpdate or, of an update that has
\* none, of nothing.  Those of the departure are the arrival's over again.
StopColumns(stu) ==
  LET arrival == IF stu = <<>> THEN <<>> ELSE Head(stu).arrival
  IN [stop_sequence |-> Get(stu, "stop_sequence"),
      arrival_time_epoch |-> Get(arrival, "time"),
      arrival_delay_s |-> Get(arrival, "delay"),
      arrival_uncertainty |-> Get(arrival, "uncertainty")]

TripUpdateRow(e, stu) ==
  [feed_type |-> "trip_updates",
   trip |-> TripDescriptor(e.trip),
   report_ts_epoch |-> e.timestamp,
   stop |-> StopColumns(stu),
   latitude |-> Absent, longitude |-> Absent]

DecodeTripUpdate(e) ==
  IF e.stop_time_update = <<>>
    THEN <<TripUpdateRow(e, <<>>)>>
    ELSE [k \in DOMAIN e.stop_time_update |-> TripUpdateRow(e, <<e.stop_time_update[k]>>)]

DecodeVehiclePosition(e) ==
  <<[feed_type |-> "vehicle_positions",
     trip |-> TripDescriptor(e.trip),
     report_ts_epoch |-> e.timestamp,
     stop |-> [StopColumns(<<>>) EXCEPT !.stop_sequence = e.current_stop_sequence],
     latitude |-> Get(e.position, "latitude"),
     longitude |-> Get(e.position, "longitude")]>>

\* A feed's decoder passes over the entities of any other kind.
DecodeRows(feed, entities) ==
  FlattenSeq([k \in DOMAIN entities |->
    IF entities[k].kind # feed THEN <<>>
    ELSE IF feed = "trip_updates" THEN DecodeTripUpdate(entities[k])
    ELSE DecodeVehiclePosition(entities[k])])

---------------------------------------------------------------------------
(* The contract.                                                           *)

ServiceDateShape(v) == v = Absent \/ v \in ServiceDates
NoEpochZero(v) == v = Absent \/ v > 0
UncertaintyNonNegative(v) == v = Absent \/ v >= 0
LatitudeRange(v) == v = Absent \/ (v >= -90 /\ v <= 90)
LongitudeRange(v) == v = Absent \/ (v >= -180 /\ v <= 180)

\* The decoder emits the fields the contract declares and no others, each of
\* its declared type: what is left to fail are the validators.
Conforms(row) ==
  /\ row.feed_type \in Feeds
  /\ ServiceDateShape(row.trip.service_date)
  /\ NoEpochZero(row.report_ts_epoch)
  /\ NoEpochZero(row.stop.arrival_time_epoch)
  /\ UncertaintyNonNegative(row.stop.arrival_uncertainty)
  /\ LatitudeRange(row.latitude) /\ LongitudeRange(row.longitude)

\* from_decoded_row: the flat row is split into envelope, trip and record.
FromDecodedRow(row) ==
  [envelope |-> [feed_type |-> row.feed_type],
   trip |-> row.trip,
   report_ts_epoch |-> row.report_ts_epoch,
   stop |-> row.stop,
   latitude |-> row.latitude, longitude |-> row.longitude]

\* Absent and empty are one bucket each, "nodate" and "notrip".
KeyFor(event) ==
  <<IF event.trip.service_date = Absent THEN "nodate" ELSE event.trip.service_date,
    IF event.trip.trip_id = Absent THEN "notrip" ELSE event.trip.trip_id>>
=============================================================================
