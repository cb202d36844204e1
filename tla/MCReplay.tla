------------------------------ MODULE MCReplay ------------------------------
(* Two polls of predictions around one of positions, with each way a row    *)
(* can fail the contract, and files that do not decode.                     *)
EXTENDS Replay

CONSTANTS today, tripA

Trip(date) == <<[trip_id |-> tripA, start_date |-> date]>>
StopUpdate(seq, arr) == [stop_sequence |-> seq, arrival |-> arr]
Arrival(t, d, u) == <<[time |-> t, delay |-> d, uncertainty |-> u]>>
TripUpdate(trip, ts, stops) ==
  [kind |-> "trip_updates", trip |-> trip, timestamp |-> ts, stop_time_update |-> stops]
Vehicle(trip, ts, lat, lon) ==
  [kind |-> "vehicle_positions", trip |-> trip, timestamp |-> ts,
   current_stop_sequence |-> 1, position |-> <<[latitude |-> lat, longitude |-> lon]>>]

File(ts, feed, entities) ==
  [ts |-> ts, feed |-> feed, state |-> "whole", entities |-> entities]
Broken(ts, state) ==
  [ts |-> ts, feed |-> "trip_updates", state |-> state, entities |-> <<>>]

\* One update with a delay of 0 and one without any; later the trip again,
\* with an arrival at epoch 0, and a trip without identity or stops.
First == File(1, "trip_updates",
  <<TripUpdate(Trip(today), 1, <<StopUpdate(1, Arrival(5, 0, Absent)), StopUpdate(2, <<>>)>>),
    [kind |-> "alert"]>>)
Positions == File(2, "vehicle_positions",
  <<Vehicle(Trip("2026-08-06"), 2, 37, -122), Vehicle(Trip(today), 2, 91, -122),
    Vehicle(Trip(today), 2, 37, -181), Vehicle(Trip(today), 2, 37, -122)>>)
Second == File(3, "trip_updates",
  <<TripUpdate(Trip(today), Absent, <<StopUpdate(2, Arrival(0, Absent, 0)), StopUpdate(1, Arrival(6, 60, 0))>>),
    TripUpdate(<<>>, 3, <<>>)>>)

Archives0 ==
  {{}, {First, Second}, {First, Positions}, {First, Broken(2, "garbage"), Second},
   {Second, Broken(2, "truncated")}}
=============================================================================
