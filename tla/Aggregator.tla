----------------------------- MODULE Aggregator -----------------------------
(***************************************************************************)
(* The prediction-accuracy aggregator (streaming/aggregator.py), reading   *)
(* the arrivals the resolver announces and the predictions the replay      *)
(* producer publishes.                                                     *)
(*                                                                         *)
(* It reads both topics from their beginning (its group never commits),    *)
(* until nothing has come for a while, keeps all it has read in memory,    *)
(* joins the two and writes the summaries.  A process that dies leaves     *)
(* nothing behind: its successor is this one, started later.               *)
(*                                                                         *)
(* Resolver is the other half of the system here: an arrival is the offset *)
(* of the position event it was made of, and that offset, in Ticks, is its *)
(* time.                                                                   *)
(***************************************************************************)
EXTENDS Resolver

CONSTANTS
  Updates,     \* events on the trip-updates topic: [stop, issued, header, predicted]
  NoStop,      \* the stop of an update without trip or stop sequence
  AgencyStops, \* the stops of the aggregator's agency
  Tick,        \* seconds between the offsets of the positions topic
  MaxUpdates   \* bound: updates published, the replayed ones included

ASSUME AggregatorAssumption ==
  /\ AgencyStops \subseteq Stops /\ NoStop \notin Stops
  /\ Updates \subseteq [stop : Stops \union {NoStop}, issued : Nat, header : Nat, predicted : Nat]
  /\ Tick \in Nat \ {0} /\ MaxUpdates \in Nat

Times == {u.issued : u \in Updates} \union {u.header : u \in Updates}
           \union {u.predicted : u \in Updates}

LEAD_BUCKETS == <<[lo |-> 0, hi |-> 120], [lo |-> 120, hi |-> 300], [lo |-> 300, hi |-> 600],
                  [lo |-> 600, hi |-> 1200], [lo |-> 1200, hi |-> 1000000000]>>

VARIABLES
  updates,     \* the trip-updates topic
  aggPhase,    \* "off", "consuming" or "done"
  readUpdates, \* events read from it,
  readArrivals, \* and from the arrivals topic
  predictions, \* predictions[s]: the pairs <<issued, predicted>> for s
  sightings,   \* the arrivals kept, as <<stop, time>>, in the order they came
  collapsed,   \* stats: duplicate predictions and arrivals
  dropped,     \* stats.pairs_dropped_negative_lead
  pairs        \* what join() made

aggMemory == <<readUpdates, readArrivals, predictions, sightings, collapsed, dropped, pairs>>
aggVars == <<updates, aggPhase, aggMemory>>
allVars == <<vars, aggVars>>

AggTypeOK ==
  /\ updates \in Seq(Updates) /\ Len(updates) <= MaxUpdates
  /\ aggPhase \in {"off", "consuming", "done"}
  /\ readUpdates \in 0..Len(updates)
  /\ readArrivals \in 0..Len(arrivals)
  /\ predictions \in [Stops -> SUBSET ((Times \ {0}) \X (Times \ {0}))]
  /\ \A s \in Stops \ AgencyStops : predictions[s] = {}
  /\ sightings \in Seq(AgencyStops \X Nat)
  /\ collapsed \in Nat /\ dropped \in Nat
  /\ pairs \subseteq [n : Nat, stop : AgencyStops, issued : Nat, predicted : Nat,
                     bucket : DOMAIN LEAD_BUCKETS]

AggInit ==
  /\ Init
  /\ updates = <<>> /\ aggPhase = "off"
  /\ readUpdates = 0 /\ readArrivals = 0
  /\ predictions = [s \in Stops |-> {}]
  /\ sightings = <<>>
  /\ collapsed = 0 /\ dropped = 0
  /\ pairs = {}

---------------------------------------------------------------------------
\* The producer, which replays the same archive as often as it is asked to.
PublishUpdate(u) ==
  /\ Len(updates) < MaxUpdates
  /\ updates' = Append(updates, u)
  /\ UNCHANGED <<vars, aggPhase, aggMemory>>

AggStart ==
  /\ aggPhase = "off" /\ aggPhase' = "consuming"
  /\ UNCHANGED <<vars, updates, aggMemory>>

\* A time of 0 is as good as none.
IssuedAt(u) == IF u.issued # 0 THEN u.issued ELSE u.header

Usable(u) == u.stop \in AgencyStops /\ u.predicted # 0 /\ IssuedAt(u) # 0

AddPrediction ==
  /\ aggPhase = "consuming" /\ readUpdates < Len(updates)
  /\ readUpdates' = readUpdates + 1
  /\ LET u == updates[readUpdates + 1]
         p == <<IssuedAt(u), u.predicted>>
     IN IF ~Usable(u) THEN UNCHANGED <<predictions, collapsed>>
        ELSE /\ predictions' = [predictions EXCEPT ![u.stop] = @ \union {p}]
             /\ collapsed' = IF p \in predictions[u.stop] THEN collapsed + 1 ELSE collapsed
  /\ UNCHANGED <<vars, updates, aggPhase, readArrivals, sightings, dropped, pairs>>

Sighting(k) == <<topic[k], k * Tick>>

\* Broken: an arrival is always a new one.
NeverSeen(a) == FALSE

IsDuplicate(a) == a \in Range(sightings)

AddArrival ==
  /\ aggPhase = "consuming" /\ readArrivals < Len(arrivals)
  /\ readArrivals' = readArrivals + 1
  /\ LET a == Sighting(arrivals[readArrivals + 1]) IN
       IF a[1] \notin AgencyStops THEN UNCHANGED <<sightings, collapsed>>
       ELSE IF IsDuplicate(a) THEN collapsed' = collapsed + 1 /\ UNCHANGED sightings
       ELSE sightings' = Append(sightings, a) /\ UNCHANGED collapsed
  /\ UNCHANGED <<vars, updates, aggPhase, readUpdates, predictions, dropped, pairs>>

---------------------------------------------------------------------------
(* The join: a pair is an occurrence, told by the place of its arrival.    *)

Lead(a, p) == a[2] - p[1]

InBucket(b, lead) == LEAD_BUCKETS[b].lo <= lead /\ lead < LEAD_BUCKETS[b].hi

\* The predictions of an arrival's stop, by their place beside it.
Candidates ==
  UNION {{n} \X predictions[sightings[n][1]] : n \in DOMAIN sightings}

\* Issued before the arrival, and no longer than the last bucket before it.
\* One issued later is a correction.
Join ==
  {[n |-> x[1], stop |-> sightings[x[1]][1], issued |-> x[2][1], predicted |-> x[2][2],
    bucket |-> CHOOSE b \in DOMAIN LEAD_BUCKETS : InBucket(b, Lead(sightings[x[1]], x[2]))] :
     x \in {c \in Candidates :
             LET lead == Lead(sightings[c[1]], c[2])
             IN lead > 0 /\ \E b \in DOMAIN LEAD_BUCKETS : InBucket(b, lead)}}

NegativeLeads ==
  Cardinality({c \in Candidates : Lead(sightings[c[1]], c[2]) <= 0})

\* No message for idle_s.  There may be one all the same, on its way.
AggFinish ==
  /\ aggPhase = "consuming" /\ aggPhase' = "done"
  /\ pairs' = Join
  /\ dropped' = NegativeLeads
  /\ UNCHANGED <<vars, updates, readUpdates, readArrivals, predictions, sightings, collapsed>>

\* The table by lead time: how many pairs.
Summarize(b) == Cardinality({x \in pairs : x.bucket = b})

AggNext ==
  \/ Next /\ UNCHANGED aggVars
  \/ \E u \in Updates : PublishUpdate(u)
  \/ AggStart \/ AddPrediction \/ AddArrival \/ AggFinish

AggSpec == AggInit /\ [][AggNext]_allVars

---------------------------------------------------------------------------
(* Properties.                                                             *)

\* What was read, as sets: a redelivered message "is the same event"
\* (aggregator.py:168).
ReadSightings ==
  {Sighting(k) : k \in Range(SubSeq(arrivals, 1, readArrivals))} \intersect (AgencyStops \X Nat)
ReadPredictions ==
  {<<u.stop, IssuedAt(u), u.predicted>> : u \in
     {v \in Range(SubSeq(updates, 1, readUpdates)) : v.stop \in AgencyStops
        /\ v.predicted # 0 /\ IssuedAt(v) # 0}}

SameStop == {x \in ReadSightings \X ReadPredictions : x[1][1] = x[2][1]}
LeadOf(x) == x[1][2] - x[2][2]
\* Leads beyond the last bucket, thirty years, are in no table and not counted.
LastLead == LEAD_BUCKETS[Len(LEAD_BUCKETS)].hi

\* "makes the aggregate idempotent under at-least-once delivery"
\* (aggregator.py:129): the tables are those of the distinct events read,
\* each pair of an arrival and a prediction issued before it in one lead-time
\* bucket, once, however often and in whatever order the messages came; and
\* the pairs left out are all counted.
AccuracyOfDistinctEvents ==
  aggPhase = "done" =>
    /\ \A b \in DOMAIN LEAD_BUCKETS :
         Summarize(b) = Cardinality({x \in SameStop : LeadOf(x) > 0 /\ InBucket(b, LeadOf(x))})
    /\ Cardinality(pairs) + dropped = Cardinality({x \in SameStop : LeadOf(x) < LastLead})

\* A visit to a stop weighs on the tables as often as the resolver announced
\* it at different times, which is bounded by the resolvers that were
\* started: a prediction is scored against at most that many arrivals.
WeightOf(s, i, p) ==
  Cardinality({x \in pairs : x.stop = s /\ x.issued = i /\ x.predicted = p})

WeightBounded ==
  \A x \in pairs : WeightOf(x.stop, x.issued, x.predicted) <= lives
=============================================================================
