------------------------------- MODULE Replay -------------------------------
(***************************************************************************)
(* The replay producer (streaming/producer.py) and the topics it fills.    *)
(*                                                                         *)
(* A run walks the archived polls of both feeds in the order of their      *)
(* timestamps, decodes each and puts every row in the local queue of the   *)
(* client library: as an event, if it meets the contract, or as a dead     *)
(* letter.  The library's thread sends in the background; a message keeps  *)
(* its place in the queue until poll() or flush() has served its delivery  *)
(* report.  The same archive may be replayed again.  Pacing (--speed) and  *)
(* --max-polls are left out.                                               *)
(***************************************************************************)
EXTENDS Decode, FiniteSets

CONSTANTS
  Archives,  \* what may lie on disk: sets of files [ts, feed, state, entities]
  QueueSize, \* 500000 in the code
  MaxRuns,   \* bound: replays started
  MaxGiveUps \* bound: deliveries the library gives up in a run

Files == UNION Archives
DeadLetters == "dead_letter"
Topics == Feeds \union {DeadLetters}

Rows(f) == DecodeRows(f.feed, f.entities)
RowCount(f) == Len(Rows(f))

ASSUME ReplayAssumption ==
  /\ {QueueSize, MaxRuns, MaxGiveUps} \subseteq Nat
  /\ \A a \in Archives : IsFiniteSet(a)
  /\ \A f \in Files : f.ts \in Int /\ f.feed \in Feeds /\ RowCount(f) \in Nat

\* The repeated fields of a payload, and its submessages, are sequences.
ASSUME PayloadAssumption ==
  \A f \in Files :
    /\ f.entities \in Seq(Range(f.entities))
    /\ \A k \in DOMAIN f.entities : f.entities[k].kind = "trip_updates" =>
         LET updates == f.entities[k].stop_time_update IN
           /\ updates \in Seq(Range(updates))
           /\ \A n \in DOMAIN updates : updates[n].arrival \in Seq(Range(updates[n].arrival))

VARIABLES
  archive, \* the files on disk
  polls,   \* the files of this run, in its order
  at, row, \* the next poll, and the next row of it
  phase,   \* where the run is, or "idle"
  queue,   \* the library's queue: messages with the state of their delivery
  topics,  \* topics[t]: the messages on topic t
  deliveryFailures, \* stats.delivery_failures
  exit,    \* how the last run ended
  runs, giveUps \* bound counters; runs also tells the messages of two runs apart

library == <<queue, topics, giveUps>>
vars == <<archive, polls, at, row, phase, library, deliveryFailures, exit, runs>>

Message ==
  [topic : Topics, file : Files, poll : Nat \ {0}, row : Nat \ {0}, run : 1..MaxRuns]
Queued == [message : Message, delivery : {"waiting", "acked", "failed"}]

TypeOK ==
  /\ archive \in Archives
  /\ polls \in Seq(archive)
  /\ at \in 1..(Len(polls) + 1)
  /\ row \in Nat \ {0}
  /\ phase \in {"idle", "files", "rows", "draining"}
  /\ (phase \in {"rows", "draining"}) => at <= Len(polls)
  /\ queue \in SUBSET Queued
  /\ IsFiniteSet(queue) /\ Cardinality(queue) <= QueueSize
  /\ topics \in [Topics -> Seq(Message)]
  /\ deliveryFailures \in Nat
  /\ exit \in {"none", "ok", "failed", "crashed"}
  /\ runs \in 0..MaxRuns
  /\ giveUps \in 0..MaxGiveUps
  /\ phase # "idle" => runs > 0

Init ==
  /\ archive \in Archives
  /\ polls = <<>> /\ at = 1 /\ row = 1
  /\ phase = "idle"
  /\ queue = {}
  /\ topics = [t \in Topics |-> <<>>]
  /\ deliveryFailures = 0
  /\ exit = "none"
  /\ runs = 0 /\ giveUps = 0

---------------------------------------------------------------------------
(* The client library.                                                     *)

\* The message that row k of the n-th poll gives.
MessageOf(n, k) ==
  [topic |-> IF Conforms(Rows(polls[n])[k]) THEN polls[n].feed ELSE DeadLetters,
   file |-> polls[n], poll |-> n, row |-> k, run |-> runs]

\* Dead letters have no key: any order among them will do.
SameLane(m, n) ==
  /\ m.topic = n.topic /\ m.topic # DeadLetters
  /\ KeyFor(FromDecodedRow(Rows(m.file)[m.row])) = KeyFor(FromDecodedRow(Rows(n.file)[n.row]))

Before(m, n) == m.poll < n.poll \/ (m.poll = n.poll /\ m.row < n.row)

Waiting == {q \in queue : q.delivery = "waiting"}

\* Idempotence keeps the messages of a partition in order, and all of a key
\* are on one partition.
MaySend(q) ==
  /\ q.delivery = "waiting"
  /\ \A p \in Waiting : SameLane(p.message, q.message) => ~Before(p.message, q.message)

Report(q, outcome) == queue' = (queue \ {q}) \union {[q EXCEPT !.delivery = outcome]}

OnTopic(m) == topics' = [topics EXCEPT ![m.topic] = Append(@, m)]

Send(q) ==
  /\ MaySend(q)
  /\ Report(q, "acked")
  /\ OnTopic(q.message)
  /\ UNCHANGED <<archive, polls, at, row, phase, deliveryFailures, exit, runs, giveUps>>

\* The library gives up after its own timeout.  The broker may have the
\* message all the same: only the acknowledgement was lost.
GiveUp(q) ==
  /\ MaySend(q)
  /\ giveUps < MaxGiveUps /\ giveUps' = giveUps + 1
  /\ Report(q, "failed")
  /\ OnTopic(q.message) \/ UNCHANGED topics
  /\ UNCHANGED <<archive, polls, at, row, phase, deliveryFailures, exit, runs>>

\* poll() and flush() serve the reports there are: the messages leave the
\* queue, and the callback counts the failures.
FailuresServed == deliveryFailures + Cardinality({q \in queue : q.delivery = "failed"})

HasRoom(q) == Cardinality(q) < QueueSize
Produce(q, m) == q \union {[message |-> m, delivery |-> "waiting"]}

---------------------------------------------------------------------------
(* A run.                                                                  *)

\* Broken: in whatever order the directories are walked.
AnyOrder(s) == TRUE

\* discover: sorted by (poll_ts, feed); "trip_updates" < "vehicle_positions".
Sorted(s) ==
  \A i, j \in DOMAIN s : i < j =>
    \/ s[i].ts < s[j].ts
    \/ s[i].ts = s[j].ts /\ (s[i].feed = s[j].feed \/ s[i].feed = "trip_updates")

Discover == {s \in SetToSeqs(archive) : Sorted(s)}

\* No poll at all is an exit of its own.
Start ==
  /\ phase = "idle" /\ runs < MaxRuns
  /\ runs' = runs + 1
  /\ polls' \in Discover
  /\ at' = 1 /\ row' = 1
  /\ deliveryFailures' = 0 /\ giveUps' = 0 /\ queue' = {}
  /\ IF polls' = <<>> THEN phase' = "idle" /\ exit' = "failed"
                      ELSE phase' = "files" /\ exit' = "none"
  /\ UNCHANGED <<archive, topics>>

\* The process ends; what is in its queue is lost.
End(how) ==
  /\ phase' = "idle" /\ exit' = how
  /\ queue' = {}

\* decompress() is outside the try: a file cut short ends the replay.  One
\* that does not parse is counted and passed over.
OpenPoll ==
  /\ phase = "files" /\ at <= Len(polls)
  /\ \/ /\ polls[at].state = "truncated"
        /\ End("crashed")
        /\ UNCHANGED <<at, row>>
     \/ /\ polls[at].state = "garbage"
        /\ at' = at + 1
        /\ UNCHANGED <<row, phase, queue, exit>>
     \/ /\ polls[at].state = "whole"
        /\ phase' = "rows" /\ row' = 1
        /\ UNCHANGED <<at, queue, exit>>
  /\ UNCHANGED <<archive, polls, topics, deliveryFailures, runs, giveUps>>

\* A dead letter that finds the queue full raises: only the event's produce()
\* has a handler.
PublishRow ==
  /\ phase = "rows" /\ row <= RowCount(polls[at])
  /\ LET m == MessageOf(at, row) IN
       \/ /\ HasRoom(queue)
          /\ queue' = Produce(queue, m) /\ row' = row + 1
          /\ UNCHANGED <<phase, exit>>
       \/ /\ ~HasRoom(queue) /\ m.topic # DeadLetters
          /\ phase' = "draining"
          /\ UNCHANGED <<queue, row, exit>>
       \/ /\ ~HasRoom(queue) /\ m.topic = DeadLetters
          /\ End("crashed")
          /\ UNCHANGED row
  /\ UNCHANGED <<archive, polls, at, topics, deliveryFailures, runs, giveUps>>

\* Broken: the row stays the next one after the retry.
RowAfterRetryStays == row

RowAfterRetry == row + 1

\* BufferError: poll(1.0), which may come back with nothing, and one retry.
Drain ==
  /\ phase = "draining"
  /\ deliveryFailures' = FailuresServed
  /\ IF HasRoom(Waiting)
       THEN /\ queue' = Produce(Waiting, MessageOf(at, row))
            /\ row' = RowAfterRetry
            /\ phase' = "rows"
            /\ UNCHANGED exit
       ELSE End("crashed") /\ UNCHANGED row
  /\ UNCHANGED <<archive, polls, at, topics, runs, giveUps>>

\* After the last row, poll(0).
EndPoll ==
  /\ phase = "rows" /\ row > RowCount(polls[at])
  /\ deliveryFailures' = FailuresServed
  /\ queue' = Waiting
  /\ at' = at + 1 /\ phase' = "files"
  /\ UNCHANGED <<archive, polls, row, topics, exit, runs, giveUps>>

\* Broken: what the flush leaves behind is not looked at.
ExitCodeOfReports(failures, remaining) == IF failures > 0 THEN "failed" ELSE "ok"

ExitCode(failures, remaining) ==
  IF failures > 0 \/ remaining # {} THEN "failed" ELSE "ok"

\* flush(60): until nothing waits, or until it has taken too long.
Flush ==
  /\ phase = "files" /\ at > Len(polls)
  /\ deliveryFailures' = FailuresServed
  /\ End(ExitCode(FailuresServed, Waiting))
  /\ UNCHANGED <<archive, polls, at, row, topics, runs, giveUps>>

---------------------------------------------------------------------------
Next ==
  \/ Start \/ OpenPoll \/ PublishRow \/ Drain \/ EndPoll \/ Flush
  \/ \E q \in queue : Send(q) \/ GiveUp(q)

Spec == Init /\ [][Next]_vars

---------------------------------------------------------------------------
(* Properties.                                                             *)

Delivered(m) == m \in Range(topics[m.topic])

\* The exit code is to be trusted ("Non-zero exit if anything failed to reach
\* the broker", producer.py:299): after an exit with 0 every row of every
\* file that parses is on its topic, or on the dead-letter topic, put there
\* by this run, whatever the queue, the reports and the flush did.
ExitZeroMeansDelivered ==
  exit = "ok" =>
    /\ Range(polls) = archive
    /\ \A n \in DOMAIN polls : polls[n].state = "whole" =>
         \A k \in 1..RowCount(polls[n]) : Delivered(MessageOf(n, k))

\* A consumer sees the observations of a trip in the order they were made
\* ("every observation of one trip lands in one partition, in order",
\* contracts.py:319): among the messages a run put on a topic about one trip,
\* an earlier one is of an earlier poll, or of an earlier row of the poll.
TripOf(m) == Rows(m.file)[m.row].trip

ObservationOrder ==
  \A t \in Feeds : \A i, j \in DOMAIN topics[t] :
    (i < j /\ topics[t][i].run = topics[t][j].run
           /\ TripOf(topics[t][i]) = TripOf(topics[t][j])) =>
      LET m == topics[t][i]
          n == topics[t][j]
      IN m.file.ts <= n.file.ts /\ (m.file = n.file => m.row < n.row)

\* A run puts a row on a topic once at most: neither the retry after a full
\* queue nor a lost acknowledgement makes a second copy of it ("duplicates
\* that look exactly like real repeated observations", producer.py:117).
OneCopyPerRun ==
  \A t \in Topics : IsInjective(topics[t])

\* "None (no information) is not 0 (exactly on time)" (contracts.py:22): what
\* an event says of a stop is, field by field, what some update of its
\* payload says; a field the agency left out is absent from the event.
Says(e, ev) ==
  /\ e.kind = ev.envelope.feed_type
  /\ ev.report_ts_epoch = e.timestamp
  /\ \/ e.kind = "vehicle_positions"
     \/ /\ e.stop_time_update = <<>>
        /\ \A c \in DOMAIN ev.stop : ev.stop[c] = Absent
     \/ \E k \in DOMAIN e.stop_time_update :
          LET u == e.stop_time_update[k] IN
            /\ ev.stop.stop_sequence = u.stop_sequence
            /\ IF u.arrival = <<>>
                 THEN ev.stop.arrival_time_epoch = Absent /\ ev.stop.arrival_delay_s = Absent
                        /\ ev.stop.arrival_uncertainty = Absent
                 ELSE /\ ev.stop.arrival_time_epoch = u.arrival[1].time
                      /\ ev.stop.arrival_delay_s = u.arrival[1].delay
                      /\ ev.stop.arrival_uncertainty = u.arrival[1].uncertainty

EventsSayWhatTheAgencySaid ==
  \A t \in Feeds : \A i \in DOMAIN topics[t] :
    LET m == topics[t][i] IN
      \E k \in DOMAIN m.file.entities :
        Says(m.file.entities[k], FromDecodedRow(Rows(m.file)[m.row]))
=============================================================================
