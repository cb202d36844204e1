----------------------------- MODULE Resolver -----------------------------
(***************************************************************************)
(* The arrival resolver (streaming/consumer.py) on its topics.             *)
(*                                                                         *)
(* Instances of one consumer group share the vehicle-positions topic; all  *)
(* events of a trip are on one partition, so one partition is modelled,    *)
(* held by at most one instance at a time.  The holder turns the first     *)
(* STOPPED_AT event of a stop into an arrival, by a memory (emitted) that  *)
(* lives and dies with the process.  Arrivals wait in the producer's       *)
(* buffer until its background thread delivers them.  Offsets are          *)
(* committed every CommitEvery processed events and at a clean exit.       *)
(***************************************************************************)
EXTENDS Integers, Sequences, FiniteSets, SequencesExt

CONSTANTS
  Instances,     \* the resolver processes
  NoOne,         \* holds the partition when no instance does
  Stops,         \* stop visits: (service_date, trip_id, stop_sequence)
  Other,         \* an event the resolver counts but makes no arrival of
  Skipped,       \* one the loop drops before process(): undecodable, other agency
  FromBeginning, \* --from-beginning
  CommitEvery,   \* 20000 in the code
  MaxEvents,     \* bound: events published
  MaxLives,      \* bound: processes started
  MaxMoves,      \* bound: times the partition is taken from a live holder
  MaxCrashes,    \* bound: processes killed
  MaxLost        \* bound: deliveries given up by the producer

ASSUME ResolverAssumption ==
  /\ NoOne \notin Instances
  /\ FromBeginning \in BOOLEAN
  /\ CommitEvery \in Nat \ {0}
  /\ {Other, Skipped} \intersect Stops = {}
  /\ {MaxEvents, MaxLives, MaxMoves, MaxCrashes, MaxLost} \subseteq Nat

Events == Stops \union {Other, Skipped}

\* Offsets of the topic.  An event's vehicle_report_ts is its offset, and an
\* arrival is the offset of the event it was made of.
Offsets == 1..MaxEvents
NoOffset == -1

VARIABLES
  topic,     \* the partition
  committed, \* the group's offset: events consumed, or NoOffset
  holder,    \* the instance the partition is assigned to, or NoOne
  running,   \* the live instances
  position,  \* position[i]: events fetched by i
  polled,    \* those that fetched one since they got the partition
  emitted,   \* emitted[i]: the stops i has made an arrival of
  counted,   \* counted[i]: stats.consumed % CommitEvery
  buffer,    \* buffer[i]: arrivals produced by i, not delivered
  arrivals,  \* the arrival-events topic
  lives, moves, crashes, lost, \* bound counters
  joinedAt,  \* history: where the group first began to read, or NoOffset
  fetched    \* history: the offsets some instance has fetched

broker == <<topic, committed, arrivals>>
counters == <<lives, moves, crashes, lost>>
history == <<joinedAt, fetched>>
vars == <<broker, holder, running, position, polled, emitted, counted, buffer,
          counters, history>>

TypeOK ==
  /\ topic \in Seq(Events) /\ Len(topic) <= MaxEvents
  /\ committed \in {NoOffset} \union 0..Len(topic)
  /\ holder \in running \union {NoOne}
  /\ running \in SUBSET Instances
  /\ position \in [Instances -> 0..Len(topic)]
  /\ polled \in SUBSET Instances
  /\ emitted \in [Instances -> SUBSET Stops]
  /\ counted \in [Instances -> 0..(CommitEvery - 1)]
  /\ buffer \in [Instances -> Seq(Offsets)]
  /\ arrivals \in Seq(Offsets)
  /\ lives \in 0..MaxLives /\ moves \in 0..MaxMoves
  /\ crashes \in 0..MaxCrashes /\ lost \in 0..MaxLost
  /\ joinedAt \in {NoOffset} \union 0..Len(topic)
  /\ fetched \in SUBSET Offsets

Init ==
  /\ topic = <<>> /\ arrivals = <<>>
  /\ committed = NoOffset
  /\ holder = NoOne
  /\ running = {}
  /\ position = [i \in Instances |-> 0]
  /\ polled = {}
  /\ emitted = [i \in Instances |-> {}]
  /\ counted = [i \in Instances |-> 0]
  /\ buffer = [i \in Instances |-> <<>>]
  /\ lives = 0 /\ moves = 0 /\ crashes = 0 /\ lost = 0
  /\ joinedAt = NoOffset
  /\ fetched = {}

---------------------------------------------------------------------------
(* The rest of the world.                                                  *)

Publish(e) ==
  /\ Len(topic) < MaxEvents
  /\ topic' = Append(topic, e)
  /\ UNCHANGED <<committed, arrivals, holder, running, position, polled, emitted,
                 counted, buffer, counters, history>>

\* The group gives the partition to i, which goes on from the committed
\* offset or, if there is none, from where auto.offset.reset says.

\* Broken: --from-beginning is not passed on.
ResetToLatest == Len(topic)

ResetOffset == IF FromBeginning THEN 0 ELSE Len(topic)

\* Broken: the committed offset is taken for that of the last event.
ResumeAfter == IF committed = NoOffset THEN ResetOffset ELSE committed + 1

ResumeAt == IF committed = NoOffset THEN ResetOffset ELSE committed

Assign(i) ==
  /\ i \in running /\ holder # i
  /\ \/ holder = NoOne /\ UNCHANGED moves
     \/ holder # NoOne /\ moves < MaxMoves /\ moves' = moves + 1
  /\ holder' = i
  /\ position' = [position EXCEPT ![i] = ResumeAt]
  /\ polled' = polled \ {i}
  /\ joinedAt' = IF joinedAt = NoOffset THEN position'[i] ELSE joinedAt
  /\ UNCHANGED <<broker, running, emitted, counted, buffer, lives, crashes, lost, fetched>>

\* The producer's background thread.  It retries, and it gives up without
\* telling anyone: produce() is given no callback.
Deliver(i) ==
  /\ buffer[i] # <<>>
  /\ arrivals' = Append(arrivals, Head(buffer[i]))
  /\ buffer' = [buffer EXCEPT ![i] = Tail(@)]
  /\ UNCHANGED <<topic, committed, holder, running, position, polled, emitted, counted,
                 counters, history>>

GiveUp(i) ==
  /\ buffer[i] # <<>>
  /\ lost < MaxLost
  /\ lost' = lost + 1
  /\ buffer' = [buffer EXCEPT ![i] = Tail(@)]
  /\ UNCHANGED <<broker, holder, running, position, polled, emitted, counted,
                 lives, moves, crashes, history>>

---------------------------------------------------------------------------
(* The process.                                                            *)

Start(i) ==
  /\ i \notin running
  /\ lives < MaxLives
  /\ lives' = lives + 1
  /\ running' = running \union {i}
  /\ emitted' = [emitted EXCEPT ![i] = {}]
  /\ counted' = [counted EXCEPT ![i] = 0]
  /\ polled' = polled \ {i}
  /\ UNCHANGED <<broker, holder, position, buffer, moves, crashes, lost, history>>

\* Broken: no memory of what was emitted; an arrival needs an event before it.
IsStopped(i, e) == e \in Stops
IsTransition(i, e) == e \in Stops \ emitted[i] /\ i \in polled

\* ArrivalResolver.process: the first sighting at a stop, as far as this
\* process remembers, is the arrival.
IsArrival(i, e) == e \in Stops \ emitted[i]

CountModulo(c, e) == IF e = Skipped THEN c ELSE (c + 1) % CommitEvery

\* One turn of the loop.  The commit is asynchronous: it may get nowhere.
Consume(i) ==
  /\ holder = i
  /\ position[i] < Len(topic)
  /\ LET k == position[i] + 1
         e == topic[k]
         n == CountModulo(counted[i], e)
     IN /\ position' = [position EXCEPT ![i] = k]
        /\ polled' = polled \union {i}
        /\ fetched' = fetched \union {k}
        /\ counted' = [counted EXCEPT ![i] = n]
        /\ IF IsArrival(i, e)
             THEN /\ emitted' = [emitted EXCEPT ![i] = @ \union {e}]
                  /\ buffer' = [buffer EXCEPT ![i] = Append(@, k)]
             ELSE UNCHANGED <<emitted, buffer>>
        /\ \/ e # Skipped /\ n = 0 /\ committed' = k
           \/ UNCHANGED committed
  /\ UNCHANGED <<topic, arrivals, holder, running, counters, joinedAt>>

Leave(i) ==
  /\ running' = running \ {i}
  /\ holder' = IF holder = i THEN NoOne ELSE holder

\* A signal or the idle timeout: flush(30), commit, close.  What the flush
\* did not deliver in time is gone with the process.  Without the partition,
\* or with nothing fetched from it, there is nothing to commit; a commit that
\* fails is passed over in silence.
Exit(i) ==
  /\ i \in running
  /\ lost + Len(buffer[i]) <= MaxLost
  /\ lost' = lost + Len(buffer[i])
  /\ buffer' = [buffer EXCEPT ![i] = <<>>]
  /\ \/ holder = i /\ i \in polled /\ committed' = position[i]
     \/ UNCHANGED committed
  /\ Leave(i)
  /\ UNCHANGED <<topic, arrivals, position, polled, emitted, counted,
                 lives, moves, crashes, history>>

Crash(i) ==
  /\ i \in running
  /\ crashes < MaxCrashes
  /\ crashes' = crashes + 1
  /\ buffer' = [buffer EXCEPT ![i] = <<>>]
  /\ Leave(i)
  /\ UNCHANGED <<broker, position, polled, emitted, counted, lives, moves, lost, history>>

---------------------------------------------------------------------------
Next ==
  \/ \E e \in Events : Publish(e)
  \/ \E i \in Instances :
       \/ Assign(i) \/ Deliver(i) \/ GiveUp(i)
       \/ Start(i) \/ Consume(i) \/ Exit(i) \/ Crash(i)

Spec == Init /\ [][Next]_vars

\* A live group assigns a partition that nobody holds, its holder keeps
\* polling, and the producer's thread keeps sending.
FairSpec ==
  /\ Spec
  /\ \A i \in Instances :
       /\ WF_vars(holder = NoOne /\ Assign(i))
       /\ WF_vars(Consume(i))
       /\ WF_vars(Deliver(i))

---------------------------------------------------------------------------
(* Properties.                                                             *)

Buffered == UNION {Range(buffer[i]) : i \in Instances}
Announced == Range(arrivals) \union Buffered

FirstSighting(k) == topic[k] \in Stops /\ \A j \in 1..(k - 1) : topic[j] # topic[k]

\* Committing after processing is at-least-once (consumer.py:228-232): the
\* committed offset never runs ahead of an arrival, the first sighting of
\* every stop below it is on the arrival topic or on its way.
CommittedIsAnnounced ==
  \A k \in 1..committed : FirstSighting(k) => k \in Announced

\* What is true of it, in a group that reads from the beginning: rebalances,
\* clean exits, commits that get nowhere and processes coming back with an old
\* memory never break it; only a crash or a delivery given up does.
CommittedIsAnnouncedWithoutLoss ==
  (FromBeginning /\ crashes = 0 /\ lost = 0) => CommittedIsAnnounced

\* "a crash can reprocess a batch but never skip one" (QA_PREP.md:71): a group
\* that reads from the beginning leaves out nothing below the position of
\* the holder.
NothingSkipped ==
  FromBeginning =>
    \A i \in running : holder = i => (joinedAt + 1)..position[i] \subseteq fetched

\* A process announces a stop at most once, so the copies of an arrival are
\* bounded by the processes started, whatever moves, crashes and lost
\* commits make them read again.
Delivered(s) == {n \in DOMAIN arrivals : topic[arrivals[n]] = s}
Waiting(s) ==
  UNION {{i} \X {n \in DOMAIN buffer[i] : topic[buffer[i][n]] = s} : i \in Instances}
ArrivalsOf(s) == Cardinality(Delivered(s)) + Cardinality(Waiting(s))

OneArrivalPerLife == \A s \in Stops : ArrivalsOf(s) <= lives

\* While some process stays up, and nothing is lost, every first sighting is
\* announced in the end, however the partition moved, processes left and
\* commits failed.
EveryArrivalAnnounced ==
  (<>[](running # {}) /\ [](crashes = 0 /\ lost = 0)) =>
    \A k \in Offsets :
      (k <= Len(topic) /\ FirstSighting(k)) ~> (k \in Range(arrivals))
===========================================================================
