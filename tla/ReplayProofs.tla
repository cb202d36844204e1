---------------------------- MODULE ReplayProofs ----------------------------
(***************************************************************************)
(* What the replay producer promises, for every archive, queue size and    *)
(* number of runs: its exit code is to be trusted, a run puts the          *)
(* observations of a trip on the topic once and in order, and an event     *)
(* says what the agency's payload said.                                    *)
(***************************************************************************)
EXTENDS Replay, FiniteSetTheorems, SequenceTheorems, WellFoundedInduction, TLAPS

\* The rows of this run that have been dealt with.
Passed(n, k) ==
  \/ n < at
  \/ n = at /\ phase \in {"rows", "draining"} /\ k < row

\* A message of this run: what its place in the archive says it is.
OfThisRun(m) == m = MessageOf(m.poll, m.row) /\ Passed(m.poll, m.row)

RunKept ==
  /\ phase = "idle" => queue = {}
  /\ phase # "idle" => exit = "none" /\ polls \in Discover
  /\ \A q \in queue : OfThisRun(q.message)
  /\ \A t \in Topics : \A i \in DOMAIN topics[t] :
       /\ topics[t][i].topic = t /\ topics[t][i].run <= runs
       /\ (phase # "idle" /\ topics[t][i].run = runs) => OfThisRun(topics[t][i])

\* What waits is new to its topic, and comes after what is there of its lane.
QueueKept ==
  \A q \in Waiting : \A t \in Topics : \A i \in DOMAIN topics[t] :
    /\ topics[t][i] # q.message
    /\ (topics[t][i].run = runs /\ SameLane(topics[t][i], q.message)) =>
         Before(topics[t][i], q.message)

LaterThan(m, n) == m.file.ts <= n.file.ts /\ (m.file = n.file => m.row < n.row)

LanesKept ==
  \A t \in Topics : \A i, j \in DOMAIN topics[t] :
    (i < j /\ topics[t][i].run = topics[t][j].run /\ SameLane(topics[t][i], topics[t][j])) =>
      LaterThan(topics[t][i], topics[t][j])

\* A row dealt with is on its topic, or still in the queue, or its loss has
\* been counted.
Secured(m) ==
  \/ Delivered(m)
  \/ deliveryFailures > 0
  \/ \E q \in queue : q.message = m /\ q.delivery # "acked"

RowsKept ==
  phase # "idle" =>
    \A n \in DOMAIN polls : polls[n].state = "whole" =>
      \A k \in 1..RowCount(polls[n]) : Passed(n, k) => Secured(MessageOf(n, k))

---------------------------------------------------------------------------
(* Types.                                                                  *)

LEMMA DiscoverFacts ==
  ASSUME NEW s \in Discover, archive \in Archives
  PROVE  /\ s \in Seq(archive) /\ Sorted(s)
         /\ \A i, j \in DOMAIN s : s[i] = s[j] => i = j
         /\ Range(s) = archive
<1> DEFINE D == 1..Cardinality(archive)
<1>1. IsFiniteSet(archive) /\ Cardinality(archive) \in Nat
  BY ReplayAssumption, FS_CardinalityType
<1>2. s \in [D -> archive] /\ (\A i, j \in D : i # j => s[i] # s[j]) /\ Sorted(s)
  BY DEF Discover, SetToSeqs
<1>3. s \in Seq(archive)
  BY <1>1, <1>2
<1>4. s \in Injection(D, archive)
  BY <1>2 DEF Injection, IsInjective
<1>5. IsFiniteSet(D) /\ Cardinality(D) = Cardinality(archive)
  BY <1>1, FS_Interval
<1>6. s \in Surjection(D, archive)
  BY <1>1, <1>4, <1>5, FS_Injection
<1>7. Range(s) = archive
  BY <1>2, <1>6 DEF Surjection, Range
<1> QED
  BY <1>2, <1>3, <1>7

LEMMA MessageType ==
  ASSUME TypeOK, NEW n \in DOMAIN polls, NEW k \in Nat \ {0}, phase # "idle"
  PROVE  MessageOf(n, k) \in Message
<1>1. polls[n] \in archive /\ n \in Nat \ {0} /\ polls[n] \in Files
  BY DEF TypeOK, Files
<1>2. polls[n].feed \in Feeds
  BY <1>1, ReplayAssumption
<1>3. runs \in 1..MaxRuns
  BY ReplayAssumption DEF TypeOK
<1> QED
  BY <1>1, <1>2, <1>3 DEF MessageOf, Message, Topics

LEMMA ReportType ==
  ASSUME TypeOK, NEW q \in queue, NEW d \in {"acked", "failed"}, Report(q, d)
  PROVE  /\ queue' \in SUBSET Queued /\ IsFiniteSet(queue')
         /\ Cardinality(queue') <= QueueSize
         /\ [q EXCEPT !.delivery = d] = [message |-> q.message, delivery |-> d]
<1> DEFINE r == [q EXCEPT !.delivery = d]
<1>1. q \in Queued /\ r \in Queued /\ r = [message |-> q.message, delivery |-> d]
  BY DEF TypeOK, Queued
<1> DEFINE others == queue \ {q}
<1>2. IsFiniteSet(others) /\ Cardinality(others) = Cardinality(queue) - 1
  BY FS_RemoveElement DEF TypeOK
<1>3. Cardinality(queue) \in Nat /\ Cardinality(others) \in Nat /\ QueueSize \in Nat
  BY <1>2, ReplayAssumption, FS_CardinalityType DEF TypeOK
<1>4. queue' = others \union {r}
  BY DEF Report
<1>5. IsFiniteSet(queue') /\ Cardinality(queue') <= QueueSize
  <2> HIDE DEF others, r
  <2>1. IsFiniteSet(queue')
    BY <1>2, <1>4, FS_AddElement
  <2>2. Cardinality(queue') = Cardinality(others) \/ Cardinality(queue') = Cardinality(others) + 1
    BY <1>2, <1>4, FS_AddElement
  <2> QED
    BY <1>2, <1>3, <2>1, <2>2 DEF TypeOK
<1>6. queue' \in SUBSET Queued
  BY <1>1, <1>4 DEF TypeOK
<1> QED
  BY <1>1, <1>5, <1>6

LEMMA ProduceType ==
  ASSUME TypeOK, NEW q \in SUBSET queue, HasRoom(q), phase \in {"rows", "draining"}
  PROVE  /\ Produce(q, MessageOf(at, row)) \in SUBSET Queued
         /\ IsFiniteSet(Produce(q, MessageOf(at, row)))
         /\ Cardinality(Produce(q, MessageOf(at, row))) <= QueueSize
<1>1. IsFiniteSet(q) /\ Cardinality(q) \in Nat /\ QueueSize \in Nat
  BY ReplayAssumption, FS_Subset, FS_CardinalityType DEF TypeOK
<1>2. at \in DOMAIN polls /\ row \in Nat \ {0} /\ phase # "idle"
  BY DEF TypeOK
<1>3. [message |-> MessageOf(at, row), delivery |-> "waiting"] \in Queued
  BY <1>2, MessageType DEF Queued
<1> DEFINE new == [message |-> MessageOf(at, row), delivery |-> "waiting"]
<1>4. IsFiniteSet(q \union {new}) /\ Cardinality(q \union {new}) <= QueueSize
  <2> HIDE DEF new
  <2>1. IsFiniteSet(q \union {new})
    BY <1>1, FS_AddElement
  <2>2. Cardinality(q \union {new}) = Cardinality(q) \/ Cardinality(q \union {new}) = Cardinality(q) + 1
    BY <1>1, FS_AddElement
  <2> QED
    BY <1>1, <2>1, <2>2 DEF HasRoom
<1> QED
  BY <1>3, <1>4 DEF Produce, TypeOK

LEMMA ServedType ==
  ASSUME TypeOK
  PROVE  /\ FailuresServed \in Nat /\ FailuresServed >= deliveryFailures
         /\ Waiting \in SUBSET queue /\ IsFiniteSet(Waiting)
         /\ Cardinality(Waiting) <= QueueSize
         /\ FailuresServed = 0 => deliveryFailures = 0 /\ \A q \in queue : q.delivery # "failed"
<1> DEFINE F == {q \in queue : q.delivery = "failed"}
<1>1. IsFiniteSet(F) /\ Cardinality(F) \in Nat
  BY FS_Subset, FS_CardinalityType DEF TypeOK
<1>2. Waiting \in SUBSET queue
  BY DEF Waiting
<1>3. IsFiniteSet(Waiting) /\ Cardinality(Waiting) <= Cardinality(queue)
  BY <1>2, FS_Subset DEF TypeOK
<1>4. Cardinality(queue) \in Nat /\ Cardinality(Waiting) \in Nat /\ QueueSize \in Nat
  BY <1>3, ReplayAssumption, FS_CardinalityType DEF TypeOK
<1>5. Cardinality(F) = 0 => F = {}
  BY <1>1, FS_EmptySet
<1>6. deliveryFailures \in Nat /\ FailuresServed = deliveryFailures + Cardinality(F)
  BY DEF TypeOK, FailuresServed
<1>7. FailuresServed = 0 => deliveryFailures = 0 /\ F = {}
  BY <1>1, <1>5, <1>6
<1>8. Cardinality(Waiting) <= QueueSize
  BY <1>3, <1>4 DEF TypeOK
<1> QED
  BY <1>1, <1>2, <1>3, <1>6, <1>7, <1>8

LEMMA PutType ==
  ASSUME TypeOK, NEW q \in queue, OnTopic(q.message)
  PROVE  topics' \in [Topics -> Seq(Message)]
<1>1. q.message \in Message /\ q.message.topic \in Topics
  BY DEF TypeOK, Queued, Message
<1> QED
  BY <1>1 DEF TypeOK, OnTopic

LEMMA StepType ==
  ASSUME TypeOK, [Next]_vars
  PROVE  TypeOK'
<1>1. CASE UNCHANGED vars
  BY <1>1 DEF vars, library, TypeOK
<1>2. ASSUME NEW q \in queue, Send(q) PROVE TypeOK'
  <2>1. Report(q, "acked") /\ OnTopic(q.message)
    BY <1>2 DEF Send
  <2> QED
    BY <1>2, <2>1, ReportType, PutType DEF Send, TypeOK
<1>3. ASSUME NEW q \in queue, GiveUp(q) PROVE TypeOK'
  <2>1. Report(q, "failed") /\ topics' \in [Topics -> Seq(Message)]
    BY <1>3, PutType DEF GiveUp, TypeOK
  <2>2. giveUps' \in 0..MaxGiveUps
    BY <1>3, ReplayAssumption DEF GiveUp, TypeOK
  <2> QED
    BY <1>3, <2>1, <2>2, ReportType DEF GiveUp, TypeOK
<1>4. CASE Start
  <2>1. polls' \in Seq(archive)
    BY <1>4, DiscoverFacts DEF Start, TypeOK
  <2>2. runs' \in 0..MaxRuns /\ runs' > 0
    BY <1>4, ReplayAssumption DEF Start, TypeOK
  <2>3. IsFiniteSet({}) /\ Cardinality({}) <= QueueSize
    BY FS_EmptySet, ReplayAssumption
  <2>4. at' \in 1..(Len(polls') + 1)
    BY <1>4, <2>1 DEF Start
  <2> QED
    BY <1>4, <2>1, <2>2, <2>3, <2>4, ReplayAssumption DEF Start, TypeOK
<1>5. IsFiniteSet({}) /\ Cardinality({}) <= QueueSize
  BY FS_EmptySet, ReplayAssumption
<1>6. CASE OpenPoll
  <2>1. at \in Nat /\ at <= Len(polls) /\ Len(polls) \in Nat
    BY <1>6 DEF OpenPoll, TypeOK
  <2>2. CASE polls[at].state = "truncated"
    BY <1>5, <1>6, <2>1, <2>2 DEF OpenPoll, End, TypeOK
  <2>3. CASE polls[at].state = "garbage"
    BY <1>6, <2>1, <2>3 DEF OpenPoll, TypeOK
  <2>4. CASE polls[at].state = "whole"
    BY <1>6, <2>1, <2>4 DEF OpenPoll, TypeOK
  <2> QED
    BY <1>6, <2>2, <2>3, <2>4 DEF OpenPoll
<1>7. CASE PublishRow
  <2>1. phase = "rows" /\ queue \in SUBSET queue
    BY <1>7 DEF PublishRow
  <2>2. CASE HasRoom(queue)
    BY <1>7, <2>1, <2>2, ProduceType DEF PublishRow, TypeOK
  <2>3. CASE ~HasRoom(queue)
    BY <1>5, <1>7, <2>3 DEF PublishRow, End, TypeOK
  <2> QED
    BY <2>2, <2>3
<1>8. CASE Drain
  <2>1. phase = "draining" /\ deliveryFailures' \in Nat /\ Waiting \in SUBSET queue
    BY <1>8, ServedType DEF Drain
  <2>2. CASE HasRoom(Waiting)
    BY <1>8, <2>1, <2>2, ProduceType DEF Drain, RowAfterRetry, TypeOK
  <2>3. CASE ~HasRoom(Waiting)
    BY <1>5, <1>8, <2>1, <2>3 DEF Drain, End, TypeOK
  <2> QED
    BY <2>2, <2>3
<1>9. CASE EndPoll
  BY <1>9, ServedType DEF EndPoll, TypeOK
<1>10. CASE Flush
  BY <1>5, <1>10, ServedType DEF Flush, End, ExitCode, TypeOK
<1> QED
  BY <1>1, <1>2, <1>3, <1>4, <1>6, <1>7, <1>8, <1>9, <1>10 DEF Next

LEMMA InitType == Init => TypeOK
<1> SUFFICES ASSUME Init PROVE TypeOK
  OBVIOUS
<1>1. IsFiniteSet({}) /\ Cardinality({}) <= QueueSize
  BY FS_EmptySet, ReplayAssumption
<1>2. polls \in Seq(archive) /\ at \in 1..(Len(polls) + 1)
  BY DEF Init
<1> QED
  BY <1>1, <1>2, ReplayAssumption DEF Init, TypeOK

\* The variables of the replay producer keep their types, the queue its size.
THEOREM ReplayTypeCorrect == Spec => []TypeOK
BY InitType, StepType, PTL DEF Spec

---------------------------------------------------------------------------
(* Steps.  A step of the run leaves the topics alone, and puts at most the *)
(* message of the row at hand in the queue.                                *)

Fresh == [message |-> MessageOf(at, row), delivery |-> "waiting"]

RunStep == OpenPoll \/ PublishRow \/ Drain \/ EndPoll \/ Flush

LEMMA RunStepFacts ==
  ASSUME TypeOK, RunStep
  PROVE  /\ UNCHANGED <<archive, polls, topics, runs>>
         /\ phase # "idle"
         /\ \A q \in queue' : q \in queue \/
              (q = Fresh /\ phase \in {"rows", "draining"} /\ phase' = "rows"
                 /\ at' = at /\ row' = row + 1)
         /\ phase' = "idle" => queue' = {}
         /\ phase' # "idle" => exit' = exit
         /\ \A n, k \in Nat : (Passed(n, k) /\ phase' # "idle") => Passed(n, k)'
<1> USE DEF RunStep, Passed, TypeOK
<1>1. CASE OpenPoll
  BY <1>1 DEF OpenPoll, End
<1>2. CASE PublishRow
  BY <1>2 DEF PublishRow, End, Produce, Fresh
<1>3. CASE Drain
  BY <1>3 DEF Drain, End, Produce, Fresh, Waiting, RowAfterRetry
<1>4. CASE EndPoll
  BY <1>4 DEF EndPoll, Waiting
<1>5. CASE Flush
  BY <1>5 DEF Flush, End
<1> QED
  BY <1>1, <1>2, <1>3, <1>4, <1>5

\* The library puts at most one message on a topic, and takes it out of what
\* waits.
PutStep(q) == Send(q) \/ GiveUp(q)

LEMMA PutStepFacts ==
  ASSUME TypeOK, NEW q \in queue, PutStep(q)
  PROVE  /\ UNCHANGED <<archive, polls, at, row, phase, deliveryFailures, exit, runs>>
         /\ q \in Waiting
         /\ \A p \in Waiting : SameLane(p.message, q.message) => ~Before(p.message, q.message)
         /\ OnTopic(q.message) \/ UNCHANGED topics
         /\ Waiting' \subseteq Waiting \ {q}
         /\ \A p \in queue' : \E o \in queue : p.message = o.message
<1>1. PICK d \in {"acked", "failed"} : Report(q, d)
  BY DEF PutStep, Send, GiveUp
<1>2. [q EXCEPT !.delivery = d] = [message |-> q.message, delivery |-> d]
  BY <1>1, ReportType
<1>3. queue' = (queue \ {q}) \union {[message |-> q.message, delivery |-> d]}
  BY <1>1, <1>2 DEF Report
<1>4. Waiting' \subseteq Waiting \ {q}
  BY <1>3 DEF Waiting
<1>5. \A p \in queue' : \E o \in queue : p.message = o.message
  BY <1>3
<1>6. q \in Waiting
  BY DEF PutStep, Send, GiveUp, MaySend, Waiting
<1> QED
  BY <1>4, <1>5, <1>6 DEF PutStep, Send, GiveUp, MaySend

\* An entry of a topic after a put: one of before, or the new last one.
LEMMA PutEntries ==
  ASSUME TypeOK, NEW q \in queue, PutStep(q)
  PROVE  \A t \in Topics : \A i \in DOMAIN topics'[t] :
           /\ i \in Nat
           /\ \/ i \in DOMAIN topics[t] /\ topics'[t][i] = topics[t][i]
              \/ /\ topics'[t][i] = q.message /\ t = q.message.topic
                 /\ i = Len(topics[t]) + 1
                 /\ \A j \in DOMAIN topics[t] : j < i
<1>1. OnTopic(q.message) \/ UNCHANGED topics
  BY PutStepFacts
<1>2. \A t \in Topics : topics[t] \in Seq(Message)
  BY DEF TypeOK
<1>3. ASSUME OnTopic(q.message), NEW t \in Topics
      PROVE  \/ topics'[t] = topics[t]
             \/ t = q.message.topic /\ topics'[t] = Append(topics[t], q.message)
  BY <1>3 DEF OnTopic, TypeOK
<1>4. ASSUME NEW t \in Topics, NEW i \in DOMAIN topics'[t]
      PROVE  /\ i \in Nat
             /\ \/ i \in DOMAIN topics[t] /\ topics'[t][i] = topics[t][i]
                \/ /\ topics'[t][i] = q.message /\ t = q.message.topic
                   /\ i = Len(topics[t]) + 1
                   /\ \A j \in DOMAIN topics[t] : j < i
  <2>1. CASE topics'[t] = topics[t]
    BY <1>2, <2>1
  <2>2. CASE t = q.message.topic /\ topics'[t] = Append(topics[t], q.message)
    BY <1>2, <2>2
  <2> QED
    BY <1>1, <1>3, <2>1, <2>2
<1> QED
  BY <1>4

LEMMA MessageShape ==
  ASSUME NEW n, NEW k
  PROVE  /\ MessageOf(n, k).poll = n /\ MessageOf(n, k).row = k
         /\ MessageOf(n, k).run = runs /\ MessageOf(n, k).file = polls[n]
<1> DEFINE topic == IF Conforms(Rows(polls[n])[k]) THEN polls[n].feed ELSE DeadLetters
<1>1. MessageOf(n, k) = [topic |-> topic, file |-> polls[n], poll |-> n, row |-> k, run |-> runs]
  BY DEF MessageOf
<1> HIDE DEF topic
<1> QED
  BY <1>1

LEMMA EntryTypes ==
  ASSUME TypeOK
  PROVE  /\ \A m \in Message : m.run \in Nat /\ m.poll \in Nat /\ m.row \in Nat
         /\ \A t \in Topics : \A i \in DOMAIN topics[t] : topics[t][i] \in Message /\ i \in Nat
         /\ \A q \in queue : q.message \in Message /\ q \in Queued
         /\ runs \in Nat /\ at \in Nat /\ row \in Nat
<1>1. \A t \in Topics : topics[t] \in Seq(Message)
  BY DEF TypeOK
<1>2. \A m \in Message : m.run \in Nat /\ m.poll \in Nat /\ m.row \in Nat
  BY ReplayAssumption DEF Message
<1> QED
  BY <1>1, <1>2, ReplayAssumption DEF TypeOK, Queued

LEMMA StartFacts ==
  ASSUME TypeOK, Start
  PROVE  runs' > runs /\ queue' = {} /\ UNCHANGED <<archive, topics>>
         /\ polls' \in Discover /\ (phase' # "idle" => phase' = "files" /\ exit' = "none")
         /\ at' = 1
BY EntryTypes DEF Start

LEMMA StepRunKept ==
  ASSUME TypeOK, RunKept, [Next]_vars
  PROVE  RunKept'
<1>1. CASE UNCHANGED vars
  <2>1. \A n, k : MessageOf(n, k)' = MessageOf(n, k) /\ (Passed(n, k)' <=> Passed(n, k))
    BY <1>1 DEF vars, MessageOf, Passed
  <2>2. Discover' = Discover
    BY <1>1 DEF vars, Discover
  <2> QED
    BY <1>1, <2>1, <2>2 DEF vars, library, RunKept, OfThisRun
<1>2. CASE RunStep
  <2>1. \A n, k : MessageOf(n, k)' = MessageOf(n, k)
    BY <1>2, RunStepFacts DEF MessageOf
  <2>2. Discover' = Discover
    BY <1>2, RunStepFacts DEF Discover
  <2>3. ASSUME NEW m \in Message, OfThisRun(m), phase' # "idle"
        PROVE  OfThisRun(m)'
    BY <1>2, <2>1, <2>3, RunStepFacts DEF OfThisRun, Message
  <2>4. ASSUME NEW q \in queue' PROVE OfThisRun(q.message)'
    <3>1. CASE q \in queue
      BY <1>2, <2>3, <2>4, <3>1, RunStepFacts, EntryTypes DEF RunKept
    <3>2. CASE q = Fresh /\ phase \in {"rows", "draining"} /\ phase' = "rows"
                 /\ at' = at /\ row' = row + 1
      <4>1. PICK n, k : n = at /\ k = row
        OBVIOUS
      <4>2. q.message = MessageOf(n, k)
        BY <3>2, <4>1 DEF Fresh
      <4>3. q.message.poll = n /\ q.message.row = k
        BY <4>2, MessageShape
      <4>4. Passed(n, k)'
        BY <3>2, <4>1, EntryTypes DEF Passed
      <4>5. q.message = MessageOf(n, k)'
        BY <2>1, <4>2
      <4> QED
        BY <4>3, <4>4, <4>5 DEF OfThisRun
    <3> QED
      BY <1>2, <2>4, <3>1, <3>2, RunStepFacts
  <2>5. ASSUME NEW t \in Topics, NEW i \in DOMAIN topics[t]
        PROVE  /\ topics[t][i].topic = t /\ topics[t][i].run <= runs
               /\ (phase' # "idle" /\ topics[t][i].run = runs) => OfThisRun(topics[t][i])'
    BY <1>2, <2>3, RunStepFacts, EntryTypes DEF RunKept
  <2> QED
    BY <1>2, <2>2, <2>4, <2>5, RunStepFacts DEF RunKept
<1>3. ASSUME NEW q \in queue, PutStep(q) PROVE RunKept'
  <2>1. \A n, k : MessageOf(n, k)' = MessageOf(n, k) /\ (Passed(n, k)' <=> Passed(n, k))
    BY <1>3, PutStepFacts DEF MessageOf, Passed
  <2>2. \A m : OfThisRun(m)' <=> OfThisRun(m)
    BY <2>1 DEF OfThisRun
  <2>3. Discover' = Discover /\ phase # "idle"
    BY <1>3, PutStepFacts DEF Discover, RunKept
  <2>4. \A p \in queue' : OfThisRun(p.message)'
    BY <1>3, <2>2, PutStepFacts DEF RunKept
  <2>5. q.message.run = runs /\ OfThisRun(q.message)
    <3>1. OfThisRun(q.message)
      BY DEF RunKept
    <3> QED
      BY <3>1 DEF OfThisRun, MessageOf
  <2>6. ASSUME NEW t \in Topics, NEW i \in DOMAIN topics'[t]
        PROVE  /\ topics'[t][i].topic = t /\ topics'[t][i].run <= runs
               /\ topics'[t][i].run = runs => OfThisRun(topics'[t][i])
    BY <1>3, <2>3, <2>5, PutEntries, EntryTypes DEF RunKept
  <2> QED
    BY <1>3, <2>2, <2>3, <2>4, <2>6, PutStepFacts DEF RunKept
<1>4. CASE Start
  <2>1. \A t \in Topics : \A i \in DOMAIN topics[t] : topics[t][i].run < runs'
    <3>1. runs' = runs + 1
      BY <1>4 DEF Start
    <3> QED
      BY <3>1, EntryTypes DEF RunKept
  <2>2. Discover' = Discover /\ runs' \in Nat
    BY <1>4, StartFacts, EntryTypes DEF Discover, Start
  <2>3. \A t \in Topics : \A i \in DOMAIN topics[t] :
          topics[t][i].topic = t /\ topics[t][i].run \in Nat /\ topics[t][i].run <= runs' /\ topics[t][i].run # runs'
    BY <2>1, <2>2, EntryTypes DEF RunKept
  <2> QED
    BY <1>4, <2>2, <2>3, StartFacts DEF RunKept
<1> QED
  BY <1>1, <1>2, <1>3, <1>4 DEF Next, RunStep, PutStep

---------------------------------------------------------------------------
(* Order and copies.                                                       *)

OrderKept == QueueKept /\ LanesKept /\ OneCopyPerRun

LEMMA BeforeIsLater ==
  ASSUME TypeOK, RunKept, phase # "idle",
         NEW m \in Message, NEW n \in Message, OfThisRun(m), OfThisRun(n), Before(m, n)
  PROVE  LaterThan(m, n)
<1>1. m.file = polls[m.poll] /\ n.file = polls[n.poll]
  BY MessageShape DEF OfThisRun
<1>2. m.poll \in DOMAIN polls /\ n.poll \in DOMAIN polls
  <2>1. ASSUME NEW o \in Message, Passed(o.poll, o.row) PROVE o.poll \in 1..Len(polls)
    <3>1. Len(polls) \in Nat /\ at \in 1..(Len(polls) + 1)
      BY DEF TypeOK
    <3>2. phase \in {"rows", "draining"} => at <= Len(polls)
      BY DEF TypeOK
    <3>3. o.poll \in Nat \ {0}
      BY DEF Message
    <3> QED
      BY <2>1, <3>1, <3>2, <3>3 DEF Passed
  <2>2. DOMAIN polls = 1..Len(polls)
    BY DEF TypeOK
  <2> QED
    BY <2>1, <2>2 DEF OfThisRun
<1>3. Sorted(polls) /\ \A i, j \in DOMAIN polls : polls[i] = polls[j] => i = j
  BY DiscoverFacts DEF RunKept, TypeOK
<1>4. m.poll \in Nat /\ n.poll \in Nat /\ m.row \in Nat /\ n.row \in Nat
  BY EntryTypes
<1>5. m.file.ts \in Int /\ n.file.ts \in Int
  BY ReplayAssumption DEF Message
<1>6. CASE m.poll < n.poll
  <2>1. m.file.ts <= n.file.ts
    BY <1>1, <1>2, <1>3, <1>5, <1>6 DEF Sorted
  <2>2. m.file # n.file
    BY <1>1, <1>2, <1>3, <1>4, <1>6
  <2> QED
    BY <2>1, <2>2 DEF LaterThan
<1>7. CASE m.poll = n.poll /\ m.row < n.row
  BY <1>1, <1>5, <1>7 DEF LaterThan
<1> QED
  BY <1>6, <1>7 DEF Before

LEMMA StepOrder ==
  ASSUME TypeOK, RunKept, OrderKept, [Next]_vars
  PROVE  OrderKept'
<1>1. CASE UNCHANGED vars
  BY <1>1 DEF vars, library, OrderKept, QueueKept, LanesKept, OneCopyPerRun, Waiting
<1>2. CASE RunStep
  <2>1. topics' = topics /\ runs' = runs /\ phase # "idle"
    BY <1>2, RunStepFacts
  <2>2. ASSUME NEW t \in Topics, NEW i \in DOMAIN topics[t]
        PROVE  /\ topics[t][i] # MessageOf(at, row)
               /\ (topics[t][i].run = runs /\ phase \in {"rows", "draining"}) =>
                    Before(topics[t][i], MessageOf(at, row))
    <3>1. CASE topics[t][i].run # runs
      BY <3>1, MessageShape
    <3>2. CASE topics[t][i].run = runs
      <4>1. Passed(topics[t][i].poll, topics[t][i].row)
        BY <2>1, <3>2 DEF RunKept, OfThisRun
      <4> QED
        BY <4>1, MessageShape, EntryTypes DEF Passed, Before
    <3> QED
      BY <3>1, <3>2
  <2>3. ASSUME NEW q \in Waiting', NEW t \in Topics, NEW i \in DOMAIN topics[t]
        PROVE  /\ topics[t][i] # q.message
               /\ (topics[t][i].run = runs /\ SameLane(topics[t][i], q.message)) =>
                    Before(topics[t][i], q.message)
    <3>1. q \in queue' /\ q.delivery = "waiting"
      BY DEF Waiting
    <3>2. CASE q \in queue
      <4>1. q \in Waiting
        BY <3>1, <3>2 DEF Waiting
      <4> QED
        BY <4>1 DEF OrderKept, QueueKept
    <3>3. CASE q = Fresh /\ phase \in {"rows", "draining"}
      <4>1. q.message = MessageOf(at, row)
        BY <3>3 DEF Fresh
      <4> QED
        BY <2>2, <3>3, <4>1
    <3> QED
      BY <1>2, <3>1, <3>2, <3>3, RunStepFacts
  <2>4. QueueKept'
    BY <2>1, <2>3 DEF QueueKept
  <2> QED
    BY <2>1, <2>4 DEF OrderKept, LanesKept, OneCopyPerRun
<1>3. ASSUME NEW q \in queue, PutStep(q) PROVE OrderKept'
  <2>1. q \in Waiting /\ phase # "idle" /\ runs' = runs /\ Waiting' \subseteq Waiting \ {q}
    BY <1>3, PutStepFacts DEF RunKept
  <2>2. q.message \in Message /\ OfThisRun(q.message) /\ q.message.run = runs
    BY MessageShape, EntryTypes DEF RunKept, OfThisRun
  <2>3. ASSUME NEW p \in Waiting'
        PROVE  /\ q.message # p.message
               /\ SameLane(q.message, p.message) => Before(q.message, p.message)
    <3>1. p \in Waiting /\ p # q /\ p \in queue /\ p \in Queued /\ q \in Queued
      BY <2>1, <2>3, EntryTypes DEF Waiting
    <3>2. p.message # q.message
      BY <2>1, <3>1 DEF Waiting, Queued
    <3>3. p.message \in Message /\ OfThisRun(p.message)
      BY <3>1, EntryTypes DEF RunKept
    <3>4. p.message.poll # q.message.poll \/ p.message.row # q.message.row
      BY <2>2, <3>2, <3>3 DEF OfThisRun
    <3>5. SameLane(q.message, p.message) => ~Before(p.message, q.message)
      BY <1>3, <3>1, PutStepFacts DEF SameLane
    <3> QED
      BY <2>2, <3>2, <3>3, <3>4, <3>5, EntryTypes DEF Before
  <2>4. QueueKept'
    <3>1. ASSUME NEW p \in Waiting', NEW t \in Topics, NEW i \in DOMAIN topics'[t]
          PROVE  /\ topics'[t][i] # p.message
                 /\ (topics'[t][i].run = runs /\ SameLane(topics'[t][i], p.message)) =>
                      Before(topics'[t][i], p.message)
      <4>1. CASE topics'[t][i] = q.message
        BY <2>3, <4>1
      <4>2. CASE i \in DOMAIN topics[t] /\ topics'[t][i] = topics[t][i]
        BY <2>1, <4>2 DEF OrderKept, QueueKept
      <4> QED
        BY <1>3, <4>1, <4>2, PutEntries
    <3> QED
      BY <2>1, <3>1 DEF QueueKept
  <2>5. ASSUME NEW t \in Topics, NEW i \in DOMAIN topics[t],
               topics[t][i].run = runs, SameLane(topics[t][i], q.message)
        PROVE  LaterThan(topics[t][i], q.message)
    <3>1. Before(topics[t][i], q.message)
      BY <2>1, <2>5 DEF OrderKept, QueueKept
    <3>2. topics[t][i] \in Message /\ OfThisRun(topics[t][i])
      BY <2>1, <2>5, EntryTypes DEF RunKept
    <3> QED
      BY <2>1, <2>2, <3>1, <3>2, BeforeIsLater
  <2>6. LanesKept'
    <3>1. ASSUME NEW t \in Topics, NEW i \in DOMAIN topics'[t], NEW j \in DOMAIN topics'[t],
                 i < j, topics'[t][i].run = topics'[t][j].run,
                 SameLane(topics'[t][i], topics'[t][j])
          PROVE  LaterThan(topics'[t][i], topics'[t][j])
      <4>1. i \in Nat /\ j \in Nat
        BY <1>3, PutEntries
      <4>2. i \in DOMAIN topics[t] /\ topics'[t][i] = topics[t][i]
        BY <1>3, <3>1, <4>1, PutEntries, EntryTypes
      <4>3. CASE j \in DOMAIN topics[t] /\ topics'[t][j] = topics[t][j]
        BY <3>1, <4>2, <4>3 DEF OrderKept, LanesKept
      <4>4. CASE topics'[t][j] = q.message
        BY <2>2, <2>5, <3>1, <4>2, <4>4
      <4> QED
        BY <1>3, <4>3, <4>4, PutEntries
    <3> QED
      BY <3>1 DEF LanesKept
  <2>7. OneCopyPerRun'
    <3>1. ASSUME NEW t \in Topics, NEW i \in DOMAIN topics'[t], NEW j \in DOMAIN topics'[t],
                 topics'[t][i] = topics'[t][j]
          PROVE  i = j
      <4>1. \A k \in DOMAIN topics[t] : topics[t][k] # q.message
        BY <2>1 DEF OrderKept, QueueKept
      <4>2. \A k, l \in DOMAIN topics[t] : topics[t][k] = topics[t][l] => k = l
        BY DEF OrderKept, OneCopyPerRun, IsInjective
      <4> QED
        BY <1>3, <3>1, <4>1, <4>2, PutEntries
    <3> QED
      BY <3>1 DEF OneCopyPerRun, IsInjective
  <2> QED
    BY <2>4, <2>6, <2>7 DEF OrderKept
<1>4. CASE Start
  <2>1. topics' = topics /\ Waiting' = {}
    BY <1>4, StartFacts DEF Waiting
  <2> QED
    BY <2>1 DEF OrderKept, QueueKept, LanesKept, OneCopyPerRun
<1> QED
  BY <1>1, <1>2, <1>3, <1>4 DEF Next, RunStep, PutStep

---------------------------------------------------------------------------
(* Nothing is lost unnoticed.                                              *)

\* Serving the reports loses sight of no message: what was acknowledged is on
\* its topic, what failed is counted.
LEMMA ServedSecured ==
  ASSUME TypeOK, NEW m, Secured(m), UNCHANGED topics,
         deliveryFailures' = FailuresServed, Waiting \subseteq queue'
  PROVE  Secured(m)'
<1>1. CASE Delivered(m)
  BY <1>1 DEF Secured, Delivered
<1>2. CASE deliveryFailures > 0
  <2>1. deliveryFailures' > 0
    BY <1>2, ServedType DEF TypeOK
  <2> QED
    BY <2>1 DEF Secured
<1>3. ASSUME NEW q \in queue, q.message = m, q.delivery # "acked"
      PROVE  Secured(m)'
  <2>1. CASE q.delivery = "waiting"
    BY <1>3, <2>1 DEF Secured, Waiting
  <2>2. CASE q.delivery = "failed"
    <3>1. FailuresServed # 0 /\ FailuresServed \in Nat
      BY <2>2, ServedType
    <3> QED
      BY <3>1 DEF Secured
  <2> QED
    BY <1>3, <2>1, <2>2 DEF TypeOK, Queued
<1> QED
  BY <1>1, <1>2, <1>3 DEF Secured

LEMMA PutSecured ==
  ASSUME TypeOK, NEW q \in queue, PutStep(q), NEW m, Secured(m)
  PROVE  Secured(m)'
<1>1. CASE Delivered(m)
  <2>1. q.message \in Message /\ q.message.topic \in Topics
    BY EntryTypes DEF Message
  <2>2. CASE UNCHANGED topics
    BY <1>1, <2>2 DEF Secured, Delivered
  <2>3. CASE OnTopic(q.message)
    <3>1. CASE m.topic = q.message.topic
      <4>1. topics[m.topic] \in Seq(Message)
        BY <2>1, <3>1 DEF TypeOK
      <4>2. topics'[m.topic] = Append(topics[m.topic], q.message)
        BY <2>1, <2>3, <3>1 DEF OnTopic, TypeOK
      <4>3. PICK i \in DOMAIN topics[m.topic] : topics[m.topic][i] = m
        BY <1>1 DEF Delivered, Range
      <4>4. i \in DOMAIN topics'[m.topic] /\ topics'[m.topic][i] = m
        BY <2>1, <4>1, <4>2, <4>3
      <4> QED
        BY <4>4 DEF Secured, Delivered, Range
    <3>2. CASE m.topic # q.message.topic
      <4>1. topics'[m.topic] = topics[m.topic]
        BY <2>3, <3>2 DEF OnTopic, TypeOK
      <4> QED
        BY <1>1, <4>1 DEF Secured, Delivered
    <3> QED
      BY <3>1, <3>2
  <2> QED
    BY <2>2, <2>3, PutStepFacts
<1>2. CASE deliveryFailures > 0
  BY <1>2, PutStepFacts DEF Secured
<1>3. ASSUME NEW p \in queue, p.message = m, p.delivery # "acked", p # q
      PROVE  Secured(m)'
  <2>1. p \in queue'
    BY <1>3 DEF PutStep, Send, GiveUp, Report
  <2> QED
    BY <1>3, <2>1 DEF Secured
<1>4. CASE q.message = m /\ Send(q)
  <2>1. m \in Message /\ m.topic \in Topics /\ topics[m.topic] \in Seq(Message)
    BY <1>4, EntryTypes DEF Message, TypeOK
  <2>2. topics'[m.topic] = Append(topics[m.topic], m)
    BY <1>4, <2>1 DEF Send, OnTopic, TypeOK
  <2>3. Len(topics[m.topic]) + 1 \in DOMAIN topics'[m.topic]
          /\ topics'[m.topic][Len(topics[m.topic]) + 1] = m
    BY <2>1, <2>2
  <2> QED
    BY <2>3 DEF Secured, Delivered, Range
<1>5. CASE q.message = m /\ GiveUp(q)
  <2>1. Report(q, "failed")
    BY <1>5 DEF GiveUp
  <2>2. [message |-> q.message, delivery |-> "failed"] \in queue'
    BY <2>1, ReportType DEF Report
  <2> QED
    BY <1>5, <2>2 DEF Secured
<1> QED
  BY <1>1, <1>2, <1>3, <1>4, <1>5 DEF Secured, PutStep

LEMMA StepRows ==
  ASSUME TypeOK, RunKept, RowsKept, [Next]_vars
  PROVE  RowsKept'
<1> SUFFICES ASSUME phase' # "idle", NEW n \in DOMAIN polls', polls'[n].state = "whole",
                    NEW k \in 1..RowCount(polls'[n]), Passed(n, k)'
             PROVE  Secured(MessageOf(n, k))'
  BY DEF RowsKept
<1>1. CASE UNCHANGED vars
  BY <1>1 DEF vars, library, RowsKept, Passed, Secured, Delivered, MessageOf
<1>2. CASE Start
  <2>1. polls' \in Seq(archive)
    BY <1>2, StartFacts, DiscoverFacts DEF TypeOK
  <2> QED
    BY <1>2, <2>1, StartFacts DEF Passed
<1>3. CASE ~Start /\ ~UNCHANGED vars
  <2>1. /\ polls' = polls /\ runs' = runs /\ archive' = archive /\ phase # "idle"
    BY <1>3, RunStepFacts, PutStepFacts DEF Next, RunStep, PutStep, RunKept
  <2>2. PICK m : m = MessageOf(n, k) /\ m = MessageOf(n, k)'
    BY <2>1 DEF MessageOf
  <2>3. n \in Nat /\ k \in Nat \ {0} /\ n \in DOMAIN polls /\ RowCount(polls[n]) \in Nat
    BY <2>1, ReplayAssumption DEF TypeOK, Files
  <2>4. Passed(n, k) => Secured(m)
    BY <2>1, <2>2, <2>3 DEF RowsKept
  <2>5. CASE \E q \in queue : PutStep(q)
    <3>1. Passed(n, k)
      BY <2>5, PutStepFacts DEF Passed
    <3>2. Secured(m)'
      BY <2>4, <2>5, <3>1, PutSecured
    <3> QED
      BY <2>2, <3>2
  <2>6. CASE OpenPoll
    <3>1. Passed(n, k)
      <4>1. phase = "files" /\ at \in Nat /\ n \in Nat
        BY <2>3, <2>6 DEF OpenPoll, TypeOK
      <4>2. \/ at' = at + 1 /\ phase' = "files" /\ polls[at].state = "garbage"
            \/ at' = at /\ phase' = "rows" /\ row' = 1
        BY <2>1, <2>6, <4>1 DEF OpenPoll, End
      <4>3. polls[n].state = "whole"
        BY <2>1
      <4>4. CASE at' = at + 1 /\ phase' = "files" /\ polls[at].state = "garbage"
        BY <4>1, <4>3, <4>4 DEF Passed
      <4>5. CASE at' = at /\ phase' = "rows" /\ row' = 1
        BY <2>3, <4>1, <4>5 DEF Passed
      <4> QED
        BY <4>2, <4>4, <4>5
    <3>2. UNCHANGED <<topics, deliveryFailures, queue>>
      BY <2>6 DEF OpenPoll, End
    <3>3. Secured(m)'
      BY <2>4, <3>1, <3>2 DEF Secured, Delivered
    <3> QED
      BY <2>2, <3>3
  <2>7. CASE PublishRow
    <3>1. UNCHANGED <<topics, deliveryFailures>> /\ queue \subseteq queue'
      BY <2>7 DEF PublishRow, End, Produce
    <3>2. CASE Passed(n, k)
      <4>1. Secured(m)'
        BY <2>4, <3>1, <3>2 DEF Secured, Delivered
      <4> QED
        BY <2>2, <4>1
    <3>3. CASE ~Passed(n, k)
      <4>1. n = at /\ k = row /\ queue' = Produce(queue, MessageOf(at, row))
        BY <2>1, <2>3, <2>7, <3>3, EntryTypes DEF PublishRow, End, Passed
      <4>2. [message |-> m, delivery |-> "waiting"] \in queue'
        BY <2>2, <4>1 DEF Produce
      <4>3. Secured(m)'
        BY <4>2 DEF Secured
      <4> QED
        BY <2>2, <4>3
    <3> QED
      BY <3>2, <3>3
  <2>8. CASE Drain
    <3>1. /\ UNCHANGED topics /\ deliveryFailures' = FailuresServed
          /\ queue' = Produce(Waiting, MessageOf(at, row))
          /\ phase = "draining" /\ at' = at /\ row' = row + 1
      BY <2>8 DEF Drain, End, RowAfterRetry
    <3>2. CASE Passed(n, k)
      <4>1. Secured(m)'
        BY <2>4, <3>1, <3>2, ServedSecured DEF Produce
      <4> QED
        BY <2>2, <4>1
    <3>3. CASE ~Passed(n, k)
      <4>1. n = at /\ k = row
        BY <2>3, <3>1, <3>3, EntryTypes DEF Passed
      <4>2. [message |-> m, delivery |-> "waiting"] \in queue'
        BY <2>2, <3>1, <4>1 DEF Produce
      <4>3. Secured(m)'
        BY <4>2 DEF Secured
      <4> QED
        BY <2>2, <4>3
    <3> QED
      BY <3>2, <3>3
  <2>9. CASE EndPoll
    <3>1. UNCHANGED topics /\ deliveryFailures' = FailuresServed /\ queue' = Waiting
      BY <2>9 DEF EndPoll
    <3>2. Passed(n, k)
      BY <2>1, <2>3, <2>9, EntryTypes DEF EndPoll, Passed
    <3>3. Secured(m)'
      BY <2>4, <3>1, <3>2, ServedSecured
    <3> QED
      BY <2>2, <3>3
  <2>10. CASE Flush
    BY <2>10 DEF Flush, End
  <2> QED
    BY <1>3, <2>5, <2>6, <2>7, <2>8, <2>9, <2>10 DEF Next, PutStep
<1> QED
  BY <1>1, <1>2, <1>3

LEMMA FlushExit ==
  ASSUME TypeOK, RunKept, RowsKept, Flush, exit' = "ok"
  PROVE  ExitZeroMeansDelivered'
<1>1. FailuresServed = 0 /\ Waiting = {}
  <2>1. ~(FailuresServed > 0) /\ Waiting = {}
    BY DEF Flush, End, ExitCode
  <2> QED
    BY <2>1, ServedType
<1>2. deliveryFailures = 0 /\ \A q \in queue : q.delivery = "acked"
  <2>1. \A q \in queue : q.delivery # "failed" /\ q.delivery # "waiting"
    BY <1>1, ServedType DEF Waiting
  <2> QED
    BY <1>1, <2>1, ServedType DEF TypeOK, Queued
<1>3. UNCHANGED <<archive, polls, topics, runs>> /\ phase # "idle" /\ at > Len(polls)
  BY DEF Flush
<1>4. Range(polls) = archive
  BY <1>3, DiscoverFacts DEF RunKept, TypeOK
<1>5. ASSUME NEW n \in DOMAIN polls, polls[n].state = "whole", NEW k \in 1..RowCount(polls[n])
      PROVE  Delivered(MessageOf(n, k))
  <2>1. Passed(n, k)
    BY <1>3 DEF Passed, TypeOK
  <2>2. Secured(MessageOf(n, k))
    BY <1>3, <1>5, <2>1 DEF RowsKept
  <2> QED
    BY <1>2, <2>2 DEF Secured
<1>6. \A n, k : Delivered(MessageOf(n, k))' <=> Delivered(MessageOf(n, k))
  BY <1>3 DEF Delivered, MessageOf
<1> QED
  BY <1>3, <1>4, <1>5, <1>6 DEF ExitZeroMeansDelivered

LEMMA StepExit ==
  ASSUME TypeOK, RunKept, RowsKept, ExitZeroMeansDelivered, [Next]_vars
  PROVE  ExitZeroMeansDelivered'
<1> SUFFICES ASSUME exit' = "ok" PROVE ExitZeroMeansDelivered'
  BY DEF ExitZeroMeansDelivered
<1>1. CASE UNCHANGED vars
  <2>1. UNCHANGED <<archive, polls, topics, runs, exit>>
    BY <1>1 DEF vars, library
  <2>2. \A n, k : Delivered(MessageOf(n, k))' <=> Delivered(MessageOf(n, k))
    BY <2>1 DEF Delivered, MessageOf
  <2> QED
    BY <2>1, <2>2 DEF ExitZeroMeansDelivered
<1>2. CASE Flush
  BY <1>2, FlushExit
<1>3. CASE Start
  BY <1>3 DEF Start
<1>4. CASE OpenPoll \/ PublishRow \/ Drain \/ EndPoll
  BY <1>4 DEF OpenPoll, PublishRow, Drain, EndPoll, End, RunKept
<1>5. ASSUME NEW q \in queue, PutStep(q) PROVE FALSE
  BY <1>5, PutStepFacts DEF RunKept
<1> QED
  BY <1>1, <1>2, <1>3, <1>4, <1>5 DEF Next, PutStep

ReplayInv == TypeOK /\ RunKept /\ OrderKept /\ RowsKept /\ ExitZeroMeansDelivered

LEMMA InvInductive ==
  /\ Init => ReplayInv
  /\ ReplayInv /\ [Next]_vars => ReplayInv'
<1>1. ASSUME Init PROVE ReplayInv
  <2>1. \A t \in Topics : topics[t] = <<>> /\ DOMAIN topics[t] = {}
    BY <1>1 DEF Init
  <2>2. RunKept /\ RowsKept /\ ExitZeroMeansDelivered
    BY <1>1, <2>1 DEF Init, RunKept, RowsKept, ExitZeroMeansDelivered
  <2>3. OrderKept
    BY <1>1, <2>1 DEF OrderKept, QueueKept, LanesKept, OneCopyPerRun, IsInjective
  <2> QED
    BY <1>1, <2>2, <2>3, InitType DEF ReplayInv
<1>2. ReplayInv /\ [Next]_vars => ReplayInv'
  BY StepType, StepRunKept, StepOrder, StepRows, StepExit DEF ReplayInv
<1> QED
  BY <1>1, <1>2

\* After an exit with 0, every row of every file that parses is on its topic
\* or on the dead-letter topic, put there by the run that exited.
THEOREM ExitHolds == Spec => []ExitZeroMeansDelivered
<1>1. ReplayInv => ExitZeroMeansDelivered
  BY DEF ReplayInv
<1> QED
  BY <1>1, InvInductive, PTL DEF Spec

\* A run puts a row on a topic once at most.
THEOREM CopiesHold == Spec => []OneCopyPerRun
<1>1. ReplayInv => OneCopyPerRun
  BY DEF ReplayInv, OrderKept
<1> QED
  BY <1>1, InvInductive, PTL DEF Spec

LEMMA LanesAreTrips ==
  ASSUME RunKept, LanesKept
  PROVE  ObservationOrder
<1> SUFFICES ASSUME NEW t \in Feeds, NEW i \in DOMAIN topics[t], NEW j \in DOMAIN topics[t],
                    i < j, topics[t][i].run = topics[t][j].run,
                    TripOf(topics[t][i]) = TripOf(topics[t][j])
             PROVE  LaterThan(topics[t][i], topics[t][j])
  BY DEF ObservationOrder, LaterThan
<1>1. \A m, n : TripOf(m) = TripOf(n) =>
        KeyFor(FromDecodedRow(Rows(m.file)[m.row])) = KeyFor(FromDecodedRow(Rows(n.file)[n.row]))
  BY DEF TripOf, KeyFor, FromDecodedRow
<1>2. t \in Topics /\ t # DeadLetters
  BY DEF Topics, Feeds, DeadLetters
<1>3. SameLane(topics[t][i], topics[t][j])
  BY <1>1, <1>2 DEF SameLane, RunKept
<1> QED
  BY <1>2, <1>3 DEF LanesKept

\* A topic holds the observations a run made of a trip in the order of the
\* polls and, within one, of its rows.
THEOREM OrderHolds == Spec => []ObservationOrder
<1>1. ReplayInv => ObservationOrder
  BY LanesAreTrips DEF ReplayInv, OrderKept
<1> QED
  BY <1>1, InvInductive, PTL DEF Spec

---------------------------------------------------------------------------
(* What FlattenSeq puts together.                                          *)

\* A set of naturals that is not empty has a least element.
LEMMA LeastNatural ==
  ASSUME NEW T \in SUBSET Nat, T # {}
  PROVE  \E m \in T : \A u \in T : m <= u
<1> DEFINE R == OpToRel(<, Nat)
<1>1. PICK m \in T : \A u \in T : <<u, m>> \notin R
  <2>1. IsWellFoundedOn(R, Nat)
    BY NatLessThanWellFounded
  <2> HIDE DEF R
  <2> QED
    BY <2>1, WFMin
<1>2. ASSUME NEW u \in T, u < m PROVE <<u, m>> \in R
  BY <1>2 DEF OpToRel
<1>3. \A u \in T : ~(u < m)
  BY <1>1, <1>2
<1> QED
  BY <1>3

\* flat[i] is the first i sequences of seqs, one after the other.
Flattens(flat, seqs, n) ==
  flat = [i \in 1..n |-> IF i = 1 THEN seqs[i] ELSE flat[i - 1] \o seqs[i]]

\* There is such a function for every n, so the one FlattenSeq chooses is one.
LEMMA FlattenIsDefined ==
  ASSUME NEW seqs, NEW n \in Nat
  PROVE  \E flat : Flattens(flat, seqs, n)
<1> DEFINE T == {m \in Nat : ~\E flat : Flattens(flat, seqs, m)}
<1> SUFFICES ASSUME T # {} PROVE FALSE
  OBVIOUS
<1>1. PICK m \in T : \A u \in T : m <= u
  BY LeastNatural
<1>2. m # 0
  <2> DEFINE flat == [i \in 1..0 |-> IF i = 1 THEN seqs[i] ELSE seqs[i]]
  <2>1. Flattens(flat, seqs, 0)
    BY DEF Flattens
  <2> QED
    BY <2>1
<1>3. PICK flat : Flattens(flat, seqs, m - 1)
  <2>1. m - 1 \in Nat /\ m - 1 \notin T
    BY <1>1, <1>2
  <2> QED
    BY <2>1
<1> DEFINE next == [i \in 1..m |-> IF i = 1 THEN seqs[i]
                                   ELSE IF i = m THEN flat[m - 1] \o seqs[i] ELSE flat[i]]
<1>4. ASSUME NEW i \in 1..m, i # 1 PROVE next[i] = next[i - 1] \o seqs[i]
  <2>1. next[i - 1] = flat[i - 1]
    <3>1. CASE i - 1 = 1
      BY <1>2, <1>3, <1>4, <3>1 DEF Flattens
    <3>2. CASE i - 1 # 1
      BY <1>2, <1>3, <1>4, <3>2
    <3> QED
      BY <3>1, <3>2
  <2>2. CASE i = m
    BY <1>4, <2>1, <2>2
  <2>3. CASE i # m
    <3>1. i \in 1..(m - 1)
      BY <1>2, <2>3
    <3>2. flat[i] = flat[i - 1] \o seqs[i]
      BY <1>3, <1>4, <3>1 DEF Flattens
    <3> QED
      BY <1>4, <2>1, <2>3, <3>2
  <2> QED
    BY <2>2, <2>3
<1>5. next = [i \in 1..m |-> IF i = 1 THEN seqs[i] ELSE next[i - 1] \o seqs[i]]
  BY <1>4
<1>6. Flattens(next, seqs, m)
  BY <1>5 DEF Flattens
<1> QED
  BY <1>6

\* FlattenSeq is the last value of one.
LEMMA FlattenUnfolds ==
  ASSUME NEW seqs, Len(seqs) \in Nat \ {0}
  PROVE  \E flat : Flattens(flat, seqs, Len(seqs)) /\ FlattenSeq(seqs) = flat[Len(seqs)]
<1> DEFINE c == CHOOSE flat : Flattens(flat, seqs, Len(seqs))
<1>1. Flattens(c, seqs, Len(seqs))
  BY FlattenIsDefined
<1>2. FlattenSeq(seqs) = c[Len(seqs)]
  BY DEF FlattenSeq, Flattens
<1> QED
  BY <1>1, <1>2

\* What FlattenSeq puts together are elements of the sequences.
LEMMA FlattenElements ==
  ASSUME NEW S, NEW seqs \in Seq(Seq(S)), Len(seqs) # 0
  PROVE  /\ FlattenSeq(seqs) \in Seq(S)
         /\ \A j \in DOMAIN FlattenSeq(seqs) : \E k \in DOMAIN seqs : \E l \in DOMAIN seqs[k] :
              FlattenSeq(seqs)[j] = seqs[k][l]
<1>1. Len(seqs) \in Nat \ {0} /\ \A k \in 1..Len(seqs) : seqs[k] \in Seq(S)
  BY LenProperties, ElementOfSeq
<1>2. PICK flat : Flattens(flat, seqs, Len(seqs)) /\ FlattenSeq(seqs) = flat[Len(seqs)]
  BY <1>1, FlattenUnfolds
<1> DEFINE Within(x) == \E k \in 1..Len(seqs) : \E l \in 1..Len(seqs[k]) : x = seqs[k][l]
           From(s) == s \in Seq(S) /\ \A j \in 1..Len(s) : Within(s[j])
<1>3. \A i \in 1..Len(seqs) : From(flat[i])
  <2> DEFINE T == {i \in 1..Len(seqs) : ~From(flat[i])}
  <2> SUFFICES ASSUME T # {} PROVE FALSE
    OBVIOUS
  <2>1. T \in SUBSET Nat
    OBVIOUS
  <2> HIDE DEF From
  <2>2. PICK m \in T : \A u \in T : m <= u
    BY <2>1, LeastNatural
  <2>3. CASE m = 1
    <3>1. flat[m] = seqs[m] /\ m \in 1..Len(seqs)
      BY <1>2, <2>3 DEF Flattens
    <3>2. From(seqs[m])
      <4>1. \A j \in 1..Len(seqs[m]) : Within(seqs[m][j])
        BY <3>1
      <4> QED
        BY <1>1, <3>1, <4>1 DEF From
    <3> QED
      BY <3>1, <3>2
  <2>4. CASE m # 1
    <3>1. flat[m] = flat[m - 1] \o seqs[m] /\ m \in 1..Len(seqs)
      BY <1>2, <2>4 DEF Flattens
    <3>2. m - 1 \in 1..Len(seqs) /\ m - 1 \notin T
      BY <1>1, <2>2, <2>4
    <3>3. From(flat[m - 1])
      BY <3>2
    <3> DEFINE s == flat[m - 1]
               t == seqs[m]
    <3>4. From(s) /\ t \in Seq(S)
      BY <1>1, <3>1, <3>3
    <3>5. From(s \o t)
      <4> HIDE DEF s
      <4>1. /\ s \o t \in Seq(S) /\ Len(s \o t) = Len(s) + Len(t)
            /\ Len(s) \in Nat /\ Len(t) \in Nat
            /\ \A j \in 1..Len(s) + Len(t) : (s \o t)[j] = IF j <= Len(s) THEN s[j] ELSE t[j - Len(s)]
        BY <3>4, ConcatProperties DEF From
      <4>2. ASSUME NEW j \in 1..Len(s \o t)
            PROVE  Within((s \o t)[j])
        <5>1. CASE j <= Len(s)
          <6>1. j \in 1..Len(s) /\ (s \o t)[j] = s[j]
            BY <4>1, <5>1
          <6> HIDE DEF t, Within
          <6> QED
            BY <3>4, <6>1 DEF From
        <5>2. CASE j > Len(s)
          <6>1. j - Len(s) \in 1..Len(t) /\ (s \o t)[j] = t[j - Len(s)]
            BY <4>1, <5>2
          <6> QED
            BY <3>1, <6>1
        <5>3. j \in Nat
          BY <4>1
        <5> QED
          BY <4>1, <5>1, <5>2, <5>3
      <4> QED
        BY <4>1, <4>2 DEF From
    <3> QED
      BY <3>1, <3>5
  <2> QED
    BY <2>3, <2>4
<1>4. From(FlattenSeq(seqs))
  <2> HIDE DEF From
  <2> QED
    BY <1>1, <1>2, <1>3
<1>5. /\ DOMAIN FlattenSeq(seqs) = 1..Len(FlattenSeq(seqs)) /\ DOMAIN seqs = 1..Len(seqs)
      /\ \A k \in 1..Len(seqs) : DOMAIN seqs[k] = 1..Len(seqs[k])
  BY <1>1, <1>4, LenProperties
<1> QED
  BY <1>4, <1>5

---------------------------------------------------------------------------
(* What the rows of a file say.                                            *)

\* Every row of a trip update speaks of one of its stops, or it has none.
LEMMA UpdateRowSays ==
  ASSUME NEW e, e.kind = "trip_updates", NEW l \in DOMAIN DecodeTripUpdate(e),
         e.stop_time_update \in Seq(Range(e.stop_time_update)),
         \A n \in DOMAIN e.stop_time_update :
           e.stop_time_update[n].arrival \in Seq(Range(e.stop_time_update[n].arrival))
  PROVE  Says(e, FromDecodedRow(DecodeTripUpdate(e)[l]))
<1> DEFINE stops == e.stop_time_update
           ev(stu) == FromDecodedRow(TripUpdateRow(e, stu))
<1>1. ASSUME NEW stu
      PROVE  /\ ev(stu).envelope.feed_type = "trip_updates"
             /\ ev(stu).report_ts_epoch = e.timestamp
             /\ ev(stu).stop = StopColumns(stu)
  BY DEF FromDecodedRow, TripUpdateRow
<1>2. CASE stops = <<>>
  <2>1. DecodeTripUpdate(e)[l] = TripUpdateRow(e, <<>>)
    BY <1>2 DEF DecodeTripUpdate
  <2>2. \A c \in DOMAIN StopColumns(<<>>) : StopColumns(<<>>)[c] = Absent
    BY DEF StopColumns, Get
  <2> QED
    BY <1>1, <1>2, <2>1, <2>2 DEF Says
<1>3. CASE stops # <<>>
  <2>1. DecodeTripUpdate(e)[l] = TripUpdateRow(e, <<stops[l]>>) /\ l \in DOMAIN stops
    BY <1>3 DEF DecodeTripUpdate
  <2> DEFINE u == stops[l]
             arrival == u.arrival
  <2>2. StopColumns(<<u>>) =
          [stop_sequence |-> u.stop_sequence,
           arrival_time_epoch |-> Get(arrival, "time"),
           arrival_delay_s |-> Get(arrival, "delay"),
           arrival_uncertainty |-> Get(arrival, "uncertainty")]
    BY DEF StopColumns, Get
  <2>3. arrival # <<>> => Head(arrival) = arrival[1]
    <3>1. arrival \in Seq(Range(arrival))
      BY <2>1
    <3> QED
      BY <3>1, HeadTailProperties
  <2>4. \/ arrival = <<>> /\ \A f : Get(arrival, f) = Absent
        \/ arrival # <<>> /\ \A f : Get(arrival, f) = arrival[1][f]
    BY <2>3 DEF Get
  <2> HIDE DEF arrival
  <2>5. /\ StopColumns(<<u>>).stop_sequence = u.stop_sequence
        /\ StopColumns(<<u>>).arrival_time_epoch = Get(arrival, "time")
        /\ StopColumns(<<u>>).arrival_delay_s = Get(arrival, "delay")
        /\ StopColumns(<<u>>).arrival_uncertainty = Get(arrival, "uncertainty")
    BY <2>2
  <2> QED
    BY <1>1, <2>1, <2>4, <2>5 DEF Says, arrival
<1> QED
  BY <1>2, <1>3

\* The row of a position says what its entity says; it has no stop times.
LEMMA PositionRowSays ==
  ASSUME NEW e, e.kind = "vehicle_positions", NEW l \in DOMAIN DecodeVehiclePosition(e)
  PROVE  Says(e, FromDecodedRow(DecodeVehiclePosition(e)[l]))
<1> DEFINE ev == FromDecodedRow(DecodeVehiclePosition(e)[l])
<1>1. ev.envelope.feed_type = "vehicle_positions" /\ ev.report_ts_epoch = e.timestamp
  BY DEF FromDecodedRow, DecodeVehiclePosition
<1> QED
  BY <1>1 DEF Says

\* What one entity decodes to is a sequence.
LEMMA DecodedParts ==
  ASSUME NEW f \in Files
  PROVE  \A k \in DOMAIN f.entities :
           f.entities[k].kind = f.feed =>
             /\ f.feed = "trip_updates" =>
                  \E n \in Nat : DOMAIN DecodeTripUpdate(f.entities[k]) = 1..n
             /\ DOMAIN DecodeVehiclePosition(f.entities[k]) = 1..1
<1> SUFFICES ASSUME NEW k \in DOMAIN f.entities, f.entities[k].kind = f.feed
             PROVE  /\ f.feed = "trip_updates" =>
                         \E n \in Nat : DOMAIN DecodeTripUpdate(f.entities[k]) = 1..n
                    /\ DOMAIN DecodeVehiclePosition(f.entities[k]) = 1..1
  OBVIOUS
<1>1. DOMAIN DecodeVehiclePosition(f.entities[k]) = 1..1
  BY DEF DecodeVehiclePosition
<1>2. ASSUME f.feed = "trip_updates"
      PROVE  \E n \in Nat : DOMAIN DecodeTripUpdate(f.entities[k]) = 1..n
  <2> DEFINE updates == f.entities[k].stop_time_update
  <2>1. updates \in Seq(Range(updates))
    BY <1>2, PayloadAssumption
  <2>2. Len(updates) \in Nat /\ DOMAIN updates = 1..Len(updates)
    <3> HIDE DEF updates
    <3> QED
      BY <2>1, LenProperties
  <2>3. CASE updates = <<>>
    BY <2>3 DEF DecodeTripUpdate
  <2>4. CASE updates # <<>>
    BY <2>2, <2>4 DEF DecodeTripUpdate
  <2> QED
    BY <2>3, <2>4
<1> QED
  BY <1>1, <1>2

\* Every row of a file says what one of its entities says.
LEMMA RowsSay ==
  ASSUME NEW f \in Files, NEW r \in 1..RowCount(f)
  PROVE  \E k \in DOMAIN f.entities : Says(f.entities[k], FromDecodedRow(Rows(f)[r]))
<1> DEFINE E == f.entities
           Part(k) == IF E[k].kind # f.feed THEN <<>>
                      ELSE IF f.feed = "trip_updates" THEN DecodeTripUpdate(E[k])
                      ELSE DecodeVehiclePosition(E[k])
           parts == [k \in DOMAIN E |-> Part(k)]
           S == UNION {Range(Part(k)) : k \in DOMAIN E}
<1>1. Rows(f) = FlattenSeq(parts)
  BY DEF Rows, DecodeRows
<1>2. Len(E) \in Nat /\ DOMAIN E = 1..Len(E)
  <2>1. E \in Seq(Range(E))
    BY PayloadAssumption
  <2> HIDE DEF E
  <2> QED
    BY <2>1, LenProperties
<1>3. f.feed \in Feeds /\ RowCount(f) \in Nat
  BY ReplayAssumption
<1>4. \A k \in DOMAIN E : \E n \in Nat : DOMAIN Part(k) = 1..n /\ Part(k) = [i \in 1..n |-> Part(k)[i]]
  <2> SUFFICES ASSUME NEW k \in DOMAIN E
               PROVE  \E n \in Nat : DOMAIN Part(k) = 1..n /\ Part(k) = [i \in 1..n |-> Part(k)[i]]
    OBVIOUS
  <2>1. CASE E[k].kind # f.feed
    <3>1. Part(k) = <<>> /\ DOMAIN Part(k) = 1..0
      BY <2>1
    <3> QED
      BY <3>1
  <2>2. CASE E[k].kind = f.feed /\ f.feed = "trip_updates"
    <3>1. Part(k) = DecodeTripUpdate(E[k])
      BY <2>2
    <3>2. Part(k) = [i \in DOMAIN Part(k) |-> Part(k)[i]]
      <4> DEFINE updates == E[k].stop_time_update
      <4>1. CASE updates = <<>>
        <5>1. Part(k) = <<TripUpdateRow(E[k], <<>>)>>
          BY <3>1, <4>1 DEF DecodeTripUpdate
        <5> QED
          BY <5>1
      <4>2. CASE updates # <<>>
        <5>1. Part(k) = [i \in DOMAIN updates |-> TripUpdateRow(E[k], <<updates[i]>>)]
          BY <3>1, <4>2 DEF DecodeTripUpdate
        <5> HIDE DEF Part
        <5> QED
          BY <5>1
      <4> QED
        BY <4>1, <4>2
    <3> QED
      BY <2>2, <3>1, <3>2, DecodedParts
  <2>3. CASE E[k].kind = f.feed /\ f.feed # "trip_updates"
    <3>1. Part(k) = DecodeVehiclePosition(E[k])
      BY <2>3
    <3>2. Part(k) = [i \in DOMAIN Part(k) |-> Part(k)[i]]
      BY <3>1 DEF DecodeVehiclePosition
    <3> QED
      BY <2>3, <3>1, <3>2, DecodedParts
  <2> QED
    BY <2>1, <2>2, <2>3
<1>5. parts \in Seq(Seq(S)) /\ Len(parts) = Len(E)
  <2> HIDE DEF E, Part
  <2>1. ASSUME NEW k \in DOMAIN E PROVE Part(k) \in Seq(S)
    <3>1. PICK n \in Nat : DOMAIN Part(k) = 1..n /\ Part(k) = [i \in 1..n |-> Part(k)[i]]
      BY <1>4
    <3>2. \A i \in 1..n : Part(k)[i] \in S
      BY <3>1 DEF Range
    <3> HIDE DEF S
    <3>3. Part(k) \in [1..n -> S]
      BY <3>1, <3>2
    <3> QED
      BY <3>3
  <2> HIDE DEF S
  <2>2. parts \in [1..Len(E) -> Seq(S)]
    BY <1>2, <2>1
  <2>3. parts \in Seq(Seq(S))
    BY <1>2, <2>2
  <2> QED
    BY <1>2, <2>2, <2>3
<1>6. Len(E) # 0
  <2>1. Len(E) = 0 => FlattenSeq(parts) = parts
    BY <1>5 DEF FlattenSeq
  <2>2. RowCount(f) # 0
    BY <1>3
  <2>3. RowCount(f) = Len(FlattenSeq(parts))
    BY <1>1 DEF RowCount
  <2> HIDE DEF parts
  <2> QED
    BY <1>5, <2>1, <2>2, <2>3
<1>7. PICK k \in DOMAIN parts : \E l \in DOMAIN parts[k] : FlattenSeq(parts)[r] = parts[k][l]
  <2>1. r \in 1..Len(FlattenSeq(parts))
    BY <1>1 DEF RowCount
  <2> HIDE DEF parts, S, E
  <2>2. FlattenSeq(parts) \in Seq(S)
    BY <1>5, <1>6, FlattenElements
  <2>3. r \in DOMAIN FlattenSeq(parts)
    BY <2>1, <2>2, LenProperties
  <2> QED
    BY <1>5, <1>6, <2>3, FlattenElements
<1>8. PICK l \in DOMAIN Part(k) : Rows(f)[r] = Part(k)[l]
  BY <1>1, <1>7
<1>9. k \in DOMAIN E /\ E[k].kind = f.feed
  BY <1>7, <1>8
<1>10. Says(E[k], FromDecodedRow(Rows(f)[r]))
  <2>1. CASE f.feed = "trip_updates"
    <3>1. Part(k) = DecodeTripUpdate(E[k])
      BY <1>9, <2>1
    <3> QED
      BY <1>8, <1>9, <2>1, <3>1, UpdateRowSays, PayloadAssumption
  <2>2. CASE f.feed = "vehicle_positions"
    <3>1. Part(k) = DecodeVehiclePosition(E[k])
      BY <1>9, <2>2
    <3> QED
      BY <1>8, <1>9, <2>2, <3>1, PositionRowSays
  <2> QED
    BY <1>3, <2>1, <2>2 DEF Feeds
<1> QED
  BY <1>9, <1>10

---------------------------------------------------------------------------
(* What the events on a topic say.                                         *)

\* A message is of a row its file has.
RowsReal ==
  /\ phase = "draining" => row <= RowCount(polls[at])
  /\ \A q \in queue : q.message.row <= RowCount(q.message.file)
  /\ \A t \in Topics : \A i \in DOMAIN topics[t] : topics[t][i].row <= RowCount(topics[t][i].file)

\* Only a row that is there is published, at once or after a drain.
LEMMA StepRowsReal == TypeOK /\ RowsReal /\ [Next]_vars => RowsReal'
<1> SUFFICES ASSUME TypeOK, RowsReal, [Next]_vars PROVE RowsReal'
  OBVIOUS
<1>1. CASE UNCHANGED vars
  BY <1>1 DEF vars, library, RowsReal
<1>2. CASE RunStep
  <2>1. phase' = "draining" => row' <= RowCount(polls'[at'])
    BY <1>2 DEF RunStep, OpenPoll, PublishRow, Drain, EndPoll, Flush, End
  <2>2. Fresh.message = MessageOf(at, row)
    BY DEF Fresh
  <2>3. ASSUME NEW q \in queue' PROVE q.message.row <= RowCount(q.message.file)
    <3>1. CASE q \in queue
      BY <3>1 DEF RowsReal
    <3>2. CASE q \notin queue
      <4>1. q = Fresh
        BY <1>2, <3>2, RunStepFacts
      <4>2. row <= RowCount(polls[at])
        BY <1>2, <3>2 DEF RunStep, OpenPoll, PublishRow, Drain, EndPoll, Flush, End, RowsReal, Waiting
      <4>3. q.message.row = row /\ q.message.file = polls[at]
        BY <2>2, <4>1, MessageShape
      <4> QED
        BY <4>2, <4>3
    <3> QED
      BY <3>1, <3>2
  <2> QED
    BY <1>2, <2>1, <2>3, RunStepFacts DEF RowsReal
<1>3. ASSUME NEW q \in queue, PutStep(q) PROVE RowsReal'
  <2>1. q.message.row <= RowCount(q.message.file)
    BY DEF RowsReal
  <2>2. \A p \in queue' : p.message.row <= RowCount(p.message.file)
    BY <1>3, PutStepFacts DEF RowsReal
  <2>3. ASSUME NEW t \in Topics, NEW i \in DOMAIN topics'[t]
        PROVE  topics'[t][i].row <= RowCount(topics'[t][i].file)
    BY <1>3, <2>1, PutEntries DEF RowsReal
  <2> QED
    BY <1>3, <2>2, <2>3, PutStepFacts DEF RowsReal
<1>4. CASE Start
  BY <1>4 DEF Start, RowsReal
<1> QED
  BY <1>1, <1>2, <1>3, <1>4 DEF Next, RunStep, PutStep

\* So every event on a topic is a decoded row.
LEMMA RealRowsSay ==
  ASSUME TypeOK, RowsReal
  PROVE  EventsSayWhatTheAgencySaid
<1> SUFFICES ASSUME NEW t \in Feeds, NEW i \in DOMAIN topics[t]
             PROVE  \E k \in DOMAIN topics[t][i].file.entities :
                      Says(topics[t][i].file.entities[k],
                           FromDecodedRow(Rows(topics[t][i].file)[topics[t][i].row]))
  BY DEF EventsSayWhatTheAgencySaid
<1> DEFINE m == topics[t][i]
<1>1. t \in Topics /\ m \in Message
  BY EntryTypes DEF Topics
<1>2. m.file \in Files /\ m.row \in Nat \ {0}
  BY <1>1 DEF Message
<1>3. RowCount(m.file) \in Nat /\ m.row <= RowCount(m.file)
  BY <1>1, <1>2, ReplayAssumption DEF RowsReal
<1>4. m.row \in 1..RowCount(m.file)
  <2> HIDE DEF m
  <2> QED
    BY <1>2, <1>3
<1> QED
  BY <1>2, <1>4, RowsSay

\* Whatever the agency's payloads leave out, an event says of its stop what one
\* update of its payload says and nothing else: a missing field stays missing
\* through decode.py and from_decoded_row, and 0 stays 0.
THEOREM EventsHold == Spec => []EventsSayWhatTheAgencySaid
<1>1. Init => TypeOK /\ RowsReal
  BY InitType DEF Init, RowsReal
<1>2. TypeOK /\ RowsReal /\ [Next]_vars => (TypeOK /\ RowsReal)'
  BY StepType, StepRowsReal
<1>3. TypeOK /\ RowsReal => EventsSayWhatTheAgencySaid
  BY RealRowsSay
<1> QED
  BY <1>1, <1>2, <1>3, PTL DEF Spec
=============================================================================
