--------------------------- MODULE ResolverProofs ---------------------------
(***************************************************************************)
(* What the resolver group commits and announces, for any number of        *)
(* instances, stops, events, rebalances and restarts and any commit        *)
(* interval, and what the aggregator that reads it makes of the arrivals.  *)
(***************************************************************************)
EXTENDS Aggregator, FiniteSetTheorems, SequenceTheorems, TLAPS

---------------------------------------------------------------------------
LEMMA InitType == Init => TypeOK
<1> SUFFICES ASSUME Init PROVE TypeOK
  OBVIOUS
<1>1. topic \in Seq(Events) /\ arrivals \in Seq(Offsets) /\ Len(topic) = 0
  BY DEF Init
<1>2. CommitEvery - 1 \in Nat
  BY ResolverAssumption
<1>3. \A n \in {MaxEvents, MaxLives, MaxMoves, MaxCrashes, MaxLost} : n \in Nat /\ 0 \in 0..n
  BY ResolverAssumption
<1>4. counted \in [Instances -> 0..(CommitEvery - 1)]
  BY <1>2 DEF Init
<1>5. position \in [Instances -> 0..Len(topic)]
  BY <1>1 DEF Init
<1>6. buffer \in [Instances -> Seq(Offsets)] /\ emitted \in [Instances -> SUBSET Stops]
  BY DEF Init
<1> QED
  BY <1>1, <1>3, <1>4, <1>5, <1>6 DEF Init, TypeOK


LEMMA ConsumeFacts ==
  ASSUME TypeOK, NEW i \in Instances, Consume(i)
  PROVE  LET k == position[i] + 1
             e == topic[k]
         IN /\ k \in 1..Len(topic) /\ k \in Offsets /\ e \in Events
            /\ position' = [position EXCEPT ![i] = k]
            /\ polled' = polled \union {i}
            /\ fetched' = fetched \union {k}
            /\ counted' = [counted EXCEPT ![i] = CountModulo(counted[i], e)]
            /\ CountModulo(counted[i], e) \in 0..(CommitEvery - 1)
            /\ \/ /\ e \in Stops \ emitted[i]
                  /\ emitted' = [emitted EXCEPT ![i] = @ \union {e}]
                  /\ buffer' = [buffer EXCEPT ![i] = Append(@, k)]
               \/ /\ e \notin Stops \/ e \in emitted[i]
                  /\ UNCHANGED <<emitted, buffer>>
            /\ committed' \in {committed, k}
            /\ holder = i
            /\ UNCHANGED <<topic, arrivals, holder, running, counters, joinedAt>>
<1> DEFINE k == position[i] + 1
           e == topic[k]
<1>1. position[i] \in 0..Len(topic) /\ Len(topic) \in Nat /\ MaxEvents \in Nat /\ Len(topic) <= MaxEvents
  BY ResolverAssumption DEF TypeOK
<1>2. k \in 1..Len(topic) /\ k \in Offsets
  BY <1>1 DEF Consume, Offsets
<1>3. e \in Events
  BY <1>2 DEF TypeOK
<1>4. CountModulo(counted[i], e) \in 0..(CommitEvery - 1)
  <2>1. counted[i] \in 0..(CommitEvery - 1) /\ CommitEvery \in Nat \ {0}
    BY ResolverAssumption DEF TypeOK
  <2>2. \A c \in Nat : (c + 1) % CommitEvery \in 0..(CommitEvery - 1)
    BY <2>1
  <2>3. counted[i] \in Nat
    BY <2>1
  <2> QED
    BY <2>1, <2>2, <2>3 DEF CountModulo
<1>5. /\ position' = [position EXCEPT ![i] = k]
      /\ polled' = polled \union {i}
      /\ fetched' = fetched \union {k}
      /\ counted' = [counted EXCEPT ![i] = CountModulo(counted[i], e)]
      /\ committed' \in {committed, k}
      /\ holder = i
      /\ UNCHANGED <<topic, arrivals, holder, running, counters, joinedAt>>
  BY DEF Consume
<1>6. \/ /\ e \in Stops \ emitted[i]
         /\ emitted' = [emitted EXCEPT ![i] = @ \union {e}]
         /\ buffer' = [buffer EXCEPT ![i] = Append(@, k)]
      \/ /\ e \notin Stops \/ e \in emitted[i]
         /\ UNCHANGED <<emitted, buffer>>
  BY DEF Consume, IsArrival
<1> HIDE DEF k, e
<1>7. QED
  BY <1>2, <1>3, <1>4, <1>5, <1>6 DEF k, e

LEMMA StepType ==
  ASSUME TypeOK, [Next]_vars
  PROVE  TypeOK'
<1>0. /\ MaxEvents \in Nat /\ MaxLives \in Nat /\ MaxMoves \in Nat
      /\ MaxCrashes \in Nat /\ MaxLost \in Nat /\ Len(topic) \in Nat
  BY ResolverAssumption DEF TypeOK
<1> USE DEF broker, counters, history
<1>1. CASE UNCHANGED vars
  BY <1>1 DEF vars, TypeOK
<1>2. ASSUME NEW e \in Events, Publish(e) PROVE TypeOK'
  <2>1. topic' = Append(topic, e) /\ topic' \in Seq(Events) /\ Len(topic') = Len(topic) + 1
    BY <1>2 DEF Publish, TypeOK
  <2>2. Len(topic') <= MaxEvents /\ 0..Len(topic) \subseteq 0..Len(topic')
    BY <1>0, <1>2, <2>1 DEF Publish
  <2>3. position' \in [Instances -> 0..Len(topic')]
    BY <1>2, <2>2 DEF Publish, TypeOK
  <2> QED
    BY <1>2, <2>1, <2>2, <2>3 DEF Publish, TypeOK
<1>3. ASSUME NEW i \in Instances, Assign(i) PROVE TypeOK'
  <2>1. ResumeAt \in 0..Len(topic)
    BY <1>0 DEF ResumeAt, ResetOffset, TypeOK, NoOffset
  <2>2. position' \in [Instances -> 0..Len(topic)] /\ position'[i] = ResumeAt
    BY <1>3, <2>1 DEF Assign, TypeOK
  <2>3. moves' \in 0..MaxMoves
    <3>1. moves' = moves \/ (moves < MaxMoves /\ moves' = moves + 1)
      BY <1>3 DEF Assign
    <3>2. moves \in 0..MaxMoves
      BY DEF TypeOK
    <3> QED
      BY <1>0, <3>1, <3>2
  <2>4. joinedAt' \in {NoOffset} \union 0..Len(topic)
    BY <1>3, <2>1, <2>2 DEF Assign, TypeOK
  <2> QED
    BY <1>3, <2>2, <2>3, <2>4 DEF Assign, TypeOK
<1>4. ASSUME NEW i \in Instances, Deliver(i) \/ GiveUp(i) PROVE TypeOK'
  <2>1. buffer[i] \in Seq(Offsets) /\ buffer[i] # <<>>
    BY <1>4 DEF Deliver, GiveUp, TypeOK
  <2>2. Head(buffer[i]) \in Offsets /\ Tail(buffer[i]) \in Seq(Offsets)
    BY <2>1
  <2>3. buffer' \in [Instances -> Seq(Offsets)]
    BY <1>4, <2>2 DEF Deliver, GiveUp, TypeOK
  <2>4. arrivals' \in Seq(Offsets)
    <3>1. arrivals' \in {arrivals, Append(arrivals, Head(buffer[i]))}
      BY <1>4 DEF Deliver, GiveUp
    <3>2. Append(arrivals, Head(buffer[i])) \in Seq(Offsets)
      BY <2>2 DEF TypeOK
    <3> QED
      BY <3>1, <3>2 DEF TypeOK
  <2>5. lost' \in 0..MaxLost
    <3>1. lost' = lost \/ (lost < MaxLost /\ lost' = lost + 1)
      BY <1>4 DEF Deliver, GiveUp
    <3>2. lost \in 0..MaxLost
      BY DEF TypeOK
    <3> QED
      BY <1>0, <3>1, <3>2
  <2> QED
    BY <1>4, <2>3, <2>4, <2>5 DEF Deliver, GiveUp, TypeOK
<1>5. ASSUME NEW i \in Instances, Start(i) PROVE TypeOK'
  <2>1. lives' \in 0..MaxLives
    BY <1>0, <1>5 DEF Start, TypeOK
  <2>2. 0 \in 0..(CommitEvery - 1)
    BY ResolverAssumption
  <2>3. counted' \in [Instances -> 0..(CommitEvery - 1)]
    BY <1>5, <2>2 DEF Start, TypeOK
  <2> QED
    BY <1>5, <2>1, <2>3 DEF Start, TypeOK
<1>6. ASSUME NEW i \in Instances, Consume(i) PROVE TypeOK'
  <2> DEFINE k == position[i] + 1
             e == topic[k]
  <2>1. /\ k \in 1..Len(topic) /\ k \in Offsets /\ e \in Events
        /\ position' = [position EXCEPT ![i] = k]
        /\ polled' = polled \union {i} /\ fetched' = fetched \union {k}
        /\ counted' = [counted EXCEPT ![i] = CountModulo(counted[i], e)]
        /\ CountModulo(counted[i], e) \in 0..(CommitEvery - 1)
        /\ committed' \in {committed, k}
        /\ UNCHANGED <<topic, arrivals, holder, running, counters, joinedAt>>
    BY <1>6, ConsumeFacts
  <2>2. emitted' \in [Instances -> SUBSET Stops] /\ buffer' \in [Instances -> Seq(Offsets)]
    <3>1. buffer[i] \in Seq(Offsets) /\ Append(buffer[i], k) \in Seq(Offsets)
      BY <2>1 DEF TypeOK
    <3>2. \/ emitted' = [emitted EXCEPT ![i] = @ \union {e}] /\ e \in Stops
             /\ buffer' = [buffer EXCEPT ![i] = Append(@, k)]
          \/ UNCHANGED <<emitted, buffer>>
      BY <1>6, ConsumeFacts
    <3>3. emitted \in [Instances -> SUBSET Stops] /\ buffer \in [Instances -> Seq(Offsets)]
      BY DEF TypeOK
    <3> HIDE DEF k, e
    <3> QED
      BY <3>1, <3>2, <3>3
  <2> HIDE DEF k, e
  <2>3. k \in 0..Len(topic)
    BY <1>0, <2>1
  <2>4. position' \in [Instances -> 0..Len(topic)] /\ counted' \in [Instances -> 0..(CommitEvery - 1)]
    BY <2>1, <2>3 DEF TypeOK
  <2> QED
    BY <1>6, <2>1, <2>2, <2>3, <2>4 DEF TypeOK
<1>7. ASSUME NEW i \in Instances, Exit(i) PROVE TypeOK'
  <2>1. Len(buffer[i]) \in Nat
    BY DEF TypeOK
  <2>2. lost' \in 0..MaxLost
    BY <1>0, <1>7, <2>1 DEF Exit, TypeOK
  <2>3. buffer' \in [Instances -> Seq(Offsets)]
    BY <1>7 DEF Exit, TypeOK
  <2>4. holder' \in running' \union {NoOne} /\ running' \in SUBSET Instances
    BY <1>7 DEF Exit, Leave, TypeOK
  <2>5. committed' \in {NoOffset} \union 0..Len(topic)
    BY <1>7 DEF Exit, TypeOK
  <2> QED
    BY <1>7, <2>2, <2>3, <2>4, <2>5 DEF Exit, TypeOK
<1>8. ASSUME NEW i \in Instances, Crash(i) PROVE TypeOK'
  <2>1. crashes' \in 0..MaxCrashes
    BY <1>0, <1>8 DEF Crash, TypeOK
  <2>2. buffer' \in [Instances -> Seq(Offsets)]
    BY <1>8 DEF Crash, TypeOK
  <2>3. holder' \in running' \union {NoOne} /\ running' \in SUBSET Instances
    BY <1>8 DEF Crash, Leave, TypeOK
  <2> QED
    BY <1>8, <2>1, <2>2, <2>3 DEF Crash, TypeOK
<1> QED
  BY <1>1, <1>2, <1>3, <1>4, <1>5, <1>6, <1>7, <1>8 DEF Next

\* The topics, the group and its processes keep their types.
THEOREM ResolverTypeCorrect == Spec => []TypeOK
BY InitType, StepType, PTL DEF Spec

---------------------------------------------------------------------------
(* Nothing is skipped.                                                     *)

\* Inductive: a group that reads from the beginning has fetched whatever lies
\* below the holder's position, and so below what the holder may commit, which
\* is where the next holder goes on.
FetchedSoFar ==
  /\ joinedAt \in {NoOffset, 0}
  /\ \A i \in Instances : holder = i =>
       joinedAt # NoOffset /\ (joinedAt + 1)..position[i] \subseteq fetched
  /\ committed # NoOffset =>
       joinedAt # NoOffset /\ (joinedAt + 1)..committed \subseteq fetched

LEMMA FetchedStep ==
  ASSUME TypeOK, FromBeginning, FetchedSoFar, [Next]_vars
  PROVE  FetchedSoFar'
<1>0. /\ Len(topic) \in Nat /\ NoOne \notin Instances
      /\ \A i \in Instances : position[i] \in 0..Len(topic)
      /\ committed \in {NoOffset} \union 0..Len(topic)
  BY ResolverAssumption DEF TypeOK
<1> USE DEF broker, counters, history
<1>1. CASE UNCHANGED vars
  BY <1>1 DEF vars, FetchedSoFar
<1>2. ASSUME NEW e \in Events, Publish(e) PROVE FetchedSoFar'
  BY <1>2 DEF Publish, FetchedSoFar
<1>3. ASSUME NEW i \in Instances, Assign(i) PROVE FetchedSoFar'
  <2>1. ResumeAt = IF committed = NoOffset THEN 0 ELSE committed
    BY DEF ResumeAt, ResetOffset
  <2>2. /\ position'[i] = ResumeAt /\ holder' = i /\ UNCHANGED <<committed, fetched>>
        /\ joinedAt' = IF joinedAt = NoOffset THEN position'[i] ELSE joinedAt
    BY <1>3 DEF Assign, TypeOK
  <2>3. joinedAt' = 0
    BY <2>1, <2>2 DEF FetchedSoFar, NoOffset
  <2>4. (joinedAt' + 1)..position'[i] \subseteq fetched'
    <3>1. CASE committed = NoOffset
      BY <2>1, <2>2, <2>3, <3>1
    <3>2. CASE committed # NoOffset
      BY <2>1, <2>2, <2>3, <3>2 DEF FetchedSoFar
    <3> QED
      BY <3>1, <3>2
  <2>5. committed' # NoOffset => (joinedAt' + 1)..committed' \subseteq fetched'
    BY <2>2, <2>3 DEF FetchedSoFar
  <2> QED
    BY <2>2, <2>3, <2>4, <2>5 DEF FetchedSoFar, NoOffset
<1>4. ASSUME NEW i \in Instances, Deliver(i) \/ GiveUp(i) \/ Start(i) PROVE FetchedSoFar'
  BY <1>4 DEF Deliver, GiveUp, Start, FetchedSoFar
<1>5. ASSUME NEW i \in Instances, Consume(i) PROVE FetchedSoFar'
  <2> DEFINE k == position[i] + 1
  <2>1. /\ position' = [position EXCEPT ![i] = k] /\ fetched' = fetched \union {k}
        /\ committed' \in {committed, k} /\ holder = i /\ UNCHANGED <<holder, joinedAt>>
    BY <1>5, ConsumeFacts
  <2>2. position'[i] = k /\ k \in Nat
    BY <1>0, <2>1 DEF TypeOK
  <2>3. joinedAt = 0 /\ (joinedAt + 1)..position[i] \subseteq fetched
    BY <2>1 DEF FetchedSoFar
  <2>4. (joinedAt + 1)..k \subseteq fetched'
    <3> SUFFICES ASSUME NEW n \in (joinedAt + 1)..k, n # k PROVE n \in fetched
      BY <2>1
    <3> QED
      BY <1>0, <2>3
  <2> HIDE DEF k
  <2>5. fetched \subseteq fetched'
    BY <2>1
  <2> QED
    BY <1>0, <2>1, <2>2, <2>3, <2>4, <2>5 DEF FetchedSoFar
<1>6. ASSUME NEW i \in Instances, Exit(i) PROVE FetchedSoFar'
  <2>1. /\ UNCHANGED <<position, joinedAt, fetched>>
        /\ committed' = committed \/ (holder = i /\ committed' = position[i])
        /\ holder' \in {holder, NoOne}
    BY <1>6 DEF Exit, Leave
  <2> QED
    BY <1>0, <2>1 DEF FetchedSoFar
<1>7. ASSUME NEW i \in Instances, Crash(i) PROVE FetchedSoFar'
  <2>1. UNCHANGED <<position, joinedAt, fetched, committed>> /\ holder' \in {holder, NoOne}
    BY <1>7 DEF Crash, Leave
  <2> QED
    BY <1>0, <2>1 DEF FetchedSoFar
<1> QED
  BY <1>1, <1>2, <1>3, <1>4, <1>5, <1>6, <1>7 DEF Next

\* A crash can make a group that reads from the beginning read a batch again;
\* nothing makes it leave one out, neither rebalances nor lost commits.
THEOREM NothingIsSkipped == Spec => []NothingSkipped
<1>1. Init => FetchedSoFar
  BY ResolverAssumption DEF Init, FetchedSoFar
<1>2. TypeOK /\ (FromBeginning => FetchedSoFar) /\ [Next]_vars => (FromBeginning => FetchedSoFar)'
  BY FetchedStep
<1>3. TypeOK /\ (FromBeginning => FetchedSoFar) => NothingSkipped
  BY DEF NothingSkipped, FetchedSoFar, TypeOK
<1> QED
  BY ResolverTypeCorrect, <1>1, <1>2, <1>3, PTL DEF Spec

---------------------------------------------------------------------------
(* What is committed is announced.                                         *)

LEMMA RangeAppend ==
  ASSUME NEW S, NEW s \in Seq(S), NEW x \in S
  PROVE  Range(Append(s, x)) = Range(s) \union {x}
<1> DEFINE t == Append(s, x)
<1>1. /\ t \in Seq(S) /\ Len(t) = Len(s) + 1 /\ t[Len(s) + 1] = x
      /\ \A i \in 1..Len(s) : t[i] = s[i]
  BY AppendProperties
<1>2. DOMAIN t = 1..(Len(s) + 1) /\ DOMAIN s = 1..Len(s) /\ Len(s) \in Nat
  BY <1>1
<1> HIDE DEF t
<1>3. ASSUME NEW i \in DOMAIN t PROVE i \in DOMAIN s \/ i = Len(s) + 1
  BY <1>2
<1>4. Range(t) \subseteq Range(s) \union {x}
  BY <1>1, <1>2, <1>3 DEF Range
<1>5. Range(s) \subseteq Range(t)
  BY <1>1, <1>2 DEF Range
<1>6. x \in Range(t)
  BY <1>1, <1>2 DEF Range
<1> QED
  BY <1>4, <1>5, <1>6 DEF t

LEMMA RangeHeadTail ==
  ASSUME NEW S, NEW s \in Seq(S), s # <<>>
  PROVE  Range(s) \subseteq {Head(s)} \union Range(Tail(s))
<1>1. /\ Tail(s) \in Seq(S) /\ Len(Tail(s)) = Len(s) - 1
      /\ \A i \in 1..Len(Tail(s)) : Tail(s)[i] = s[i + 1]
  BY HeadTailProperties
<1>2. Head(s) = s[1] /\ DOMAIN s = 1..Len(s) /\ Len(s) \in Nat
  OBVIOUS
<1>3. DOMAIN Tail(s) = 1..Len(Tail(s))
  BY <1>1
<1>4. ASSUME NEW i \in DOMAIN s, i # 1 PROVE s[i] \in Range(Tail(s))
  <2>1. i - 1 \in 1..Len(Tail(s))
    BY <1>1, <1>2, <1>4
  <2>2. Tail(s)[i - 1] = s[i]
    BY <1>1, <1>2, <2>1
  <2> QED
    BY <1>3, <2>1, <2>2 DEF Range
<1> QED
  BY <1>2, <1>4 DEF Range

LEMMA AnnouncedElements ==
  \A x : x \in Announced <=> x \in Range(arrivals) \/ \E i \in Instances : x \in Range(buffer[i])
BY DEF Announced, Buffered

\* What is announced stays so, while nothing is lost.
LEMMA AnnouncedStays ==
  ASSUME TypeOK, [Next]_vars, crashes' = 0, lost' = 0
  PROVE  Announced \subseteq Announced' /\ crashes = 0 /\ lost = 0
<1>0. /\ \A i \in Instances : buffer[i] \in Seq(Offsets) /\ Len(buffer[i]) \in Nat
      /\ arrivals \in Seq(Offsets) /\ crashes \in Nat /\ lost \in Nat
      /\ buffer \in [Instances -> Seq(Offsets)]
  BY DEF TypeOK
<1> USE DEF broker, counters, history
\* Each process keeps what it has, or delivers it.
<1>1. SUFFICES /\ Range(arrivals) \subseteq Range(arrivals')
               /\ \A j \in Instances : Range(buffer[j]) \subseteq Range(buffer'[j]) \union Range(arrivals')
               /\ crashes = 0 /\ lost = 0
  <2>1. \A x : x \in Announced' <=> x \in Range(arrivals') \/ \E i \in Instances : x \in Range(buffer'[i])
    BY DEF Announced, Buffered
  <2> QED
    BY <1>1, <2>1, AnnouncedElements
<1>2. CASE UNCHANGED <<arrivals, buffer, crashes, lost>>
  BY <1>2
<1>3. ASSUME NEW i \in Instances, Deliver(i)
      PROVE  /\ Range(arrivals) \subseteq Range(arrivals')
             /\ \A j \in Instances : Range(buffer[j]) \subseteq Range(buffer'[j]) \union Range(arrivals')
             /\ crashes = 0 /\ lost = 0
  <2>1. /\ buffer[i] # <<>> /\ arrivals' = Append(arrivals, Head(buffer[i]))
        /\ buffer' = [buffer EXCEPT ![i] = Tail(buffer[i])]
        /\ UNCHANGED <<crashes, lost>>
    BY <1>3 DEF Deliver
  <2>2. Head(buffer[i]) \in Offsets
    BY <1>0, <2>1, HeadTailProperties
  <2>3. Range(arrivals') = Range(arrivals) \union {Head(buffer[i])}
    BY <1>0, <2>1, <2>2, RangeAppend
  <2>4. Range(buffer[i]) \subseteq {Head(buffer[i])} \union Range(buffer'[i])
    BY <1>0, <2>1, RangeHeadTail
  <2> QED
    BY <1>0, <2>1, <2>3, <2>4
<1>4. ASSUME NEW i \in Instances, GiveUp(i) \/ Crash(i)
      PROVE  FALSE
  BY <1>0, <1>4 DEF GiveUp, Crash
<1>5. ASSUME NEW i \in Instances, Consume(i)
      PROVE  /\ Range(arrivals) \subseteq Range(arrivals')
             /\ \A j \in Instances : Range(buffer[j]) \subseteq Range(buffer'[j]) \union Range(arrivals')
             /\ crashes = 0 /\ lost = 0
  <2> DEFINE k == position[i] + 1
  <2>1. k \in Offsets /\ UNCHANGED <<arrivals, crashes, lost>>
        /\ (buffer' = [buffer EXCEPT ![i] = Append(buffer[i], k)] \/ UNCHANGED buffer)
    BY <1>5, ConsumeFacts
  <2>2. Range(Append(buffer[i], k)) = Range(buffer[i]) \union {k}
    BY <1>0, <2>1, RangeAppend
  <2> HIDE DEF k
  <2> QED
    BY <1>0, <2>1, <2>2
<1>6. ASSUME NEW i \in Instances, Exit(i)
      PROVE  /\ Range(arrivals) \subseteq Range(arrivals')
             /\ \A j \in Instances : Range(buffer[j]) \subseteq Range(buffer'[j]) \union Range(arrivals')
             /\ crashes = 0 /\ lost = 0
  <2>1. /\ lost' = lost + Len(buffer[i]) /\ buffer' = [buffer EXCEPT ![i] = <<>>]
        /\ UNCHANGED <<arrivals, crashes>>
    BY <1>6 DEF Exit
  <2>2. Len(buffer[i]) = 0 /\ lost = 0
    BY <1>0, <2>1
  <2>3. buffer[i] = <<>>
    BY <1>0, <2>2
  <2> QED
    BY <1>0, <2>1, <2>2, <2>3
<1>7. ASSUME NEW i \in Instances, Assign(i) \/ Start(i)
      PROVE  UNCHANGED <<arrivals, buffer, crashes, lost>>
  BY <1>7 DEF Assign, Start
<1>8. ASSUME NEW e \in Events, Publish(e)
      PROVE  UNCHANGED <<arrivals, buffer, crashes, lost>>
  BY <1>8 DEF Publish
<1>9. CASE UNCHANGED vars
  BY <1>2, <1>9 DEF vars
<1> QED
  BY <1>2, <1>3, <1>4, <1>5, <1>6, <1>7, <1>8, <1>9 DEF Next

\* The first sightings of the first n events are announced.
AnnouncedSoFar(n) == \A k \in 1..n : FirstSighting(k) => k \in Announced

\* Inductive, while nothing is lost: this holds of what is committed and of what
\* the holder has fetched, and whoever remembers a stop, holder or not, alive or
\* not, has seen it, and its first sighting is announced, if by somebody else.
\* So a holder that comes back with an old memory keeps silent with reason.
AnnouncedInv ==
  /\ AnnouncedSoFar(committed)
  /\ \A i \in Instances : holder = i => AnnouncedSoFar(position[i])
  /\ \A i \in Instances : \A s \in emitted[i] :
       /\ \E k \in 1..Len(topic) : topic[k] = s
       /\ \A k \in 1..Len(topic) : (topic[k] = s /\ FirstSighting(k)) => k \in Announced

\* First sightings do not change as the topic grows.
LEMMA TopicStep ==
  ASSUME TypeOK, [Next]_vars
  PROVE  /\ Len(topic) \in Nat /\ Len(topic') \in Nat /\ Len(topic) <= Len(topic')
         /\ \A k \in 1..Len(topic) : topic'[k] = topic[k] /\ FirstSighting(k)' = FirstSighting(k)
<1>1. topic \in Seq(Events) /\ Len(topic) \in Nat
  BY DEF TypeOK
<1>2. CASE UNCHANGED topic
  BY <1>1, <1>2 DEF FirstSighting
<1>3. ASSUME NEW e \in Events, Publish(e)
      PROVE  /\ Len(topic') = Len(topic) + 1
             /\ \A k \in 1..Len(topic) : topic'[k] = topic[k]
  BY <1>1, <1>3, AppendProperties DEF Publish
<1>4. CASE \E e \in Events : Publish(e)
  <2>1. Len(topic') = Len(topic) + 1 /\ \A k \in 1..Len(topic) : topic'[k] = topic[k]
    BY <1>3, <1>4
  <2>2. ASSUME NEW k \in 1..Len(topic) PROVE FirstSighting(k)' = FirstSighting(k)
    <3>1. \A j \in 1..(k - 1) : j \in 1..Len(topic)
      BY <1>1
    <3> QED
      BY <2>1, <3>1 DEF FirstSighting
  <2> QED
    BY <1>1, <2>1, <2>2
<1>5. CASE ~(\E e \in Events : Publish(e))
  BY <1>2, <1>5 DEF Next, vars, broker, Assign, Deliver, GiveUp, Start, Consume, Exit, Crash
<1> QED
  BY <1>4, <1>5

\* What has been announced of n events stays announced.
LEMMA SoFarStays ==
  ASSUME TypeOK, [Next]_vars, crashes' = 0, lost' = 0
  PROVE  \A n \in {NoOffset} \union 0..Len(topic) :
           AnnouncedSoFar(n) => \A k \in 1..n : FirstSighting(k)' => k \in Announced'
<1>1. \A n \in {NoOffset} \union 0..Len(topic) : \A k \in 1..n : k \in 1..Len(topic)
  BY TopicStep DEF NoOffset
<1> QED
  BY <1>1, TopicStep, AnnouncedStays DEF AnnouncedSoFar

\* A memory stays true, whatever is published.
LEMMA MemoryStays ==
  ASSUME TypeOK, [Next]_vars, crashes' = 0, lost' = 0, NEW s \in Stops,
         \E k \in 1..Len(topic) : topic[k] = s,
         \A k \in 1..Len(topic) : (topic[k] = s /\ FirstSighting(k)) => k \in Announced
  PROVE  /\ \E k \in 1..Len(topic') : topic'[k] = s
         /\ \A k \in 1..Len(topic') : (topic'[k] = s /\ FirstSighting(k)') => k \in Announced'
<1>1. PICK n \in 1..Len(topic) : topic[n] = s
  OBVIOUS
<1>2. n \in 1..Len(topic') /\ topic'[n] = s
  BY <1>1, TopicStep
<1>3. ASSUME NEW k \in 1..Len(topic'), topic'[k] = s, FirstSighting(k)'
      PROVE  k \in Announced'
  <2>1. CASE k \in 1..Len(topic)
    BY <1>3, <2>1, TopicStep, AnnouncedStays
  <2>2. CASE k \notin 1..Len(topic)
    <3>1. n \in 1..(k - 1)
      BY <1>1, <1>3, <2>2, TopicStep
    <3> QED
      BY <1>2, <1>3, <3>1 DEF FirstSighting
  <2> QED
    BY <2>1, <2>2
<1> QED
  BY <1>2, <1>3

LEMMA AnnouncedStep ==
  ASSUME TypeOK, FromBeginning, AnnouncedInv, [Next]_vars, crashes' = 0, lost' = 0
  PROVE  AnnouncedInv'
<1> DEFINE SoFar(n) == \A k \in 1..n : FirstSighting(k)' => k \in Announced'
           Known(s) == /\ \E k \in 1..Len(topic') : topic'[k] = s
                       /\ \A k \in 1..Len(topic') :
                            (topic'[k] = s /\ FirstSighting(k)') => k \in Announced'
<1>0. /\ Len(topic) \in Nat /\ NoOne \notin Instances
      /\ \A i \in Instances : position[i] \in 0..Len(topic) /\ emitted[i] \subseteq Stops
      /\ committed \in {NoOffset} \union 0..Len(topic)
      /\ position \in [Instances -> 0..Len(topic)] /\ emitted \in [Instances -> SUBSET Stops]
      /\ buffer \in [Instances -> Seq(Offsets)]
  BY ResolverAssumption DEF TypeOK
<1>1. SoFar(committed)
  BY <1>0, SoFarStays DEF AnnouncedInv
<1>2. ASSUME NEW i \in Instances, holder = i PROVE SoFar(position[i])
  <2>1. AnnouncedSoFar(position[i])
    BY <1>2 DEF AnnouncedInv
  <2> QED
    BY <1>0, <2>1, SoFarStays
<1>3. ASSUME NEW i \in Instances, NEW s \in emitted[i] PROVE Known(s)
  <2>1. s \in Stops
    BY <1>0
  <2> QED
    BY <2>1, MemoryStays DEF AnnouncedInv
<1> DEFINE Goal == /\ SoFar(committed')
                   /\ \A i \in Instances : holder' = i => SoFar(position'[i])
                   /\ \A i \in Instances : \A s \in emitted'[i] : Known(s)
<1>4. SUFFICES Goal
  BY <1>4 DEF AnnouncedInv, AnnouncedSoFar
<1> USE DEF broker, counters, history
<1>5. ASSUME UNCHANGED <<committed, holder, position, emitted>> PROVE Goal
  <2> HIDE DEF SoFar, Known
  <2> QED
    BY <1>1, <1>2, <1>3, <1>5
<1>6. ASSUME NEW i \in Instances, Assign(i) PROVE Goal
  <2>1. /\ position'[i] = ResumeAt /\ holder' = i /\ UNCHANGED <<committed, emitted>>
        /\ ResumeAt = IF committed = NoOffset THEN 0 ELSE committed
    BY <1>0, <1>6 DEF Assign, ResumeAt, ResetOffset
  <2>2. SoFar(0)
    OBVIOUS
  <2>3. SoFar(position'[i])
    <3> HIDE DEF SoFar
    <3> QED
      BY <1>1, <2>1, <2>2
  <2> HIDE DEF SoFar, Known
  <2> QED
    BY <1>1, <1>3, <2>1, <2>3
<1>7. ASSUME NEW i \in Instances, Start(i) PROVE Goal
  <2>1. /\ UNCHANGED <<committed, holder, position>>
        /\ \A j \in Instances : emitted'[j] \subseteq emitted[j]
    BY <1>0, <1>7 DEF Start
  <2> HIDE DEF SoFar, Known
  <2> QED
    BY <1>1, <1>2, <1>3, <2>1
<1>8. ASSUME NEW i \in Instances, Exit(i) \/ Crash(i) PROVE Goal
  <2>1. /\ UNCHANGED <<position, emitted>> /\ holder' \in {holder, NoOne}
        /\ committed' = committed \/ (holder = i /\ committed' = position[i])
    BY <1>8 DEF Exit, Crash, Leave
  <2> HIDE DEF SoFar, Known
  <2> QED
    BY <1>0, <1>1, <1>2, <1>3, <2>1
<1>9. ASSUME NEW i \in Instances, Consume(i) PROVE Goal
  \* Rigid, so that a prime leaves them alone.
  <2>3. PICK k \in Offsets : k = position[i] + 1
    BY <1>9, ConsumeFacts
  <2>4. PICK e \in Events : e = topic[k]
    BY <1>9, <2>3, ConsumeFacts
  <2>1. /\ k \in 1..Len(topic) /\ position[i] \in Nat
        /\ position' = [position EXCEPT ![i] = k]
        /\ committed' \in {committed, k} /\ holder = i /\ UNCHANGED <<topic, holder>>
    BY <1>0, <1>9, <2>3, ConsumeFacts
  <2>2. \/ /\ e \in Stops \ emitted[i]
           /\ emitted' = [emitted EXCEPT ![i] = @ \union {e}]
           /\ buffer' = [buffer EXCEPT ![i] = Append(@, k)]
        \/ /\ e \notin Stops \/ e \in emitted[i]
           /\ UNCHANGED <<emitted, buffer>>
    BY <1>9, <2>3, <2>4, ConsumeFacts
  \* The event just consumed.
  <2>5. FirstSighting(k)' => k \in Announced'
    <3>1. CASE e \in Stops \ emitted[i]
      <4>1. buffer'[i] = Append(buffer[i], k)
        BY <1>0, <2>2, <3>1
      <4>2. k \in Range(buffer'[i])
        BY <1>0, <4>1, RangeAppend
      <4> QED
        BY <4>2 DEF Announced, Buffered
    <3>2. CASE e \in emitted[i]
      BY <1>3, <2>1, <2>4, <3>2
    <3>3. CASE e \notin Stops
      BY <2>1, <2>4, <3>3 DEF FirstSighting
    <3> QED
      BY <3>1, <3>2, <3>3
  <2>6. SoFar(k)
    <3>1. SoFar(position[i])
      BY <1>2, <2>1
    <3>2. \A n \in 1..k : n = k \/ n \in 1..position[i]
      BY <2>1, <2>3
    <3> QED
      BY <2>5, <3>1, <3>2
  <2>7. Known(e)
    <3>1. ASSUME NEW n \in 1..Len(topic), topic[n] = e, FirstSighting(n)' PROVE n \in 1..k
      <4>1. ~(k \in 1..(n - 1))
        BY <2>1, <2>4, <3>1 DEF FirstSighting
      <4> QED
        BY <1>0, <2>1, <3>1, <4>1
    <3> QED
      BY <2>1, <2>4, <2>6, <3>1
  <2>8. \A j \in Instances : \A s \in emitted'[j] : s \in emitted[j] \/ s = e
    <3>1. emitted' = [emitted EXCEPT ![i] = @ \union {e}] \/ emitted' = emitted
      BY <2>2
    <3>2. emitted \in [Instances -> SUBSET Stops]
      BY <1>0
    <3>3. \A j \in Instances : emitted'[j] \subseteq emitted[j] \union {e}
      BY <3>1, <3>2
    <3> QED
      BY <3>3
  <2>9. \A j \in Instances : holder' = j => position'[j] = k
    BY <1>0, <2>1
  <2> HIDE DEF SoFar, Known
  <2> QED
    BY <1>1, <1>3, <2>1, <2>6, <2>7, <2>8, <2>9
<1>10. ASSUME NEW i \in Instances, Deliver(i) \/ GiveUp(i) PROVE Goal
  BY <1>5, <1>10 DEF Deliver, GiveUp
<1>11. ASSUME NEW x \in Events, Publish(x) PROVE Goal
  BY <1>5, <1>11 DEF Publish
<1>12. CASE UNCHANGED vars
  BY <1>5, <1>12 DEF vars
<1> HIDE DEF Goal
<1>13. CASE \E i \in Instances : \/ Assign(i) \/ Deliver(i) \/ GiveUp(i)
                                 \/ Start(i) \/ Consume(i) \/ Exit(i) \/ Crash(i)
  BY <1>6, <1>7, <1>8, <1>9, <1>10, <1>13
<1> QED
  BY <1>11, <1>12, <1>13 DEF Next

\* In a group that reads from the beginning the committed offset runs ahead of
\* no arrival, whatever moves, exits, comes back or commits in vain, as long as
\* nobody crashes and no delivery is given up.
THEOREM CommittedHolds == Spec => []CommittedIsAnnouncedWithoutLoss
<1> DEFINE Lossless == FromBeginning /\ crashes = 0 /\ lost = 0
           Inv == Lossless => AnnouncedInv
<1>1. Init => Inv
  BY ResolverAssumption DEF Init, AnnouncedInv, AnnouncedSoFar, NoOffset
<1>2. TypeOK /\ Inv /\ [Next]_vars => Inv'
  <2> SUFFICES ASSUME TypeOK, Inv, [Next]_vars, Lossless' PROVE AnnouncedInv'
    OBVIOUS
  <2>1. FromBeginning /\ crashes' = 0 /\ lost' = 0
    OBVIOUS
  <2>2. crashes = 0 /\ lost = 0
    BY <2>1, AnnouncedStays
  <2> QED
    BY <2>1, <2>2, AnnouncedStep
<1>3. Inv => CommittedIsAnnouncedWithoutLoss
  BY DEF AnnouncedInv, AnnouncedSoFar, CommittedIsAnnouncedWithoutLoss, CommittedIsAnnounced
<1> QED
  BY ResolverTypeCorrect, <1>1, <1>2, <1>3, PTL DEF Spec

---------------------------------------------------------------------------
(* Every arrival is announced at most once per process started.            *)

\* A finite set that grows by at most one element grows by at most one.
LEMMA AtMostOneMore ==
  ASSUME NEW S, NEW T, NEW x, IsFiniteSet(S), T \subseteq S \union {x}
  PROVE  /\ IsFiniteSet(T) /\ Cardinality(T) \in Nat /\ Cardinality(S) \in Nat
         /\ Cardinality(T) <= Cardinality(S) + 1
<1>1. IsFiniteSet(S \union {x}) /\ Cardinality(S \union {x}) <= Cardinality(S) + 1
  <2>1. Cardinality(S) \in Nat
    BY FS_CardinalityType
  <2> QED
    BY <2>1, FS_AddElement
<1>2. IsFiniteSet(T) /\ Cardinality(T) <= Cardinality(S \union {x})
  BY <1>1, FS_Subset
<1>3. Cardinality(T) \in Nat /\ Cardinality(S) \in Nat /\ Cardinality(S \union {x}) \in Nat
  BY <1>1, <1>2, FS_CardinalityType
<1> QED
  BY <1>1, <1>2, <1>3

LEMMA AtMostAsMany ==
  ASSUME NEW S, NEW T, IsFiniteSet(S), T \subseteq S
  PROVE  /\ IsFiniteSet(T) /\ Cardinality(T) \in Nat /\ Cardinality(S) \in Nat
         /\ Cardinality(T) <= Cardinality(S)
BY FS_Subset, FS_CardinalityType

LEMMA OneLess ==
  ASSUME NEW S, NEW T, NEW x \in S, IsFiniteSet(S), T \subseteq S \ {x}
  PROVE  /\ IsFiniteSet(T) /\ Cardinality(T) \in Nat /\ Cardinality(S) \in Nat
         /\ Cardinality(T) + 1 <= Cardinality(S)
<1>1. IsFiniteSet(S \ {x}) /\ Cardinality(S \ {x}) = Cardinality(S) - 1
  BY FS_RemoveElement
<1>2. Cardinality(T) <= Cardinality(S \ {x}) /\ IsFiniteSet(T)
  BY <1>1, FS_Subset
<1>3. Cardinality(S) \in Nat /\ Cardinality(T) \in Nat
  BY <1>2, FS_CardinalityType
<1> QED
  BY <1>1, <1>2, <1>3

\* The processes that may still announce a stop.
Silent(s) == {i \in running : s \notin emitted[i]}

\* Inductive: whoever is started may announce a stop once, and whoever does has
\* used that up; the buffer of a process does not outlive it.
OccurrenceInv ==
  /\ IsFiniteSet(running)
  /\ \A i \in Instances : buffer[i] # <<>> => i \in running
  /\ \A n \in DOMAIN arrivals : arrivals[n] \in 1..Len(topic)
  /\ \A i \in Instances : \A n \in DOMAIN buffer[i] : buffer[i][n] \in 1..Len(topic)
  /\ \A s \in Stops : IsFiniteSet(Waiting(s))
  /\ \A s \in Stops : ArrivalsOf(s) + Cardinality(Silent(s)) <= lives

LEMMA Countable ==
  ASSUME TypeOK, OccurrenceInv, NEW s \in Stops
  PROVE  /\ IsFiniteSet(Delivered(s)) /\ Cardinality(Delivered(s)) \in Nat
         /\ IsFiniteSet(Waiting(s)) /\ Cardinality(Waiting(s)) \in Nat
         /\ IsFiniteSet(Silent(s)) /\ Cardinality(Silent(s)) \in Nat
         /\ lives \in Nat
<1>1. IsFiniteSet(Delivered(s))
  <2>1. DOMAIN arrivals = 1..Len(arrivals) /\ Len(arrivals) \in Nat
    BY LenProperties DEF TypeOK
  <2>2. IsFiniteSet(1..Len(arrivals))
    BY <2>1, FS_Interval
  <2> QED
    BY <2>1, <2>2, FS_Subset DEF Delivered
<1>2. IsFiniteSet(Silent(s))
  BY FS_Subset DEF Silent, OccurrenceInv
<1>3. lives \in Nat
  BY ResolverAssumption DEF TypeOK
<1> QED
  BY <1>1, <1>2, <1>3, FS_CardinalityType DEF OccurrenceInv

LEMMA WaitingElements ==
  \A s, i, n : <<i, n>> \in Waiting(s) <=>
    i \in Instances /\ n \in DOMAIN buffer[i] /\ topic[buffer[i][n]] = s
BY DEF Waiting

LEMMA WaitingPairs ==
  \A s : \A x \in Waiting(s) : x = <<x[1], x[2]>>
BY DEF Waiting

\* The head of a buffer leaves it.
LEMMA WaitingShift ==
  ASSUME TypeOK, OccurrenceInv, NEW i \in Instances, buffer[i] # <<>>,
         buffer' = [buffer EXCEPT ![i] = Tail(buffer[i])], topic' = topic, NEW s \in Stops
  PROVE  /\ IsFiniteSet(Waiting(s)') /\ Cardinality(Waiting(s)') \in Nat
         /\ Cardinality(Waiting(s)') <= Cardinality(Waiting(s))
         /\ topic[Head(buffer[i])] = s => Cardinality(Waiting(s)') + 1 <= Cardinality(Waiting(s))
<1> DEFINE b == buffer[i]
           Rest == IF topic[Head(b)] = s THEN Waiting(s) \ {<<i, 1>>} ELSE Waiting(s)
           g(x) == IF x[1] = i THEN x[2] + 1 ELSE x[2]
           f == [x \in Waiting(s)' |-> <<x[1], g(x)>>]
<1>1. /\ b \in Seq(Offsets) /\ Len(b) \in Nat /\ DOMAIN b = 1..Len(b) /\ Len(b) > 0
      /\ Head(b) = b[1]
      /\ DOMAIN Tail(b) = 1..(Len(b) - 1)
      /\ \A n \in 1..(Len(b) - 1) : Tail(b)[n] = b[n + 1]
  <2>1. b \in Seq(Offsets) /\ b # <<>>
    BY DEF TypeOK
  <2> HIDE DEF b
  <2> QED
    BY <2>1, HeadTailProperties, LenProperties, EmptySeq
<1>2. /\ \A j \in Instances : buffer'[j] = IF j = i THEN Tail(b) ELSE buffer[j]
  BY DEF TypeOK
<1> HIDE DEF b
<1>3. \A j, n : <<j, n>> \in Waiting(s)' <=>
        j \in Instances /\ n \in DOMAIN buffer'[j] /\ topic[buffer'[j][n]] = s
  BY DEF Waiting
<1>4. \A x \in Waiting(s)' : x = <<x[1], x[2]>>
  BY DEF Waiting
<1>5. ASSUME NEW x \in Waiting(s)'
      PROVE  <<x[1], g(x)>> \in Rest /\ (x[1] = i => x[2] \in Nat)
  <2> HIDE DEF f
  <2>1. x = <<x[1], x[2]>>
    BY <1>4
  <2>2. x[1] \in Instances /\ x[2] \in DOMAIN buffer'[x[1]] /\ topic[buffer'[x[1]][x[2]]] = s
    BY <2>1, <1>3
  <2>3. CASE x[1] = i
    <3>1. x[2] \in 1..(Len(b) - 1) /\ topic[b[x[2] + 1]] = s
      BY <1>1, <1>2, <2>2, <2>3
    <3>2. x[2] \in Nat /\ x[2] + 1 \in DOMAIN b /\ x[2] + 1 # 1
      BY <1>1, <3>1
    <3>3. <<i, x[2] + 1>> \in Waiting(s)
      BY <3>1, <3>2, WaitingElements DEF b
    <3>4. <<i, x[2] + 1>> # <<i, 1>>
      BY <3>2
    <3> QED
      BY <2>3, <3>2, <3>3, <3>4
  <2>4. CASE x[1] # i
    <3>1. <<x[1], x[2]>> \in Waiting(s)
      <4>1. buffer'[x[1]] = buffer[x[1]]
        BY <1>2, <2>2, <2>4
      <4> QED
        BY <4>1, <2>2, WaitingElements
    <3>2. x # <<i, 1>>
      BY <2>4
    <3> QED
      BY <2>1, <2>4, <3>1, <3>2
  <2> QED
    BY <2>3, <2>4
<1>6. f \in [Waiting(s)' -> Rest]
  BY <1>5
<1>7. ASSUME NEW x \in Waiting(s)', NEW y \in Waiting(s)', f[x] = f[y] PROVE x = y
  <2>1. <<x[1], g(x)>> = <<y[1], g(y)>>
    BY <1>7
  <2>2. x[1] = y[1] /\ g(x) = g(y)
    BY <2>1
  <2>3. x[2] = y[2]
    <3>1. CASE x[1] = i
      <4>1. x[2] \in Nat /\ y[2] \in Nat
        BY <1>5, <2>2, <3>1
      <4>2. x[2] + 1 = y[2] + 1
        BY <2>2, <3>1
      <4> QED
        BY <4>1, <4>2
    <3>2. CASE x[1] # i
      BY <2>2, <3>2
    <3> QED
      BY <3>1, <3>2
  <2> QED
    BY <1>4, <2>2, <2>3
<1>8. f \in Injection(Waiting(s)', Rest)
  BY <1>6, <1>7 DEF Injection, IsInjective
<1>9. IsFiniteSet(Waiting(s)) /\ Cardinality(Waiting(s)) \in Nat
  BY Countable
<1>10. /\ IsFiniteSet(Rest)
       /\ Cardinality(Rest) = IF topic[Head(b)] = s THEN Cardinality(Waiting(s)) - 1 ELSE Cardinality(Waiting(s))
  <2>1. topic[Head(b)] = s => <<i, 1>> \in Waiting(s)
    BY <1>1, WaitingElements DEF b
  <2> QED
    BY <1>9, <2>1, FS_RemoveElement
<1> HIDE DEF Rest
<1>11. IsFiniteSet(Waiting(s)') /\ Cardinality(Waiting(s)') <= Cardinality(Rest)
  BY <1>8, <1>10, FS_Injection
<1>12. Cardinality(Waiting(s)') \in Nat
  BY <1>11, FS_CardinalityType
<1> QED
  BY <1>9, <1>10, <1>11, <1>12 DEF b

\* Nothing is counted anew when the partition only grows.
LEMMA CountsStay ==
  ASSUME TypeOK, OccurrenceInv, NEW s \in Stops, arrivals' = arrivals, buffer' = buffer,
         \A k \in 1..Len(topic) : topic'[k] = topic[k]
  PROVE  Delivered(s)' = Delivered(s) /\ Waiting(s)' = Waiting(s)
<1>1. Delivered(s)' = Delivered(s)
  BY DEF Delivered, OccurrenceInv
<1>2. \A i \in Instances : {n \in DOMAIN buffer'[i] : topic'[buffer'[i][n]] = s}
                            = {n \in DOMAIN buffer[i] : topic[buffer[i][n]] = s}
  BY DEF OccurrenceInv
<1> QED
  BY <1>1, <1>2 DEF Waiting

\* What a process forgets is no longer waiting.
LEMMA WaitingForgotten ==
  ASSUME TypeOK, OccurrenceInv, NEW i \in Instances, topic' = topic,
         buffer' = [buffer EXCEPT ![i] = <<>>], NEW s \in Stops
  PROVE  Waiting(s)' \subseteq Waiting(s)
<1>1. \A j \in Instances : buffer'[j] = IF j = i THEN <<>> ELSE buffer[j]
  BY DEF TypeOK
<1>2. \A j, n : <<j, n>> \in Waiting(s)' =>
        j \in Instances /\ n \in DOMAIN buffer'[j] /\ topic[buffer'[j][n]] = s
  BY DEF Waiting
<1>3. \A x \in Waiting(s)' : x = <<x[1], x[2]>>
  BY DEF Waiting
<1> SUFFICES ASSUME NEW x \in Waiting(s)' PROVE x \in Waiting(s)
  OBVIOUS
<1>4. x[1] \in Instances /\ x[2] \in DOMAIN buffer'[x[1]] /\ topic[buffer'[x[1]][x[2]]] = s
  BY <1>2, <1>3
<1>5. buffer'[x[1]] = buffer[x[1]]
  <2>1. DOMAIN <<>> = {}
    OBVIOUS
  <2> QED
    BY <1>1, <1>4, <2>1
<1>6. <<x[1], x[2]>> \in Waiting(s)
  BY <1>4, <1>5, WaitingElements
<1> QED
  BY <1>3, <1>6

\* An arrival made is one more to wait, at the end of the buffer.
LEMMA WaitingMore ==
  ASSUME TypeOK, OccurrenceInv, NEW i \in Instances, topic' = topic, NEW k \in 1..Len(topic),
         buffer' = [buffer EXCEPT ![i] = Append(buffer[i], k)], NEW s \in Stops
  PROVE  /\ Waiting(s)' \subseteq Waiting(s) \union {<<i, Len(buffer[i]) + 1>>}
         /\ topic[k] # s => Waiting(s)' \subseteq Waiting(s)
<1> DEFINE b == buffer[i]
<1>1. /\ b \in Seq(Offsets) /\ Len(b) \in Nat /\ DOMAIN b = 1..Len(b)
      /\ DOMAIN Append(b, k) = 1..(Len(b) + 1)
      /\ \A n \in 1..Len(b) : Append(b, k)[n] = b[n]
      /\ Append(b, k)[Len(b) + 1] = k
  <2>1. b \in Seq(Offsets) /\ k \in Offsets
    BY ResolverAssumption DEF TypeOK, Offsets
  <2> HIDE DEF b
  <2> QED
    BY <2>1, AppendProperties, LenProperties
<1>2. \A j \in Instances : buffer'[j] = IF j = i THEN Append(b, k) ELSE buffer[j]
  BY DEF TypeOK
<1> HIDE DEF b
<1>3. \A j, n : <<j, n>> \in Waiting(s)' =>
        j \in Instances /\ n \in DOMAIN buffer'[j] /\ topic[buffer'[j][n]] = s
  BY DEF Waiting
<1>4. \A x \in Waiting(s)' : x = <<x[1], x[2]>>
  BY DEF Waiting
<1>5. ASSUME NEW x \in Waiting(s)'
      PROVE  x \in Waiting(s) \/ (x = <<i, Len(b) + 1>> /\ topic[k] = s)
  <2>1. x[1] \in Instances /\ x[2] \in DOMAIN buffer'[x[1]] /\ topic[buffer'[x[1]][x[2]]] = s
    BY <1>3, <1>4
  <2>2. CASE x[1] = i /\ x[2] = Len(b) + 1
    BY <1>1, <1>2, <1>4, <2>1, <2>2
  <2>3. CASE ~(x[1] = i /\ x[2] = Len(b) + 1)
    <3>1. x[2] \in DOMAIN buffer[x[1]] /\ topic[buffer[x[1]][x[2]]] = s
      <4>1. CASE x[1] = i
        <5>1. x[2] \in 1..Len(b) /\ topic[b[x[2]]] = s
          <6>1. x[2] \in 1..(Len(b) + 1) /\ topic[Append(b, k)[x[2]]] = s
            BY <1>1, <1>2, <2>1, <4>1
          <6>2. x[2] \in 1..Len(b)
            BY <1>1, <2>3, <4>1, <6>1
          <6> QED
            BY <1>1, <6>1, <6>2
        <5> QED
          BY <1>1, <4>1, <5>1 DEF b
      <4>2. CASE x[1] # i
        BY <1>2, <2>1, <4>2
      <4> QED
        BY <4>1, <4>2
    <3>2. <<x[1], x[2]>> \in Waiting(s)
      BY <2>1, <3>1, WaitingElements
    <3> QED
      BY <1>4, <3>2
  <2> QED
    BY <2>2, <2>3
<1> QED
  BY <1>5 DEF b

\* What a step that takes the head of i's buffer leaves of the buffers.
BufferShift(i) ==
  /\ Head(buffer[i]) \in Offsets /\ Head(buffer[i]) \in 1..Len(topic)
  /\ \A j \in Instances : buffer'[j] # <<>> => j \in running
  /\ \A j \in Instances : \A n \in DOMAIN buffer'[j] : buffer'[j][n] \in 1..Len(topic)

LEMMA BufferShifts ==
  ASSUME TypeOK, OccurrenceInv, NEW i \in Instances, buffer[i] # <<>>,
         buffer' = [buffer EXCEPT ![i] = Tail(buffer[i])]
  PROVE  BufferShift(i)
<1> DEFINE b == buffer[i]
<1>1. /\ b \in Seq(Offsets) /\ Len(b) \in Nat /\ DOMAIN b = 1..Len(b) /\ Len(b) > 0
      /\ Head(b) = b[1] /\ Head(b) \in Offsets
      /\ DOMAIN Tail(b) = 1..(Len(b) - 1)
      /\ \A n \in 1..(Len(b) - 1) : Tail(b)[n] = b[n + 1]
  <2>1. b \in Seq(Offsets) /\ b # <<>>
    BY DEF TypeOK
  <2> HIDE DEF b
  <2> QED
    BY <2>1, HeadTailProperties, LenProperties, EmptySeq
<1>2. \A j \in Instances : buffer'[j] = IF j = i THEN Tail(b) ELSE buffer[j]
  BY DEF TypeOK
<1>3. \A n \in DOMAIN b : b[n] \in 1..Len(topic)
  BY DEF OccurrenceInv
<1>4. i \in running
  BY DEF OccurrenceInv
<1> HIDE DEF b
<1>5. \A n \in DOMAIN Tail(b) : Tail(b)[n] \in 1..Len(topic)
  BY <1>1, <1>3
<1>6. Head(b) \in Offsets /\ Head(b) \in 1..Len(topic)
  BY <1>1, <1>3
<1> QED
  BY <1>2, <1>4, <1>5, <1>6 DEF OccurrenceInv, BufferShift, b

LEMMA OccurrenceInit == Init => OccurrenceInv
<1> SUFFICES ASSUME Init PROVE OccurrenceInv
  OBVIOUS
<1>1. /\ running = {} /\ \A i \in Instances : buffer[i] = <<>>
      /\ arrivals = <<>> /\ lives = 0
  BY DEF Init
<1>2. DOMAIN arrivals = {} /\ \A i \in Instances : DOMAIN buffer[i] = {}
  BY <1>1
<1>3. \A s : Waiting(s) = {} /\ Delivered(s) = {} /\ Silent(s) = {}
  BY <1>1, <1>2 DEF Waiting, Delivered, Silent
<1>4. \A s : IsFiniteSet(Waiting(s)) /\ ArrivalsOf(s) = 0 /\ Cardinality(Silent(s)) = 0
  BY <1>3, FS_EmptySet DEF ArrivalsOf
<1>5. IsFiniteSet(running)
  BY <1>1, FS_EmptySet
<1> QED
  BY <1>1, <1>2, <1>4, <1>5 DEF OccurrenceInv

\* The counting of a step: what it may add to the arrivals it takes from those
\* who may still announce, or gives to the processes started.
LEMMA Ledger ==
  ASSUME TypeOK, OccurrenceInv, lives' \in Nat, NEW s \in Stops,
         IsFiniteSet(Delivered(s)'), IsFiniteSet(Waiting(s)'), IsFiniteSet(Silent(s)'),
         Cardinality(Delivered(s)') + Cardinality(Waiting(s)') + Cardinality(Silent(s)') + lives
           <= Cardinality(Delivered(s)) + Cardinality(Waiting(s)) + Cardinality(Silent(s)) + lives'
  PROVE  ArrivalsOf(s)' + Cardinality(Silent(s)') <= lives'
<1>1. /\ Cardinality(Delivered(s)') \in Nat /\ Cardinality(Waiting(s)') \in Nat
      /\ Cardinality(Silent(s)') \in Nat
  BY FS_CardinalityType
<1>2. ArrivalsOf(s) + Cardinality(Silent(s)) <= lives
  BY DEF OccurrenceInv
<1> QED
  BY <1>1, <1>2, Countable DEF ArrivalsOf

LEMMA OccurrenceStep ==
  ASSUME TypeOK, TypeOK', OccurrenceInv, [Next]_vars
  PROVE  OccurrenceInv'
<1>1. lives \in Nat /\ lives' \in Nat
  BY ResolverAssumption DEF TypeOK
<1>2. ASSUME UNCHANGED <<arrivals, running, emitted, buffer, lives>>,
             Len(topic) \in Nat, Len(topic') \in Nat, Len(topic) <= Len(topic'),
             \A k \in 1..Len(topic) : topic'[k] = topic[k]
      PROVE  OccurrenceInv'
  <2>1. \A s \in Stops : /\ Delivered(s)' = Delivered(s) /\ Waiting(s)' = Waiting(s)
                         /\ Silent(s)' = Silent(s)
    BY <1>2, CountsStay DEF Silent
  <2>2. \A s \in Stops : ArrivalsOf(s)' = ArrivalsOf(s)
    BY <2>1 DEF ArrivalsOf
  <2>3. 1..Len(topic) \subseteq 1..Len(topic')
    BY <1>2
  <2> QED
    BY <1>2, <2>1, <2>2, <2>3 DEF OccurrenceInv
<1>3. Len(topic) \in Nat
  BY LenProperties DEF TypeOK
<1>4. ASSUME NEW e \in Events, Publish(e) PROVE OccurrenceInv'
  <2>1. /\ topic' = Append(topic, e)
        /\ UNCHANGED <<arrivals, running, emitted, buffer, lives>>
    BY <1>4 DEF Publish, counters
  <2>2. Len(topic') = Len(topic) + 1 /\ \A k \in 1..Len(topic) : topic'[k] = topic[k]
    BY <2>1, AppendProperties DEF TypeOK
  <2> QED
    BY <1>2, <1>3, <2>1, <2>2
<1>5. ASSUME NEW i \in Instances, Assign(i) PROVE OccurrenceInv'
  BY <1>2, <1>3, <1>5 DEF Assign, broker
<1>6. ASSUME NEW i \in Instances, Deliver(i) PROVE OccurrenceInv'
  <2>1. /\ buffer[i] # <<>> /\ topic' = topic /\ lives' = lives
        /\ buffer' = [buffer EXCEPT ![i] = Tail(buffer[i])]
        /\ arrivals' = Append(arrivals, Head(buffer[i]))
        /\ running' = running /\ emitted' = emitted
    BY <1>6 DEF Deliver, counters
  <2>2. BufferShift(i)
    BY <2>1, BufferShifts
  <2>3. /\ Len(arrivals) \in Nat /\ DOMAIN arrivals = 1..Len(arrivals)
        /\ DOMAIN arrivals' = 1..(Len(arrivals) + 1)
        /\ \A n \in 1..Len(arrivals) : arrivals'[n] = arrivals[n]
        /\ arrivals'[Len(arrivals) + 1] = Head(buffer[i])
    BY <2>1, <2>2, AppendProperties, LenProperties DEF TypeOK, BufferShift
  <2>4. \A n \in DOMAIN arrivals' : arrivals'[n] \in 1..Len(topic')
    BY <2>1, <2>2, <2>3 DEF OccurrenceInv, BufferShift
  <2>5. ASSUME NEW s \in Stops
        PROVE  IsFiniteSet(Waiting(s)') /\ ArrivalsOf(s)' + Cardinality(Silent(s)') <= lives'
    <3>1. Silent(s)' = Silent(s)
      BY <2>1 DEF Silent
    <3>2. /\ Delivered(s)' \subseteq Delivered(s) \union {Len(arrivals) + 1}
          /\ topic[Head(buffer[i])] # s => Delivered(s)' \subseteq Delivered(s)
      BY <2>1, <2>3 DEF Delivered
    <3>3. /\ IsFiniteSet(Waiting(s)') /\ Cardinality(Waiting(s)') \in Nat
          /\ Cardinality(Waiting(s)') <= Cardinality(Waiting(s))
          /\ topic[Head(buffer[i])] = s => Cardinality(Waiting(s)') + 1 <= Cardinality(Waiting(s))
      BY <2>1, WaitingShift
    <3>4. CASE topic[Head(buffer[i])] = s
      <4>1. /\ IsFiniteSet(Delivered(s)') /\ Cardinality(Delivered(s)') \in Nat
            /\ Cardinality(Delivered(s)') <= Cardinality(Delivered(s)) + 1
        BY <3>2, Countable, AtMostOneMore
      <4> QED
        BY <1>1, <2>1, <3>1, <3>3, <3>4, <4>1, Countable, Ledger
    <3>5. CASE topic[Head(buffer[i])] # s
      <4>1. /\ IsFiniteSet(Delivered(s)') /\ Cardinality(Delivered(s)') \in Nat
            /\ Cardinality(Delivered(s)') <= Cardinality(Delivered(s))
        BY <3>2, <3>5, Countable, AtMostAsMany
      <4> QED
        BY <1>1, <2>1, <3>1, <3>3, <4>1, Countable, Ledger
    <3> QED
      BY <3>4, <3>5
  <2> QED
    BY <2>1, <2>2, <2>4, <2>5 DEF OccurrenceInv, BufferShift
<1>7. ASSUME NEW i \in Instances, GiveUp(i) PROVE OccurrenceInv'
  <2>1. /\ buffer[i] # <<>> /\ topic' = topic /\ lives' = lives
        /\ buffer' = [buffer EXCEPT ![i] = Tail(buffer[i])]
        /\ arrivals' = arrivals /\ running' = running /\ emitted' = emitted
    BY <1>7 DEF GiveUp, broker
  <2>2. BufferShift(i)
    BY <2>1, BufferShifts
  <2>3. ASSUME NEW s \in Stops
        PROVE  IsFiniteSet(Waiting(s)') /\ ArrivalsOf(s)' + Cardinality(Silent(s)') <= lives'
    <3>1. Silent(s)' = Silent(s) /\ Delivered(s)' = Delivered(s)
      BY <2>1 DEF Silent, Delivered
    <3>2. /\ IsFiniteSet(Waiting(s)') /\ Cardinality(Waiting(s)') \in Nat
          /\ Cardinality(Waiting(s)') <= Cardinality(Waiting(s))
      BY <2>1, WaitingShift
    <3> QED
      BY <1>1, <2>1, <3>1, <3>2, Countable, Ledger
  <2> QED
    BY <2>1, <2>2, <2>3 DEF OccurrenceInv, BufferShift
<1>8. ASSUME NEW i \in Instances, Start(i) PROVE OccurrenceInv'
  <2>1. /\ lives' = lives + 1 /\ running' = running \union {i}
        /\ emitted' = [emitted EXCEPT ![i] = {}]
        /\ UNCHANGED <<topic, arrivals, buffer>>
    BY <1>8 DEF Start, broker
  <2>2. IsFiniteSet(running')
    BY <2>1, FS_AddElement DEF OccurrenceInv
  <2>3. ASSUME NEW s \in Stops
        PROVE  IsFiniteSet(Waiting(s)') /\ ArrivalsOf(s)' + Cardinality(Silent(s)') <= lives'
    <3>1. Delivered(s)' = Delivered(s) /\ Waiting(s)' = Waiting(s)
      BY <2>1, CountsStay
    <3>2. Silent(s)' \subseteq Silent(s) \union {i}
      BY <2>1 DEF Silent, TypeOK
    <3>3. /\ IsFiniteSet(Silent(s)') /\ Cardinality(Silent(s)') \in Nat
          /\ Cardinality(Silent(s)') <= Cardinality(Silent(s)) + 1
      BY <3>2, Countable, AtMostOneMore
    <3> QED
      BY <1>1, <2>1, <3>1, <3>3, Countable, Ledger
  <2> QED
    BY <2>1, <2>2, <2>3 DEF OccurrenceInv
<1>9. ASSUME NEW i \in Instances, Consume(i) PROVE OccurrenceInv'
  <2> DEFINE k == position[i] + 1
  <2>1. /\ k \in 1..Len(topic) /\ k \in Offsets
        /\ UNCHANGED <<topic, arrivals, running, lives>> /\ holder = i
        /\ \/ /\ topic[k] \in Stops \ emitted[i]
              /\ emitted' = [emitted EXCEPT ![i] = @ \union {topic[k]}]
              /\ buffer' = [buffer EXCEPT ![i] = Append(@, k)]
           \/ UNCHANGED <<emitted, buffer>>
    BY <1>9, ConsumeFacts DEF counters
  <2>2. i \in running
    BY <2>1, ResolverAssumption DEF TypeOK
  <2> HIDE DEF k
  <2>3. CASE UNCHANGED <<emitted, buffer>>
    BY <1>2, <1>3, <2>1, <2>3
  <2>4. CASE /\ topic[k] \in Stops \ emitted[i]
             /\ emitted' = [emitted EXCEPT ![i] = emitted[i] \union {topic[k]}]
             /\ buffer' = [buffer EXCEPT ![i] = Append(buffer[i], k)]
    <3>1. /\ \A j \in Instances : buffer'[j] # <<>> => j \in running'
          /\ \A j \in Instances : \A n \in DOMAIN buffer'[j] : buffer'[j][n] \in 1..Len(topic')
      <4>1. \A j \in Instances : buffer'[j] = IF j = i THEN Append(buffer[i], k) ELSE buffer[j]
        BY <2>4 DEF TypeOK
      <4>2. /\ buffer[i] \in Seq(Offsets) /\ Len(buffer[i]) \in Nat
            /\ DOMAIN buffer[i] = 1..Len(buffer[i])
        BY LenProperties DEF TypeOK
      <4>3. \A n \in DOMAIN Append(buffer[i], k) : Append(buffer[i], k)[n] \in 1..Len(topic)
        <5>1. /\ DOMAIN Append(buffer[i], k) = 1..(Len(buffer[i]) + 1)
              /\ \A n \in 1..Len(buffer[i]) : Append(buffer[i], k)[n] = buffer[i][n]
              /\ Append(buffer[i], k)[Len(buffer[i]) + 1] = k
          BY <2>1, <4>2, AppendProperties
        <5>2. \A n \in 1..Len(buffer[i]) : buffer[i][n] \in 1..Len(topic)
          BY <4>2 DEF OccurrenceInv
        <5> QED
          BY <2>1, <4>2, <5>1, <5>2
      <4> QED
        BY <2>1, <2>2, <4>1, <4>3 DEF OccurrenceInv
    <3>2. ASSUME NEW s \in Stops
          PROVE  IsFiniteSet(Waiting(s)') /\ ArrivalsOf(s)' + Cardinality(Silent(s)') <= lives'
      <4>1. Delivered(s)' = Delivered(s)
        BY <2>1 DEF Delivered
      <4>2. /\ Waiting(s)' \subseteq Waiting(s) \union {<<i, Len(buffer[i]) + 1>>}
            /\ topic[k] # s => Waiting(s)' \subseteq Waiting(s)
        BY <2>1, <2>4, WaitingMore
      <4>3. /\ Silent(s)' \subseteq Silent(s)
            /\ topic[k] = s => i \in Silent(s) /\ Silent(s)' \subseteq Silent(s) \ {i}
        BY <2>1, <2>2, <2>4 DEF Silent, TypeOK
      <4>4. CASE topic[k] = s
        <5>1. /\ IsFiniteSet(Waiting(s)') /\ Cardinality(Waiting(s)') \in Nat
              /\ Cardinality(Waiting(s)') <= Cardinality(Waiting(s)) + 1
          BY <4>2, Countable, AtMostOneMore
        <5>2. /\ IsFiniteSet(Silent(s)') /\ Cardinality(Silent(s)') \in Nat
              /\ Cardinality(Silent(s)') + 1 <= Cardinality(Silent(s))
          BY <4>3, <4>4, Countable, OneLess
        <5> QED
          BY <1>1, <2>1, <4>1, <5>1, <5>2, Countable, Ledger
      <4>5. CASE topic[k] # s
        <5>1. /\ IsFiniteSet(Waiting(s)') /\ Cardinality(Waiting(s)') \in Nat
              /\ Cardinality(Waiting(s)') <= Cardinality(Waiting(s))
          BY <4>2, <4>5, Countable, AtMostAsMany
        <5>2. /\ IsFiniteSet(Silent(s)') /\ Cardinality(Silent(s)') \in Nat
              /\ Cardinality(Silent(s)') <= Cardinality(Silent(s))
          BY <4>3, Countable, AtMostAsMany
        <5> QED
          BY <1>1, <2>1, <4>1, <5>1, <5>2, Countable, Ledger
      <4> QED
        BY <4>4, <4>5
    <3> QED
      BY <2>1, <3>1, <3>2 DEF OccurrenceInv
  <2> QED
    BY <2>1, <2>3, <2>4
<1>10. ASSUME NEW i \in Instances, Exit(i) \/ Crash(i) PROVE OccurrenceInv'
  <2>1. /\ UNCHANGED <<topic, arrivals, emitted, lives>>
        /\ running' = running \ {i}
        /\ buffer' = [buffer EXCEPT ![i] = <<>>]
    BY <1>10 DEF Exit, Crash, Leave, broker
  <2>2. IsFiniteSet(running')
    BY <2>1, AtMostAsMany DEF OccurrenceInv
  <2>3. /\ \A j \in Instances : buffer'[j] # <<>> => j \in running'
        /\ \A j \in Instances : \A n \in DOMAIN buffer'[j] : buffer'[j][n] \in 1..Len(topic')
    <3>1. \A j \in Instances : buffer'[j] = IF j = i THEN <<>> ELSE buffer[j]
      BY <2>1 DEF TypeOK
    <3> QED
      BY <2>1, <3>1 DEF OccurrenceInv
  <2>4. ASSUME NEW s \in Stops
        PROVE  IsFiniteSet(Waiting(s)') /\ ArrivalsOf(s)' + Cardinality(Silent(s)') <= lives'
    <3>1. Delivered(s)' = Delivered(s) /\ Silent(s)' \subseteq Silent(s)
      BY <2>1 DEF Delivered, Silent
    <3>2. Waiting(s)' \subseteq Waiting(s)
      BY <2>1, WaitingForgotten
    <3>3. /\ IsFiniteSet(Waiting(s)') /\ Cardinality(Waiting(s)') \in Nat
          /\ Cardinality(Waiting(s)') <= Cardinality(Waiting(s))
      BY <3>2, Countable, AtMostAsMany
    <3>4. /\ IsFiniteSet(Silent(s)') /\ Cardinality(Silent(s)') \in Nat
          /\ Cardinality(Silent(s)') <= Cardinality(Silent(s))
      BY <3>1, Countable, AtMostAsMany
    <3> QED
      BY <1>1, <2>1, <3>1, <3>3, <3>4, Countable, Ledger
  <2> QED
    BY <2>1, <2>2, <2>3, <2>4 DEF OccurrenceInv
<1>11. CASE UNCHANGED vars
  BY <1>2, <1>3, <1>11 DEF vars, broker, counters
<1> QED
  BY <1>4, <1>5, <1>6, <1>7, <1>8, <1>9, <1>10, <1>11 DEF Next

\* Every arrival is announced at most once per process started.
THEOREM OneArrivalHolds == Spec => []OneArrivalPerLife
<1>1. Init => OccurrenceInv
  BY OccurrenceInit
<1>2. TypeOK /\ OccurrenceInv /\ [Next]_vars => OccurrenceInv'
  BY OccurrenceStep, StepType
<1>3. TypeOK /\ OccurrenceInv => OneArrivalPerLife
  <2> SUFFICES ASSUME TypeOK, OccurrenceInv, NEW s \in Stops PROVE ArrivalsOf(s) <= lives
    BY DEF OneArrivalPerLife
  <2> QED
    BY Countable DEF OccurrenceInv, ArrivalsOf
<1> QED
  BY <1>1, <1>2, <1>3, ResolverTypeCorrect, PTL DEF Spec

---------------------------------------------------------------------------
(* The aggregator keeps what it read as sets, and joins them.              *)

LEMMA AggInitType == AggInit => AggTypeOK
<1> SUFFICES ASSUME AggInit PROVE AggTypeOK
  OBVIOUS
<1>1. /\ updates = <<>> /\ aggPhase = "off" /\ readUpdates = 0 /\ readArrivals = 0
      /\ predictions = [s \in Stops |-> {}] /\ sightings = <<>>
      /\ collapsed = 0 /\ dropped = 0 /\ pairs = {} /\ arrivals = <<>>
  BY DEF AggInit, Init
<1>2. /\ updates \in Seq(Updates) /\ Len(updates) = 0 /\ Len(arrivals) = 0
      /\ sightings \in Seq(AgencyStops \X Nat)
  BY <1>1
<1> QED
  BY <1>1, <1>2, AggregatorAssumption DEF AggTypeOK

\* Times and leads are integers.
LEMMA UpdateType ==
  ASSUME NEW u \in Updates
  PROVE  /\ u.stop \in Stops \union {NoStop} /\ u.issued \in Nat /\ u.header \in Nat
         /\ u.predicted \in Nat /\ IssuedAt(u) \in Nat /\ {IssuedAt(u), u.predicted} \subseteq Times
BY AggregatorAssumption DEF IssuedAt, Times

LEMMA TimesAreNat == Times \subseteq Nat
BY AggregatorAssumption DEF Times

\* A step of the resolver only appends to what the aggregator reads.
LEMMA SourcesGrow ==
  ASSUME TypeOK, OccurrenceInv, [Next]_vars
  PROVE  /\ Len(topic) \in Nat /\ Len(topic') \in Nat /\ Len(topic) <= Len(topic')
         /\ \A k \in 1..Len(topic) : topic'[k] = topic[k]
         /\ Len(arrivals) \in Nat /\ Len(arrivals') \in Nat /\ Len(arrivals) <= Len(arrivals')
         /\ \A k \in 1..Len(arrivals) : arrivals'[k] = arrivals[k]
<1>1. Len(topic) \in Nat /\ Len(arrivals) \in Nat
  BY LenProperties DEF TypeOK
<1>2. ASSUME NEW e \in Events, Publish(e) PROVE topic' = Append(topic, e) /\ arrivals' = arrivals
  BY <1>2 DEF Publish
<1>3. ASSUME NEW i \in Instances, Deliver(i)
      PROVE  \E a \in Offsets : topic' = topic /\ arrivals' = Append(arrivals, a)
  <2>1. buffer[i] # <<>> /\ topic' = topic /\ arrivals' = Append(arrivals, Head(buffer[i]))
    BY <1>3 DEF Deliver
  <2>2. Head(buffer[i]) \in Offsets
    BY <2>1, HeadTailProperties DEF TypeOK
  <2> QED
    BY <2>1, <2>2
<1>4. ASSUME NEW i \in Instances,
             Assign(i) \/ GiveUp(i) \/ Start(i) \/ Consume(i) \/ Exit(i) \/ Crash(i)
      PROVE  topic' = topic /\ arrivals' = arrivals
  BY <1>4 DEF Assign, GiveUp, Start, Consume, Exit, Crash, broker
<1>5. \/ topic' = topic /\ arrivals' = arrivals
      \/ \E e \in Events : topic' = Append(topic, e) /\ arrivals' = arrivals
      \/ \E a \in Offsets : topic' = topic /\ arrivals' = Append(arrivals, a)
  BY <1>2, <1>3, <1>4 DEF Next, vars, broker
<1>6. \A S, q, e : q \in Seq(S) /\ e \in S =>
        Len(Append(q, e)) = Len(q) + 1 /\ \A k \in 1..Len(q) : Append(q, e)[k] = q[k]
  BY AppendProperties
<1>7. topic \in Seq(Events) /\ arrivals \in Seq(Offsets)
  BY DEF TypeOK
<1>8. /\ Len(topic') \in Nat /\ Len(topic) <= Len(topic')
      /\ \A k \in 1..Len(topic) : topic'[k] = topic[k]
  <2>1. CASE topic' = topic
    BY <2>1, <1>1
  <2>2. ASSUME NEW e \in Events, topic' = Append(topic, e)
        PROVE  /\ Len(topic') = Len(topic) + 1
               /\ \A k \in 1..Len(topic) : topic'[k] = topic[k]
    BY <2>2, <1>6, <1>7
  <2> QED
    BY <1>1, <1>5, <2>1, <2>2
<1>9. /\ Len(arrivals') \in Nat /\ Len(arrivals) <= Len(arrivals')
      /\ \A k \in 1..Len(arrivals) : arrivals'[k] = arrivals[k]
  <2>1. CASE arrivals' = arrivals
    BY <2>1, <1>1
  <2>2. ASSUME NEW a \in Offsets, arrivals' = Append(arrivals, a)
        PROVE  /\ Len(arrivals') = Len(arrivals) + 1
               /\ \A k \in 1..Len(arrivals) : arrivals'[k] = arrivals[k]
    BY <2>2, <1>6, <1>7
  <2> QED
    BY <1>1, <1>5, <2>1, <2>2
<1> QED
  BY <1>1, <1>8, <1>9

\* Inductive: what the aggregator keeps is what it has read, as sets, the
\* arrivals each in one place; the join is that of what it kept.
PredictionsKept ==
  \A s \in Stops :
    /\ IsFiniteSet(predictions[s])
    /\ \A i, p : <<i, p>> \in predictions[s] <=> <<s, i, p>> \in ReadPredictions

SightingsKept ==
  /\ Range(sightings) = ReadSightings
  /\ \A m, n \in DOMAIN sightings : sightings[m] = sightings[n] => m = n

Joined == pairs = Join /\ dropped = NegativeLeads

KeptInv ==
  /\ PredictionsKept /\ SightingsKept
  /\ IF aggPhase = "done" THEN Joined ELSE pairs = {}

LEMMA CandidatesFinite ==
  ASSUME AggTypeOK, PredictionsKept
  PROVE  IsFiniteSet(Candidates)
<1> DEFINE Of(n) == {n} \X predictions[sightings[n][1]]
<1>1. DOMAIN sightings = 1..Len(sightings) /\ Len(sightings) \in Nat
  BY LenProperties DEF AggTypeOK
<1>2. \A n \in DOMAIN sightings : sightings[n][1] \in Stops
  <2>1. \A n \in DOMAIN sightings : sightings[n] \in AgencyStops \X Nat
    BY <1>1, ElementOfSeq DEF AggTypeOK
  <2> QED
    BY <2>1, AggregatorAssumption
<1>3. IsFiniteSet(1..Len(sightings))
  BY <1>1, FS_Interval
<1>4. \A n \in DOMAIN sightings : IsFiniteSet(Of(n))
  BY <1>2, FS_Singleton, FS_Product DEF PredictionsKept
<1> HIDE DEF Of
<1>5. IsFiniteSet({Of(n) : n \in DOMAIN sightings})
  <2> DEFINE f == [n \in DOMAIN sightings |-> Of(n)]
  <2>1. f \in Surjection(DOMAIN sightings, {Of(n) : n \in DOMAIN sightings})
    BY DEF Surjection
  <2> QED
    BY <1>1, <1>3, <2>1, FS_Surjection
<1>6. \A T \in {Of(n) : n \in DOMAIN sightings} : IsFiniteSet(T)
  BY <1>4
<1>7. IsFiniteSet(UNION {Of(n) : n \in DOMAIN sightings})
  BY <1>5, <1>6, FS_UNION
<1> QED
  BY <1>7 DEF Of, Candidates

\* The join leaves pairs of the type.
LEMMA JoinType ==
  ASSUME AggTypeOK
  PROVE  /\ \A c \in Candidates : /\ c[1] \in DOMAIN sightings /\ c[1] \in Nat
                                  /\ c[2] \in Nat \X Nat /\ c = <<c[1], c[2]>>
         /\ Join \subseteq [n : Nat, stop : AgencyStops, issued : Nat, predicted : Nat,
                            bucket : DOMAIN LEAD_BUCKETS]
<1>1. /\ DOMAIN sightings = 1..Len(sightings) /\ Len(sightings) \in Nat
      /\ \A n \in DOMAIN sightings : sightings[n] \in AgencyStops \X Nat
  BY LenProperties, ElementOfSeq DEF AggTypeOK
<1>2. \A s \in Stops : predictions[s] \subseteq Nat \X Nat
  <2> DEFINE T == Times \ {0}
  <2>1. T \subseteq Nat
    BY TimesAreNat
  <2>2. predictions \in [Stops -> SUBSET (T \X T)]
    BY DEF AggTypeOK
  <2> HIDE DEF T
  <2>3. T \X T \subseteq Nat \X Nat
    BY <2>1
  <2>4. \A s \in Stops : predictions[s] \subseteq T \X T
    BY <2>2
  <2> QED
    BY <2>3, <2>4
<1>3. \A n \in DOMAIN sightings : sightings[n][1] \in AgencyStops /\ sightings[n][1] \in Stops
  BY <1>1, AggregatorAssumption
<1>4. \A c \in Candidates : /\ c[1] \in DOMAIN sightings /\ c[1] \in Nat
                            /\ c[2] \in Nat \X Nat /\ c = <<c[1], c[2]>>
  <2> SUFFICES ASSUME NEW c \in Candidates
               PROVE  /\ c[1] \in DOMAIN sightings /\ c[1] \in Nat
                      /\ c[2] \in Nat \X Nat /\ c = <<c[1], c[2]>>
    OBVIOUS
  <2>1. PICK n \in DOMAIN sightings : c \in {n} \X predictions[sightings[n][1]]
    BY DEF Candidates
  <2>2. predictions[sightings[n][1]] \subseteq Nat \X Nat
    BY <1>2, <1>3
  <2> QED
    BY <1>1, <2>1, <2>2
<1>5. ASSUME NEW c \in Candidates, \E b \in DOMAIN LEAD_BUCKETS : InBucket(b, Lead(sightings[c[1]], c[2]))
      PROVE  [n |-> c[1], stop |-> sightings[c[1]][1], issued |-> c[2][1], predicted |-> c[2][2],
              bucket |-> CHOOSE b \in DOMAIN LEAD_BUCKETS : InBucket(b, Lead(sightings[c[1]], c[2]))]
             \in [n : Nat, stop : AgencyStops, issued : Nat, predicted : Nat, bucket : DOMAIN LEAD_BUCKETS]
  <2> DEFINE B == CHOOSE b \in DOMAIN LEAD_BUCKETS : InBucket(b, Lead(sightings[c[1]], c[2]))
  <2>1. B \in DOMAIN LEAD_BUCKETS
    BY <1>5
  <2>2. c[1] \in Nat /\ sightings[c[1]][1] \in AgencyStops /\ c[2][1] \in Nat /\ c[2][2] \in Nat
    BY <1>3, <1>4
  <2> HIDE DEF B
  <2>3. [n |-> c[1], stop |-> sightings[c[1]][1], issued |-> c[2][1], predicted |-> c[2][2], bucket |-> B]
             \in [n : Nat, stop : AgencyStops, issued : Nat, predicted : Nat, bucket : DOMAIN LEAD_BUCKETS]
    BY <2>1, <2>2
  <2> QED
    BY <2>3 DEF B
<1>6. Join \subseteq [n : Nat, stop : AgencyStops, issued : Nat, predicted : Nat,
                     bucket : DOMAIN LEAD_BUCKETS]
  BY <1>5 DEF Join
<1> QED
  BY <1>4, <1>6

LEMMA AggTypeStep ==
  ASSUME TypeOK, OccurrenceInv, AggTypeOK, PredictionsKept, [AggNext]_allVars
  PROVE  AggTypeOK'
<1>1. /\ Len(updates) \in Nat /\ Len(arrivals) \in Nat /\ MaxUpdates \in Nat
      /\ readUpdates \in 0..Len(updates) /\ readArrivals \in 0..Len(arrivals)
  BY LenProperties, AggregatorAssumption DEF AggTypeOK, TypeOK
<1>2. CASE Next /\ UNCHANGED aggVars
  BY <1>1, <1>2, SourcesGrow DEF AggTypeOK, aggVars, aggMemory
<1>3. ASSUME NEW u \in Updates, PublishUpdate(u) PROVE AggTypeOK'
  <2>1. updates' \in Seq(Updates) /\ Len(updates') = Len(updates) + 1 /\ Len(updates') <= MaxUpdates
    BY <1>1, <1>3, AppendProperties DEF PublishUpdate, AggTypeOK
  <2> QED
    BY <1>1, <1>3, <2>1 DEF PublishUpdate, AggTypeOK, aggMemory, vars, broker
<1>4. CASE AggStart
  BY <1>4 DEF AggStart, AggTypeOK, aggMemory, vars, broker
<1>5. CASE AddPrediction
  <2> DEFINE u == updates[readUpdates + 1]
             p == <<IssuedAt(u), u.predicted>>
  <2>1. /\ readUpdates < Len(updates) /\ readUpdates' = readUpdates + 1
        /\ UNCHANGED <<updates, aggPhase, readArrivals, sightings, dropped, pairs, arrivals>>
        /\ \/ UNCHANGED <<predictions, collapsed>>
           \/ /\ Usable(u)
              /\ predictions' = [predictions EXCEPT ![u.stop] = predictions[u.stop] \union {p}]
              /\ collapsed' \in {collapsed, collapsed + 1}
    BY <1>5 DEF AddPrediction, vars, broker
  <2>2. u \in Updates
    BY <1>1, <2>1, ElementOfSeq DEF AggTypeOK
  <2>3. Usable(u) => /\ u.stop \in AgencyStops /\ u.stop \in Stops
                     /\ p \in (Times \ {0}) \X (Times \ {0})
    BY <2>2, UpdateType, AggregatorAssumption DEF Usable
  <2> HIDE DEF p
  <2>4. /\ predictions' \in [Stops -> SUBSET ((Times \ {0}) \X (Times \ {0}))]
        /\ \A s \in Stops \ AgencyStops : predictions'[s] = {}
    <3> DEFINE PS == (Times \ {0}) \X (Times \ {0})
               st == u.stop
    <3>1. \/ st \in AgencyStops /\ st \in Stops /\ p \in PS
          \/ predictions' = predictions
      BY <2>1, <2>3
    <3>2. predictions \in [Stops -> SUBSET PS] /\ \A s \in Stops \ AgencyStops : predictions[s] = {}
      BY DEF AggTypeOK
    <3>3. \/ predictions' = predictions
          \/ predictions' = [predictions EXCEPT ![st] = predictions[st] \union {p}]
      BY <2>1
    <3> HIDE DEF PS, st
    <3>4. predictions' \in [Stops -> SUBSET PS] /\ \A s \in Stops \ AgencyStops : predictions'[s] = {}
      BY <3>1, <3>2, <3>3
    <3> QED
      BY <3>4 DEF PS
  <2>5. collapsed' \in Nat
    BY <2>1 DEF AggTypeOK
  <2> QED
    BY <1>1, <2>1, <2>4, <2>5 DEF AggTypeOK
<1>6. CASE AddArrival
  <2> DEFINE a == Sighting(arrivals[readArrivals + 1])
  <2>1. /\ readArrivals < Len(arrivals) /\ readArrivals' = readArrivals + 1
        /\ UNCHANGED <<updates, aggPhase, readUpdates, predictions, dropped, pairs, arrivals>>
        /\ \/ UNCHANGED <<sightings, collapsed>>
           \/ a[1] \in AgencyStops /\ collapsed' = collapsed + 1 /\ UNCHANGED sightings
           \/ a[1] \in AgencyStops /\ sightings' = Append(sightings, a) /\ UNCHANGED collapsed
    BY <1>6 DEF AddArrival, vars, broker
  <2>2. arrivals[readArrivals + 1] \in Nat
    <3>1. arrivals \in Seq(Offsets) /\ readArrivals + 1 \in 1..Len(arrivals)
      BY <1>1, <2>1 DEF TypeOK
    <3>2. arrivals[readArrivals + 1] \in Offsets
      BY <3>1, ElementOfSeq
    <3> QED
      BY <3>2, ResolverAssumption DEF Offsets
  <2>3. a[1] \in AgencyStops => a \in AgencyStops \X Nat
    BY <2>2, AggregatorAssumption DEF Sighting
  <2> HIDE DEF a
  <2>4. sightings' \in Seq(AgencyStops \X Nat)
    <3> DEFINE S == AgencyStops \X Nat
    <3>1. sightings \in Seq(S) /\ (sightings' = sightings \/ (a \in S /\ sightings' = Append(sightings, a)))
      BY <2>1, <2>3 DEF AggTypeOK
    <3> HIDE DEF S
    <3>2. sightings' \in Seq(S)
      BY <3>1, AppendProperties
    <3> QED
      BY <3>2 DEF S
  <2> QED
    BY <1>1, <2>1, <2>4 DEF AggTypeOK
<1>7. CASE AggFinish
  <2>1. /\ aggPhase' = "done" /\ pairs' = Join /\ dropped' = NegativeLeads
        /\ UNCHANGED <<updates, readUpdates, readArrivals, predictions, sightings, collapsed, arrivals>>
    BY <1>7 DEF AggFinish, vars, broker
  <2>2. dropped' \in Nat
    BY <2>1, CandidatesFinite, AtMostAsMany, FS_Subset, FS_CardinalityType DEF NegativeLeads
  <2> QED
    BY <2>1, <2>2, JoinType DEF AggTypeOK
<1>8. CASE UNCHANGED allVars
  BY <1>8 DEF AggTypeOK, allVars, aggVars, aggMemory, vars, broker
<1> QED
  BY <1>2, <1>3, <1>4, <1>5, <1>6, <1>7, <1>8 DEF AggNext

\* What was read, by its places in the topics.
ReadElements ==
  /\ \A x : x \in ReadSightings <=>
       x \in AgencyStops \X Nat /\ \E m \in 1..readArrivals : x = Sighting(arrivals[m])
  /\ \A s, i, p : <<s, i, p>> \in ReadPredictions <=>
       \E m \in 1..readUpdates : /\ Usable(updates[m]) /\ updates[m].stop = s
                                /\ IssuedAt(updates[m]) = i /\ updates[m].predicted = p

LEMMA ReadIs == TypeOK /\ AggTypeOK => ReadElements
<1> SUFFICES ASSUME TypeOK, AggTypeOK PROVE ReadElements
  OBVIOUS
<1>1. ASSUME NEW S, NEW q \in Seq(S), NEW n \in 0..Len(q)
      PROVE  Range(SubSeq(q, 1, n)) = {q[m] : m \in 1..n}
  <2>1. Len(q) \in Nat /\ \A m \in 1..n : q[m] \in S
    BY LenProperties, ElementOfSeq
  <2>2. /\ SubSeq(q, 1, n) \in Seq(S) /\ Len(SubSeq(q, 1, n)) = n
        /\ \A m \in 1..n : SubSeq(q, 1, n)[m] = q[m]
    BY <2>1, SubSeqProperties
  <2>3. DOMAIN SubSeq(q, 1, n) = 1..n
    BY <2>2, LenProperties
  <2> QED
    BY <2>2, <2>3 DEF Range
<1>2. Range(SubSeq(arrivals, 1, readArrivals)) = {arrivals[m] : m \in 1..readArrivals}
  <2>1. arrivals \in Seq(Offsets) /\ readArrivals \in 0..Len(arrivals)
    BY DEF TypeOK, AggTypeOK
  <2> QED
    BY <1>1, <2>1
<1>3. Range(SubSeq(updates, 1, readUpdates)) = {updates[m] : m \in 1..readUpdates}
  BY <1>1 DEF AggTypeOK
<1>4. ASSUME NEW x
      PROVE  x \in ReadSightings <=>
               x \in AgencyStops \X Nat /\ \E m \in 1..readArrivals : x = Sighting(arrivals[m])
  BY <1>2 DEF ReadSightings
<1>5. ASSUME NEW s, NEW i, NEW p
      PROVE  <<s, i, p>> \in ReadPredictions <=>
               \E m \in 1..readUpdates : /\ Usable(updates[m]) /\ updates[m].stop = s
                                        /\ IssuedAt(updates[m]) = i /\ updates[m].predicted = p
  <2>1. <<s, i, p>> \in ReadPredictions <=>
          \E u \in {updates[m] : m \in 1..readUpdates} :
             Usable(u) /\ <<s, i, p>> = <<u.stop, IssuedAt(u), u.predicted>>
    BY <1>3 DEF ReadPredictions, Usable
  <2> QED
    BY <2>1
<1> QED
  BY <1>4, <1>5 DEF ReadElements

LEMMA KeptInit == AggInit => KeptInv
<1> SUFFICES ASSUME AggInit PROVE KeptInv
  OBVIOUS
<1>1. /\ updates = <<>> /\ arrivals = <<>> /\ readUpdates = 0 /\ readArrivals = 0
      /\ predictions = [s \in Stops |-> {}] /\ sightings = <<>> /\ pairs = {} /\ aggPhase = "off"
  BY DEF AggInit, Init
<1>2. TypeOK /\ AggTypeOK
  BY InitType, AggInitType DEF AggInit
<1>3. 1..readArrivals = {} /\ 1..readUpdates = {}
  BY <1>1
<1>4. /\ ReadSightings = {}
      /\ \A s, i, p : <<s, i, p>> \notin ReadPredictions
  BY <1>2, <1>3, ReadIs DEF ReadElements
<1>5. DOMAIN sightings = {} /\ Range(sightings) = {}
  BY <1>1 DEF Range
<1>6. \A s \in Stops : predictions[s] = {} /\ IsFiniteSet(predictions[s])
  BY <1>1, FS_EmptySet
<1> QED
  BY <1>1, <1>4, <1>5, <1>6 DEF KeptInv, PredictionsKept, SightingsKept

\* What was read does not change when the topics grow.
LEMMA SightingsStay ==
  ASSUME TypeOK, AggTypeOK, TypeOK', AggTypeOK', OccurrenceInv,
         readArrivals' = readArrivals,
         \A k \in 1..Len(topic) : topic'[k] = topic[k],
         \A m \in 1..Len(arrivals) : arrivals'[m] = arrivals[m]
  PROVE  ReadSightings' = ReadSightings
<1>1. /\ Len(arrivals) \in Nat /\ DOMAIN arrivals = 1..Len(arrivals)
      /\ readArrivals \in 0..Len(arrivals)
  BY LenProperties DEF TypeOK, AggTypeOK
<1>2. \A m \in 1..readArrivals : Sighting(arrivals[m])' = Sighting(arrivals[m])
  BY <1>1 DEF Sighting, OccurrenceInv
<1>3. ReadElements /\ ReadElements'
  BY ReadIs, PTL
<1>4. \A x : x \in ReadSightings' <=> x \in ReadSightings
  BY <1>2, <1>3 DEF ReadElements
<1> QED
  BY <1>4

LEMMA PredictionsStay ==
  ASSUME TypeOK, AggTypeOK, TypeOK', AggTypeOK', readUpdates' = readUpdates,
         \A m \in 1..Len(updates) : updates'[m] = updates[m]
  PROVE  \A s, i, p : <<s, i, p>> \in ReadPredictions' <=> <<s, i, p>> \in ReadPredictions
<1>1. Len(updates) \in Nat /\ readUpdates \in 0..Len(updates)
  BY LenProperties DEF AggTypeOK
<1>2. \A m \in 1..readUpdates : updates'[m] = updates[m]
  BY <1>1
<1>3. ReadElements /\ ReadElements'
  BY ReadIs, PTL
<1> DEFINE Is(u, s, i, p) == Usable(u) /\ u.stop = s /\ IssuedAt(u) = i /\ u.predicted = p
<1>4. \A s, i, p : <<s, i, p>> \in ReadPredictions <=> \E m \in 1..readUpdates : Is(updates[m], s, i, p)
  BY <1>3 DEF ReadElements
<1>5. \A s, i, p : <<s, i, p>> \in ReadPredictions' <=> \E m \in 1..readUpdates' : Is(updates[m], s, i, p)'
  BY <1>3 DEF ReadElements
<1>6. \A m, s, i, p : Is(updates[m], s, i, p)' <=> Is(updates'[m], s, i, p)
  BY DEF Usable, IssuedAt
<1> HIDE DEF Is
<1>7. \A s, i, p : <<s, i, p>> \in ReadPredictions' <=> \E m \in 1..readUpdates : Is(updates'[m], s, i, p)
  BY <1>5, <1>6
<1> QED
  BY <1>2, <1>4, <1>7

LEMMA KeptStep ==
  ASSUME TypeOK, TypeOK', OccurrenceInv, AggTypeOK, AggTypeOK', KeptInv, [AggNext]_allVars
  PROVE  KeptInv'
<1> USE DEF KeptInv
<1>1. /\ Len(updates) \in Nat /\ Len(arrivals) \in Nat
      /\ readUpdates \in 0..Len(updates) /\ readArrivals \in 0..Len(arrivals)
  BY LenProperties DEF AggTypeOK, TypeOK
<1>2. ASSUME UNCHANGED <<predictions, readUpdates>>,
             \A m \in 1..Len(updates) : updates'[m] = updates[m]
      PROVE  PredictionsKept'
  <2>1. \A s, i, p : <<s, i, p>> \in ReadPredictions' <=> <<s, i, p>> \in ReadPredictions
    BY <1>2, PredictionsStay
  <2> QED
    BY <1>2, <2>1 DEF PredictionsKept
<1>3. ASSUME UNCHANGED <<sightings, readArrivals>>,
             \A k \in 1..Len(topic) : topic'[k] = topic[k],
             \A m \in 1..Len(arrivals) : arrivals'[m] = arrivals[m]
      PROVE  SightingsKept'
  <2>1. ReadSightings' = ReadSightings
    BY <1>3, SightingsStay
  <2> QED
    BY <1>3, <2>1 DEF SightingsKept
<1>4. ASSUME UNCHANGED <<aggPhase, pairs, predictions, sightings, dropped>>
      PROVE  (IF aggPhase = "done" THEN Joined ELSE pairs = {})'
  BY <1>4 DEF Joined, Join, NegativeLeads, Candidates, Lead
<1>5. CASE Next /\ UNCHANGED aggVars
  BY <1>2, <1>3, <1>4, <1>5, SourcesGrow DEF aggVars, aggMemory
<1>6. ASSUME NEW u \in Updates, PublishUpdate(u) PROVE KeptInv'
  <2>1. /\ updates' = Append(updates, u)
        /\ UNCHANGED <<topic, arrivals, aggPhase, readUpdates, readArrivals, predictions,
                       sightings, dropped, pairs>>
    BY <1>6 DEF PublishUpdate, aggMemory, vars, broker
  <2>2. \A m \in 1..Len(updates) : updates'[m] = updates[m]
    BY <2>1, AppendProperties DEF AggTypeOK
  <2> QED
    BY <1>2, <1>3, <1>4, <2>1, <2>2
<1>7. CASE AggStart
  <2>1. /\ aggPhase = "off" /\ aggPhase' = "consuming"
        /\ UNCHANGED <<topic, arrivals, updates, readUpdates, readArrivals, predictions,
                       sightings, pairs>>
    BY <1>7 DEF AggStart, aggMemory, vars, broker
  <2> QED
    BY <1>2, <1>3, <2>1
<1>8. CASE AddPrediction
  <2> DEFINE u == updates[readUpdates + 1]
             p == <<IssuedAt(u), u.predicted>>
             Is(v, s, i, q) == Usable(v) /\ v.stop = s /\ IssuedAt(v) = i /\ v.predicted = q
  <2>1. /\ aggPhase = "consuming" /\ readUpdates' = readUpdates + 1
        /\ UNCHANGED <<topic, arrivals, updates, aggPhase, readArrivals, sightings, dropped, pairs>>
        /\ \/ ~Usable(u) /\ UNCHANGED predictions
           \/ /\ Usable(u)
              /\ predictions' = [predictions EXCEPT ![u.stop] = predictions[u.stop] \union {p}]
    BY <1>8 DEF AddPrediction, vars, broker
  <2>2. \A s, i, q : <<s, i, q>> \in ReadPredictions' <=>
          <<s, i, q>> \in ReadPredictions \/ Is(u, s, i, q)
    <3>1. ReadElements /\ ReadElements'
      BY ReadIs, PTL
    <3>2. \A s, i, q : <<s, i, q>> \in ReadPredictions <=> \E m \in 1..readUpdates : Is(updates[m], s, i, q)
      BY <3>1 DEF ReadElements
    <3>3. \A s, i, q : <<s, i, q>> \in ReadPredictions' <=> \E m \in 1..readUpdates' : Is(updates[m], s, i, q)'
      BY <3>1 DEF ReadElements
    <3>4. \A m, s, i, q : Is(updates[m], s, i, q)' <=> Is(updates[m], s, i, q)
      BY <2>1 DEF Usable, IssuedAt
    <3>5. 1..readUpdates' = 1..readUpdates \union {readUpdates + 1}
      BY <1>1, <2>1
    <3> HIDE DEF Is
    <3>6. \A s, i, q : <<s, i, q>> \in ReadPredictions' <=>
            \E m \in 1..readUpdates \union {readUpdates + 1} : Is(updates[m], s, i, q)
      BY <3>3, <3>4, <3>5
    <3> QED
      BY <3>2, <3>6
  <2>3. PredictionsKept'
    <3>1. CASE ~Usable(u) /\ UNCHANGED predictions
      BY <2>2, <3>1 DEF PredictionsKept
    <3>2. CASE /\ Usable(u)
               /\ predictions' = [predictions EXCEPT ![u.stop] = predictions[u.stop] \union {p}]
      <4>1. u.stop \in Stops
        BY <3>2, AggregatorAssumption DEF Usable
      <4> DEFINE st == u.stop
                 j == IssuedAt(u)
                 r == u.predicted
      <4>2. \A s, i, q : Is(u, s, i, q) <=> st = s /\ i = j /\ q = r
        BY <3>2
      <4>3. p = <<j, r>>
        OBVIOUS
      <4>4. /\ predictions' = [predictions EXCEPT ![st] = predictions[st] \union {p}]
            /\ st \in Stops /\ DOMAIN predictions = Stops
        BY <3>2, <4>1 DEF AggTypeOK
      <4>5. \A s \in Stops : \A i, q : <<i, q>> \in predictions[s] <=> <<s, i, q>> \in ReadPredictions
        BY DEF PredictionsKept
      <4>6. \A s \in Stops : IsFiniteSet(predictions[s])
        BY DEF PredictionsKept
      <4> HIDE DEF Is, p, u, st, j, r, KeptInv
      <4>7. \A s \in Stops : predictions'[s] = IF s = st THEN predictions[s] \union {p} ELSE predictions[s]
        BY <4>4
      <4>8. \A i, q : <<i, q>> = p <=> i = j /\ q = r
        BY <4>3
      <4>9. \A s \in Stops : IsFiniteSet(predictions'[s])
        <5> SUFFICES ASSUME NEW s \in Stops PROVE IsFiniteSet(predictions'[s])
          OBVIOUS
        <5>1. IsFiniteSet(predictions[s] \union {p})
          BY <4>6, FS_AddElement
        <5> QED
          BY <4>6, <4>7, <5>1
      <4>10. ASSUME NEW s \in Stops, NEW i, NEW q
             PROVE  <<i, q>> \in predictions'[s] <=> <<s, i, q>> \in ReadPredictions'
        <5>1. <<i, q>> \in predictions'[s] <=> <<i, q>> \in predictions[s] \/ (s = st /\ <<i, q>> = p)
          BY <4>7
        <5>2. <<i, q>> = p <=> i = j /\ q = r
          BY <4>8
        <5>3. <<s, i, q>> \in ReadPredictions' <=> <<s, i, q>> \in ReadPredictions \/ (s = st /\ i = j /\ q = r)
          BY <2>2, <4>2
        <5>4. <<i, q>> \in predictions[s] <=> <<s, i, q>> \in ReadPredictions
          BY <4>5
        <5> QED
          BY <5>1, <5>2, <5>3, <5>4
      <4> QED
        BY <4>9, <4>10 DEF PredictionsKept
    <3> QED
      BY <2>1, <3>1, <3>2
  <2> QED
    BY <1>3, <1>4, <2>1, <2>3
<1>9. CASE AddArrival
  <2> DEFINE a == Sighting(arrivals[readArrivals + 1])
  <2>1. /\ aggPhase = "consuming" /\ readArrivals < Len(arrivals) /\ readArrivals' = readArrivals + 1
        /\ UNCHANGED <<topic, arrivals, updates, aggPhase, readUpdates, predictions, pairs>>
        /\ \/ a[1] \notin AgencyStops /\ UNCHANGED sightings
           \/ a \in Range(sightings) /\ UNCHANGED sightings
           \/ /\ a[1] \in AgencyStops /\ a \notin Range(sightings)
              /\ sightings' = Append(sightings, a)
    BY <1>9 DEF AddArrival, IsDuplicate, vars, broker
  <2>2. \A x : x \in ReadSightings' <=>
          x \in ReadSightings \/ (x = a /\ x \in AgencyStops \X Nat)
    <3>1. ReadElements /\ ReadElements'
      BY ReadIs, PTL
    <3>2. \A x : x \in ReadSightings <=>
            x \in AgencyStops \X Nat /\ \E m \in 1..readArrivals : x = Sighting(arrivals[m])
      BY <3>1 DEF ReadElements
    <3>3. \A x : x \in ReadSightings' <=>
            x \in AgencyStops \X Nat /\ \E m \in 1..readArrivals' : x = Sighting(arrivals[m])
      BY <2>1, <3>1 DEF ReadElements, Sighting
    <3>4. 1..readArrivals' = 1..readArrivals \union {readArrivals + 1}
      BY <1>1, <2>1
    <3> QED
      BY <3>2, <3>3, <3>4
  <2>3. a[1] \in AgencyStops => a \in AgencyStops \X Nat
    <3>1. arrivals \in Seq(Offsets) /\ readArrivals + 1 \in 1..Len(arrivals)
      BY <1>1, <2>1 DEF TypeOK
    <3>2. arrivals[readArrivals + 1] \in Nat
      BY <3>1, ElementOfSeq, ResolverAssumption DEF Offsets
    <3> QED
      BY <3>2, AggregatorAssumption DEF Sighting
  <2> HIDE DEF a
  <2>4. SightingsKept'
    <3>1. CASE a[1] \notin AgencyStops /\ UNCHANGED sightings
      <4>1. a \notin AgencyStops \X Nat
        BY <3>1
      <4>2. \A x : x \in ReadSightings' <=> x \in ReadSightings
        BY <2>2, <4>1
      <4> QED
        BY <3>1, <4>2 DEF SightingsKept
    <3>2. CASE a \in Range(sightings) /\ UNCHANGED sightings
      <4>1. \A x : x \in ReadSightings' <=> x \in ReadSightings
        BY <2>2, <3>2 DEF SightingsKept
      <4> QED
        BY <3>2, <4>1 DEF SightingsKept
    <3>3. CASE /\ a[1] \in AgencyStops /\ a \notin Range(sightings)
               /\ sightings' = Append(sightings, a)
      <4> DEFINE S == AgencyStops \X Nat
      <4>1. sightings \in Seq(S) /\ a \in S
        BY <2>3, <3>3 DEF AggTypeOK
      <4>2. \A x : x \in ReadSightings' <=> x \in ReadSightings \/ x = a
        BY <2>2, <4>1
      <4> HIDE DEF S
      <4>3. Range(sightings') = Range(sightings) \union {a}
        BY <3>3, <4>1, RangeAppend
      <4>4. /\ Len(sightings) \in Nat /\ DOMAIN sightings = 1..Len(sightings)
            /\ DOMAIN sightings' = 1..(Len(sightings) + 1)
            /\ \A n \in 1..Len(sightings) : sightings'[n] = sightings[n]
            /\ sightings'[Len(sightings) + 1] = a
        BY <3>3, <4>1, AppendProperties, LenProperties
      <4>5. \A n \in DOMAIN sightings : sightings[n] # a
        BY <3>3 DEF Range
      <4>6. \A m, n \in DOMAIN sightings' : sightings'[m] = sightings'[n] => m = n
        BY <4>4, <4>5 DEF SightingsKept
      <4> QED
        BY <4>2, <4>3, <4>6 DEF SightingsKept
    <3> QED
      BY <2>1, <3>1, <3>2, <3>3
  <2> QED
    BY <1>2, <2>1, <2>4
<1>10. CASE AggFinish
  <2>1. /\ aggPhase' = "done" /\ pairs' = Join /\ dropped' = NegativeLeads
        /\ UNCHANGED <<topic, arrivals, updates, readUpdates, readArrivals, predictions, sightings>>
    BY <1>10 DEF AggFinish, vars, broker
  <2>2. Joined'
    BY <2>1 DEF Joined, Join, NegativeLeads, Candidates, Lead
  <2> QED
    BY <1>2, <1>3, <2>1, <2>2
<1>11. CASE UNCHANGED allVars
  BY <1>2, <1>3, <1>4, <1>11 DEF allVars, aggVars, aggMemory, vars, broker
<1> QED
  BY <1>5, <1>6, <1>7, <1>8, <1>9, <1>10, <1>11 DEF AggNext

\* The buckets are apart and leave nothing out before the last.
LEMMA Buckets ==
  ASSUME NEW lead \in Int
  PROVE  /\ lead > 0 => ((\E b \in DOMAIN LEAD_BUCKETS : InBucket(b, lead)) <=> lead < LastLead)
         /\ \A b, c \in DOMAIN LEAD_BUCKETS : InBucket(b, lead) /\ InBucket(c, lead) => b = c
<1>1. /\ DOMAIN LEAD_BUCKETS = {1, 2, 3, 4, 5} /\ LastLead = 1000000000
      /\ LEAD_BUCKETS[1].lo = 0 /\ LEAD_BUCKETS[1].hi = 120
      /\ LEAD_BUCKETS[2].lo = 120 /\ LEAD_BUCKETS[2].hi = 300
      /\ LEAD_BUCKETS[3].lo = 300 /\ LEAD_BUCKETS[3].hi = 600
      /\ LEAD_BUCKETS[4].lo = 600 /\ LEAD_BUCKETS[4].hi = 1200
      /\ LEAD_BUCKETS[5].lo = 1200 /\ LEAD_BUCKETS[5].hi = 1000000000
  BY DEF LEAD_BUCKETS, LastLead
<1> QED
  BY <1>1 DEF InBucket

\* A bijection counts the parts that it takes to each other.
LEMMA SameCount ==
  ASSUME NEW S, NEW T, NEW f \in Bijection(S, T), IsFiniteSet(S),
         NEW A \in SUBSET S, NEW B \in SUBSET T, \A x \in S : x \in A <=> f[x] \in B
  PROVE  Cardinality(A) = Cardinality(B) /\ IsFiniteSet(A) /\ IsFiniteSet(B)
<1> DEFINE g == [x \in A |-> f[x]]
<1>1. IsFiniteSet(A)
  BY FS_Subset
<1>2. /\ f \in [S -> T] /\ \A x, y \in S : f[x] = f[y] => x = y
      /\ \A t \in T : \E x \in S : f[x] = t
  BY DEF Bijection, Injection, Surjection, IsInjective
<1>3. g \in [A -> B] /\ \A x, y \in A : g[x] = g[y] => x = y
  BY <1>2
<1>4. \A t \in B : \E x \in A : g[x] = t
  BY <1>2
<1>5. g \in Bijection(A, B)
  BY <1>3, <1>4 DEF Bijection, Injection, Surjection, IsInjective
<1> QED
  BY <1>1, <1>5, FS_Bijection DEF ExistsBijection

\* A pair of the join is told by its arrival's place and its prediction.
LEMMA JoinElements ==
  ASSUME AggTypeOK
  PROVE  \A x \in Join :
           /\ x.n \in DOMAIN sightings /\ x.stop = sightings[x.n][1]
           /\ x.stop \in AgencyStops
           /\ \A y \in Join : x.n = y.n /\ x.issued = y.issued /\ x.predicted = y.predicted => x = y
<1> DEFINE B(n, i, p) == CHOOSE b \in DOMAIN LEAD_BUCKETS : InBucket(b, Lead(sightings[n], <<i, p>>))
           R(n, i, p) == [n |-> n, stop |-> sightings[n][1], issued |-> i, predicted |-> p,
                          bucket |-> B(n, i, p)]
<1>1. \A n \in DOMAIN sightings : sightings[n][1] \in AgencyStops
  <2>1. \A n \in 1..Len(sightings) : sightings[n] \in AgencyStops \X Nat
    BY ElementOfSeq DEF AggTypeOK
  <2> QED
    BY <2>1, LenProperties DEF AggTypeOK
<1>2. \A x \in Join : \E n \in DOMAIN sightings : \E i, p : x = R(n, i, p)
  <2> SUFFICES ASSUME NEW x \in Join PROVE \E n \in DOMAIN sightings : \E i, p : x = R(n, i, p)
    OBVIOUS
  <2>1. PICK c \in Candidates :
          x = [n |-> c[1], stop |-> sightings[c[1]][1], issued |-> c[2][1], predicted |-> c[2][2],
               bucket |-> CHOOSE b \in DOMAIN LEAD_BUCKETS : InBucket(b, Lead(sightings[c[1]], c[2]))]
    BY DEF Join
  <2>2. c[1] \in DOMAIN sightings /\ c[2] = <<c[2][1], c[2][2]>>
    BY JoinType
  <2>3. x = R(c[1], c[2][1], c[2][2])
    BY <2>1, <2>2
  <2> HIDE DEF R
  <2> QED
    BY <2>2, <2>3
<1> HIDE DEF B
<1>3. \A n, i, p : /\ R(n, i, p).n = n /\ R(n, i, p).stop = sightings[n][1]
                   /\ R(n, i, p).issued = i /\ R(n, i, p).predicted = p
  OBVIOUS
<1> HIDE DEF R
<1> QED
  BY <1>1, <1>2, <1>3

LEMMA WeighsOnce ==
  TypeOK /\ OccurrenceInv /\ AggTypeOK /\ KeptInv => WeightBounded
<1> SUFFICES ASSUME TypeOK, OccurrenceInv, AggTypeOK, KeptInv, NEW x \in pairs
             PROVE  WeightOf(x.stop, x.issued, x.predicted) <= lives
  BY DEF WeightBounded
<1>1. pairs = Join
  BY DEF KeptInv, Joined
<1> DEFINE s == x.stop
           W == {y \in pairs : y.stop = s /\ y.issued = x.issued /\ y.predicted = x.predicted}
           f == [y \in W |-> CHOOSE m \in Delivered(s) : Sighting(arrivals[m]) = sightings[y.n]]
<1>2. s \in Stops
  BY <1>1, JoinElements, AggregatorAssumption
<1>3. \A y \in W : \E m \in Delivered(s) : Sighting(arrivals[m]) = sightings[y.n]
  <2> SUFFICES ASSUME NEW y \in W PROVE \E m \in Delivered(s) : Sighting(arrivals[m]) = sightings[y.n]
    OBVIOUS
  <2>1. y.n \in DOMAIN sightings /\ sightings[y.n][1] = s
    BY <1>1, JoinElements
  <2>2. sightings[y.n] \in ReadSightings
    BY <2>1 DEF KeptInv, SightingsKept, Range
  <2>3. PICK m \in 1..readArrivals : sightings[y.n] = Sighting(arrivals[m])
    BY <2>2, ReadIs DEF ReadElements
  <2>4. m \in DOMAIN arrivals
    BY LenProperties DEF AggTypeOK, TypeOK
  <2>5. topic[arrivals[m]] = s
    BY <2>1, <2>3 DEF Sighting
  <2> QED
    BY <2>3, <2>4, <2>5 DEF Delivered
<1>4. \A y \in W : f[y] \in Delivered(s) /\ Sighting(arrivals[f[y]]) = sightings[y.n]
  BY <1>3
<1>5. \A y, z \in W : f[y] = f[z] => y = z
  <2> SUFFICES ASSUME NEW y \in W, NEW z \in W, f[y] = f[z] PROVE y = z
    OBVIOUS
  <2>1. sightings[y.n] = sightings[z.n]
    BY <1>4
  <2>2. y.n = z.n
    BY <1>1, <2>1, JoinElements DEF KeptInv, SightingsKept
  <2> HIDE DEF f
  <2> QED
    BY <1>1, <2>2, JoinElements
<1>6. f \in Injection(W, Delivered(s))
  <2>1. f \in [W -> Delivered(s)]
    BY <1>4
  <2> HIDE DEF f
  <2> QED
    BY <1>5, <2>1 DEF Injection, IsInjective
<1> HIDE DEF f
<1>7. IsFiniteSet(W) /\ Cardinality(W) <= Cardinality(Delivered(s))
  BY <1>2, <1>6, Countable, FS_Injection
<1>8. Cardinality(Delivered(s)) <= lives
  BY <1>2, Countable DEF OccurrenceInv, ArrivalsOf
<1>9. Cardinality(W) \in Nat
  BY <1>7, FS_CardinalityType
<1> QED
  BY <1>2, <1>7, <1>8, <1>9, Countable DEF WeightOf

\* The candidates of the join are the pairs of distinct events read, and their
\* leads the same.
SameEvent(c) ==
  <<sightings[c[1]], <<sightings[c[1]][1], c[2][1], c[2][2]>>>>

LEMMA CandidatesAreEvents ==
  ASSUME TypeOK, AggTypeOK, KeptInv
  PROVE  /\ [c \in Candidates |-> SameEvent(c)] \in Bijection(Candidates, SameStop)
         /\ \A c \in Candidates : LeadOf(SameEvent(c)) = Lead(sightings[c[1]], c[2])
         /\ \A c \in Candidates : Lead(sightings[c[1]], c[2]) \in Int
<1>1. /\ DOMAIN sightings = 1..Len(sightings)
      /\ \A n \in DOMAIN sightings : /\ sightings[n] \in AgencyStops \X Nat
                                    /\ sightings[n][1] \in Stops /\ sightings[n][2] \in Nat
  <2>1. \A n \in 1..Len(sightings) : sightings[n] \in AgencyStops \X Nat
    BY ElementOfSeq DEF AggTypeOK
  <2> QED
    BY <2>1, LenProperties, AggregatorAssumption DEF AggTypeOK
<1>2. \A c \in Candidates : /\ c[1] \in DOMAIN sightings
                            /\ c[2] \in Nat \X Nat /\ c = <<c[1], c[2]>>
  BY JoinType
<1>3. \A n, p : <<n, p>> \in Candidates <=> n \in DOMAIN sightings /\ p \in predictions[sightings[n][1]]
  BY DEF Candidates
<1>4. \A s \in Stops : \A i, p : <<i, p>> \in predictions[s] <=> <<s, i, p>> \in ReadPredictions
  BY DEF KeptInv, PredictionsKept
<1>5. \A x \in ReadSightings : \E n \in DOMAIN sightings : sightings[n] = x
  BY DEF KeptInv, SightingsKept, Range
<1>6. \A n \in DOMAIN sightings : sightings[n] \in ReadSightings
  BY DEF KeptInv, SightingsKept, Range
<1>7. ASSUME NEW c \in Candidates
      PROVE  /\ SameEvent(c) \in SameStop
             /\ LeadOf(SameEvent(c)) = Lead(sightings[c[1]], c[2])
             /\ Lead(sightings[c[1]], c[2]) \in Int
  <2> DEFINE n == c[1]
             i == c[2][1]
             p == c[2][2]
             s == sightings[n][1]
  <2>1. n \in DOMAIN sightings /\ s \in Stops /\ c[2] = <<i, p>> /\ i \in Nat
    BY <1>1, <1>2
  <2>2. <<s, i, p>> \in ReadPredictions
    BY <1>2, <1>3, <1>4, <2>1
  <2>3. SameEvent(c) = <<sightings[n], <<s, i, p>>>>
    BY DEF SameEvent
  <2>4. SameEvent(c) \in SameStop
    BY <1>6, <2>1, <2>2, <2>3 DEF SameStop
  <2>5. LeadOf(SameEvent(c)) = Lead(sightings[c[1]], c[2])
    BY <2>3 DEF LeadOf, Lead
  <2>6. Lead(sightings[c[1]], c[2]) \in Int
    BY <1>1, <2>1 DEF Lead
  <2> QED
    BY <2>4, <2>5, <2>6
<1>8. ASSUME NEW c \in Candidates, NEW d \in Candidates, SameEvent(c) = SameEvent(d)
      PROVE  c = d
  <2>1. sightings[c[1]] = sightings[d[1]] /\ c[2][1] = d[2][1] /\ c[2][2] = d[2][2]
    BY <1>8 DEF SameEvent
  <2>2. c[1] = d[1]
    BY <1>2, <2>1 DEF KeptInv, SightingsKept
  <2>3. c[2] = <<c[2][1], c[2][2]>> /\ d[2] = <<d[2][1], d[2][2]>>
    BY <1>2
  <2>4. c[2] = d[2]
    BY <2>1, <2>3
  <2> QED
    BY <1>2, <2>2, <2>4
<1>9. ASSUME NEW x \in SameStop PROVE \E c \in Candidates : SameEvent(c) = x
  <2>1. /\ x = <<x[1], x[2]>> /\ x[1] \in ReadSightings /\ x[2] \in ReadPredictions /\ x[1][1] = x[2][1]
    BY DEF SameStop
  <2>2. x[2] = <<x[2][1], x[2][2], x[2][3]>>
    BY <2>1 DEF ReadPredictions
  <2>3. PICK n \in DOMAIN sightings : sightings[n] = x[1]
    BY <1>5, <2>1
  <2> DEFINE p == <<x[2][2], x[2][3]>>
             c == <<n, p>>
  <2>4. p \in predictions[sightings[n][1]]
    BY <1>1, <1>4, <2>1, <2>2, <2>3
  <2>5. c \in Candidates
    BY <1>3, <2>4
  <2>6. SameEvent(c) = <<x[1], <<x[1][1], x[2][2], x[2][3]>>>>
    BY <2>3 DEF SameEvent
  <2>7. SameEvent(c) = x
    BY <2>1, <2>2, <2>6
  <2> QED
    BY <2>5, <2>7
<1> DEFINE f == [c \in Candidates |-> SameEvent(c)]
<1>10. f \in [Candidates -> SameStop]
  BY <1>7
<1>11. f \in Bijection(Candidates, SameStop)
  BY <1>8, <1>9, <1>10 DEF Bijection, Injection, Surjection, IsInjective
<1> QED
  BY <1>7, <1>11

LEMMA AccurateOnce ==
  TypeOK /\ AggTypeOK /\ KeptInv => AccuracyOfDistinctEvents
<1> SUFFICES ASSUME TypeOK, AggTypeOK, KeptInv, aggPhase = "done"
             PROVE  /\ \A b \in DOMAIN LEAD_BUCKETS :
                         Summarize(b) =
                           Cardinality({x \in SameStop : LeadOf(x) > 0 /\ InBucket(b, LeadOf(x))})
                    /\ Cardinality(pairs) + dropped = Cardinality({x \in SameStop : LeadOf(x) < LastLead})
  BY DEF AccuracyOfDistinctEvents
<1> DEFINE lead(c) == Lead(sightings[c[1]], c[2])
           Scored == {c \in Candidates : lead(c) > 0 /\ \E b \in DOMAIN LEAD_BUCKETS : InBucket(b, lead(c))}
           Corrections == {c \in Candidates : lead(c) <= 0}
           Pair(c) == [n |-> c[1], stop |-> sightings[c[1]][1], issued |-> c[2][1], predicted |-> c[2][2],
                       bucket |-> CHOOSE b \in DOMAIN LEAD_BUCKETS : InBucket(b, lead(c))]
           f == [c \in Candidates |-> SameEvent(c)]
           g == [c \in Scored |-> Pair(c)]
<1>1. /\ f \in Bijection(Candidates, SameStop)
      /\ \A c \in Candidates : LeadOf(f[c]) = lead(c) /\ lead(c) \in Int
  BY CandidatesAreEvents
<1>2. pairs = {Pair(c) : c \in Scored} /\ dropped = Cardinality(Corrections)
  BY DEF KeptInv, Joined, Join, NegativeLeads
<1>3. IsFiniteSet(Candidates)
  BY CandidatesFinite DEF KeptInv
<1>4. \A c \in Candidates : c = <<c[1], c[2]>> /\ c[2] = <<c[2][1], c[2][2]>>
  BY JoinType
<1>5. g \in Bijection(Scored, pairs)
  <2>1. \A c \in Candidates : /\ Pair(c).n = c[1] /\ Pair(c).issued = c[2][1]
                              /\ Pair(c).predicted = c[2][2]
    OBVIOUS
  <2> HIDE DEF Pair, Scored
  <2>2. Scored \subseteq Candidates
    BY DEF Scored
  <2>3. g \in [Scored -> pairs] /\ \A x \in pairs : \E c \in Scored : g[c] = x
    BY <1>2
  <2>4. ASSUME NEW c \in Scored, NEW d \in Scored, g[c] = g[d] PROVE c = d
    <3>1. c[1] = d[1] /\ c[2][1] = d[2][1] /\ c[2][2] = d[2][2]
      <4>1. Pair(c) = Pair(d)
        BY <2>4
      <4> QED
        BY <2>1, <2>2, <4>1
    <3>2. c[2] = d[2]
      BY <1>4, <2>2, <3>1
    <3> QED
      BY <1>4, <2>2, <3>1, <3>2
  <2> QED
    BY <2>3, <2>4 DEF Bijection, Injection, Surjection, IsInjective
<1>6. \A c \in Scored : \A b \in DOMAIN LEAD_BUCKETS : g[c].bucket = b <=> InBucket(b, lead(c))
  <2> SUFFICES ASSUME NEW c \in Scored, NEW b \in DOMAIN LEAD_BUCKETS
               PROVE  g[c].bucket = b <=> InBucket(b, lead(c))
    OBVIOUS
  <2> DEFINE B == CHOOSE d \in DOMAIN LEAD_BUCKETS : InBucket(d, lead(c))
  <2>1. g[c].bucket = B
    OBVIOUS
  <2>2. c \in Candidates /\ \E d \in DOMAIN LEAD_BUCKETS : InBucket(d, lead(c))
    OBVIOUS
  <2>3. lead(c) \in Int
    BY <1>1, <2>2
  <2> HIDE DEF lead, g
  <2>4. B \in DOMAIN LEAD_BUCKETS /\ InBucket(B, lead(c))
    BY <2>2
  <2> HIDE DEF B
  <2>5. InBucket(b, lead(c)) => b = B
    BY <2>3, <2>4, Buckets
  <2> QED
    BY <2>1, <2>4, <2>5
<1> HIDE DEF f, g, Pair, lead
<1>7. IsFiniteSet(Scored)
  BY <1>3, FS_Subset
<1>8. ASSUME NEW b \in DOMAIN LEAD_BUCKETS
      PROVE  Summarize(b) = Cardinality({x \in SameStop : LeadOf(x) > 0 /\ InBucket(b, LeadOf(x))})
  <2> DEFINE A == {c \in Candidates : lead(c) > 0 /\ InBucket(b, lead(c))}
             B == {x \in pairs : x.bucket = b}
             C == {x \in SameStop : LeadOf(x) > 0 /\ InBucket(b, LeadOf(x))}
  <2>1. \A c \in Candidates : f[c] \in SameStop
    BY <1>1 DEF Bijection, Injection
  <2>2. \A c \in Candidates : c \in A <=> f[c] \in C
    BY <1>1, <2>1
  <2>3. Cardinality(A) = Cardinality(C)
    BY <1>1, <1>3, <2>2, SameCount
  <2>4. A \subseteq Scored
    OBVIOUS
  <2>5. \A c \in Scored : c \in A <=> g[c] \in B
    BY <1>5, <1>6 DEF Bijection, Injection
  <2>6. Cardinality(A) = Cardinality(B)
    BY <1>5, <1>7, <2>4, <2>5, SameCount
  <2> QED
    BY <2>3, <2>6 DEF Summarize
<1>9. Cardinality(pairs) + dropped = Cardinality({x \in SameStop : LeadOf(x) < LastLead})
  <2> DEFINE A == {c \in Candidates : lead(c) < LastLead}
             C == {x \in SameStop : LeadOf(x) < LastLead}
  <2>1. Cardinality(A) = Cardinality(C)
    <3>1. \A c \in Candidates : f[c] \in SameStop
      BY <1>1 DEF Bijection, Injection
    <3>2. \A c \in Candidates : c \in A <=> f[c] \in C
      BY <1>1, <3>1
    <3> QED
      BY <1>1, <1>3, <3>2, SameCount
  <2>2. A = Scored \union Corrections /\ Scored \intersect Corrections = {}
    <3>1. LastLead > 0 /\ LastLead \in Int
      BY DEF LastLead, LEAD_BUCKETS
    <3>2. \A c \in Candidates : c \in Scored <=> lead(c) > 0 /\ lead(c) < LastLead
      BY <1>1, Buckets
    <3> QED
      BY <1>1, <3>1, <3>2
  <2>3. IsFiniteSet(Corrections)
    BY <1>3, FS_Subset
  <2>4. Cardinality(A) = Cardinality(Scored) + Cardinality(Corrections)
    <3>1. Cardinality(Scored) \in Nat /\ Cardinality(Corrections) \in Nat
      BY <1>7, <2>3, FS_CardinalityType
    <3> HIDE DEF A, Scored, Corrections
    <3> QED
      BY <1>7, <2>2, <2>3, <3>1, FS_Union, FS_EmptySet
  <2>5. Cardinality(pairs) = Cardinality(Scored)
    BY <1>5, <1>7, FS_Bijection DEF ExistsBijection
  <2> QED
    BY <1>2, <2>1, <2>4, <2>5
<1> QED
  BY <1>8, <1>9

---------------------------------------------------------------------------
\* The aggregator's steps are none of the resolver's, and the other way round.
LEMMA AggInvariant ==
  AggSpec => [](TypeOK /\ OccurrenceInv /\ AggTypeOK /\ KeptInv)
<1>1. AggInit => TypeOK /\ OccurrenceInv /\ AggTypeOK /\ KeptInv
  BY InitType, OccurrenceInit, AggInitType, KeptInit DEF AggInit
<1>2. TypeOK /\ OccurrenceInv /\ AggTypeOK /\ KeptInv /\ [AggNext]_allVars
        => (TypeOK /\ OccurrenceInv /\ AggTypeOK /\ KeptInv)'
  <2> SUFFICES ASSUME TypeOK, OccurrenceInv, AggTypeOK, KeptInv, [AggNext]_allVars
               PROVE  (TypeOK /\ OccurrenceInv /\ AggTypeOK /\ KeptInv)'
    OBVIOUS
  <2>1. [Next]_vars
    BY DEF AggNext, PublishUpdate, AggStart, AddPrediction, AddArrival, AggFinish, allVars
  <2>2. TypeOK' /\ OccurrenceInv'
    BY <2>1, StepType, OccurrenceStep
  <2>3. AggTypeOK'
    BY AggTypeStep DEF KeptInv
  <2> QED
    BY <2>2, <2>3, KeptStep
<1> QED
  BY <1>1, <1>2, PTL DEF AggSpec

\* The types of the aggregator beside the resolver it reads from.
THEOREM AggTypeCorrect == AggSpec => [](TypeOK /\ AggTypeOK)
BY AggInvariant, PTL

\* However often and in whatever order its messages came, and whichever were
\* replayed, the tables of the aggregator are those of the distinct events it
\* read: each arrival with each prediction issued before it, in one bucket, once.
THEOREM AccuracyIsOfDistinctEvents == AggSpec => []AccuracyOfDistinctEvents
BY AggInvariant, AccurateOnce, PTL

\* A prediction is scored against no more arrivals of its stop than resolver
\* processes were started.
THEOREM WeightIsBounded == AggSpec => []WeightBounded
BY AggInvariant, WeighsOnce, PTL
=============================================================================
