------------------------ MODULE RateBudgetProofs ------------------------
(***************************************************************************)
(* RateBudget keeps its types, never lets a counted call out while the     *)
(* window before it is full, does not stall a cadence that knows no retry, *)
(* and sends at most two requests after a stop signal, for every number of *)
(* feeds, limit, window, interval and bound.                               *)
(***************************************************************************)
EXTENDS RateBudget, FiniteSetTheorems, SequenceTheorems, TLAPS

---------------------------------------------------------------------------
(* The inductive invariant.                                                *)

Deque == Len(calls) + 1 - head

\* Recorded times lie in the past and in order.
TimesOrdered ==
  /\ cycleStart <= now
  /\ \A i \in 1..Len(calls) : calls[i].at <= now

\* The deque is a suffix of the calls, and what was popped is too old to count.
PoppedExpired ==
  /\ head <= Len(calls) + 1
  /\ \A i \in 1..(head - 1) : calls[i].at + Window < now

\* The deque is full at most, or holds one entry more whose oldest has expired
\* (a fetch that slept records without pruning).
DequeBounded ==
  /\ pc = "wait" => /\ Deque = MaxRequests
                    /\ wake = calls[head].at + Window + Slack
  /\ pc = "flight" => /\ sentAt <= now
                      /\ Deque <= MaxRequests
                      /\ Deque = MaxRequests => calls[head].at + Window < sentAt
  /\ pc \notin {"wait", "flight"} =>
       \/ Deque <= MaxRequests
       \/ Deque = MaxRequests + 1 /\ calls[head].at + Window < now

BudgetInv ==
  /\ TypeOK
  /\ TimesOrdered
  /\ PoppedExpired
  /\ DequeBounded
  /\ CountedBudget

---------------------------------------------------------------------------
(* Type correctness.                                                       *)

\* What the proofs need of the constants.
LEMMA ConstantTypes ==
  /\ NFeeds \in Nat
  /\ MaxRequests \in Nat \ {0}
  /\ Window \in Nat
  /\ Slack \in Nat \ {0}
  /\ MaxLives \in Nat
  /\ MaxBroken \in Nat
BY BudgetAssumption DEF BudgetAssumption

\* The initial state is well typed.
LEMMA InitTypeOK == Init => TypeOK /\ cycleStart <= now
<1> SUFFICES ASSUME Init PROVE TypeOK /\ cycleStart <= now
  OBVIOUS
<1>1. calls \in Seq([sent: Nat, at: Nat, into: Nat]) /\ recent \in Seq(Request)
  BY EmptySeq DEF Init
<1>2. feedsLeft \in 0..NFeeds /\ lives \in 0..MaxLives /\ broken \in 0..MaxBroken
  BY ConstantTypes DEF Init
<1>3. pc \in PC /\ stop \in BOOLEAN /\ retried \in BOOLEAN
  BY DEF Init, PC
<1>4. QED
  BY <1>1, <1>2, <1>3 DEF Init, TypeOK

\* A fresh process is well typed.
LEMMA FreshType ==
  ASSUME Fresh
  PROVE  /\ calls' \in Seq([sent: Nat, at: Nat, into: Nat])
         /\ feedsLeft' \in 0..NFeeds
         /\ attempt' \in 1..2 /\ head' \in Nat \ {0}
         /\ wake' \in Nat /\ sentAt' \in Nat /\ afterStop' \in Nat
         /\ cycleStart' = 0
         /\ stop' \in BOOLEAN
         /\ retried' \in BOOLEAN
<1>1. calls' \in Seq([sent: Nat, at: Nat, into: Nat])
  BY EmptySeq DEF Fresh
<1>2. feedsLeft' \in 0..NFeeds
  BY ConstantTypes DEF Fresh
<1>3. stop' \in BOOLEAN /\ retried' \in BOOLEAN
  BY DEF Fresh
<1>4. attempt' \in 1..2 /\ head' \in Nat \ {0}
  BY DEF Fresh
<1>5. wake' \in Nat /\ sentAt' \in Nat /\ afterStop' \in Nat /\ cycleStart' = 0
  BY DEF Fresh
<1>6. QED
  BY <1>1, <1>2, <1>3, <1>4, <1>5

\* A recorded call is well typed when its cycle did not start in the future.
LEMMA RecordType ==
  ASSUME TypeOK, cycleStart <= now, Record
  PROVE  /\ calls' \in Seq([sent: Nat, at: Nat, into: Nat])
         /\ Len(calls') = Len(calls) + 1
         /\ \A i \in 1..Len(calls) : calls'[i] = calls[i]
         /\ calls'[Len(calls) + 1].sent = sentAt
         /\ calls'[Len(calls) + 1].at = now
<1>1. [sent |-> sentAt, at |-> now, into |-> now - cycleStart]
        \in [sent: Nat, at: Nat, into: Nat]
  BY DEF TypeOK
<1>2. QED
  BY <1>1, AppendProperties DEF TypeOK, Record

\* What the server has seen stays well typed.
LEMMA SendType ==
  ASSUME TypeOK, Send
  PROVE  recent' \in Seq(Request)
<1>1. [at |-> now, life |-> lives, broke |-> FALSE] \in Request
  BY DEF TypeOK, Request
<1>2. QED
  BY <1>1, AppendProperties DEF TypeOK, Send

LEMMA BrokenType ==
  ASSUME TypeOK, BrokenBody
  PROVE  recent' \in Seq(Request)
<1>1. Len(recent) \in Nat /\ DOMAIN recent = 1..Len(recent)
      /\ \A i \in 1..Len(recent) : recent[i] \in Request
  BY LenProperties, ElementOfSeq DEF TypeOK
<1>2. \A r \in Request : [r EXCEPT !.broke = TRUE] \in Request
  BY DEF Request
<1>3. recent' \in [1..Len(recent) -> Request]
  BY <1>1, <1>2 DEF BrokenBody
<1>4. QED
  BY <1>1, <1>3

\* Every step keeps the types.
LEMMA NextTypeOK ==
  TypeOK /\ cycleStart <= now /\ [Next]_vars => TypeOK' /\ (cycleStart <= now)'
<1> SUFFICES ASSUME TypeOK, cycleStart <= now, [Next]_vars
             PROVE  TypeOK' /\ (cycleStart <= now)'
  OBVIOUS
<1> USE ConstantTypes
<1>0. Len(calls) \in Nat /\ \A i \in 1..Len(calls) :
        calls[i] \in [sent: Nat, at: Nat, into: Nat]
  BY LenProperties, ElementOfSeq DEF TypeOK
<1>1. CASE CheckBudget
  <2>1. PICK h \in 1..(Len(calls) + 1) :
          /\ head' = h
          /\ h <= Len(calls) \/ Len(calls) + 1 - h = 0
          /\ \/ Send /\ UNCHANGED wake
             \/ /\ Len(calls) + 1 - h >= MaxRequests
                /\ pc' = "wait"
                /\ wake' = calls[h].at + Window + Slack
                /\ UNCHANGED <<sentAt, recent, afterStop>>
    BY <1>1, <1>0 DEF CheckBudget
  <2>2. h \in Nat \ {0}
    BY <1>0
  <2>3. CASE Send /\ UNCHANGED wake
    BY <1>1, <2>1, <2>2, <2>3, SendType DEF CheckBudget, Send, TypeOK, PC
  <2>4. CASE /\ Len(calls) + 1 - h >= MaxRequests
             /\ pc' = "wait"
             /\ wake' = calls[h].at + Window + Slack
             /\ UNCHANGED <<sentAt, recent, afterStop>>
    <3>1. h \in 1..Len(calls)
      BY <1>0, <2>4
    <3>2. wake' \in Nat
      BY <1>0, <2>4, <3>1
    <3>3. QED
      BY <1>1, <2>1, <2>2, <2>4, <3>2 DEF CheckBudget, TypeOK, PC
  <2>5. QED
    BY <2>1, <2>3, <2>4
<1>2. CASE WakeAndSend
  BY <1>2, SendType DEF WakeAndSend, Send, TypeOK, PC
<1>3. CASE Answered
  BY <1>3, RecordType DEF Answered, history, TypeOK, PC
<1>4. CASE ConnectionFailed
  <2>1. calls' \in Seq([sent: Nat, at: Nat, into: Nat])
    BY <1>4, RecordType DEF ConnectionFailed
  <2>2. attempt' \in 1..2 /\ pc' \in PC
    <3>1. \/ attempt' = 2 /\ pc' = "budget"
          \/ attempt' = attempt /\ pc' = "feed"
      BY <1>4 DEF ConnectionFailed
    <3>2. attempt \in 1..2
      BY DEF TypeOK
    <3> QED
      BY <3>1, <3>2 DEF PC
  <2>3. retried' = TRUE
    BY <1>4 DEF ConnectionFailed
  <2>4. UNCHANGED <<now, feedsLeft, cycleStart, wake, head, sentAt, stop, recent,
                    afterStop, lives, broken>>
    BY <1>4 DEF ConnectionFailed
  <2> QED
    BY <2>1, <2>2, <2>3, <2>4 DEF TypeOK
<1>5. CASE BrokenBody
  <2>1. recent' \in Seq(Request)
    BY <1>5, BrokenType
  <2>2. broken' \in 0..MaxBroken /\ pc' \in PC
    <3>1. broken \in 0..MaxBroken
      BY DEF TypeOK
    <3>2. broken < MaxBroken /\ broken' = broken + 1 /\ pc' = "feed"
      BY <1>5 DEF BrokenBody
    <3> QED
      BY <3>1, <3>2 DEF PC
  <2>3. UNCHANGED <<now, feedsLeft, cycleStart, attempt, wake, calls, head, sentAt, stop,
                    afterStop, retried, lives>>
    BY <1>5 DEF BrokenBody
  <2>4. QED
    BY <2>1, <2>2, <2>3 DEF TypeOK
<1>6. CASE Loop
  <2>1. CASE StartCycle
    BY <2>1 DEF StartCycle, history, TypeOK, PC
  <2>2. CASE PollFeed
    BY <2>2 DEF PollFeed, history, TypeOK, PC
  <2>3. CASE EndCycle
    BY <2>3 DEF EndCycle, history, TypeOK, PC
  <2>4. CASE NapOver
    BY <2>4 DEF NapOver, history, TypeOK, PC
  <2>5. CASE Exit
    BY <2>5 DEF Exit, history, TypeOK, PC
  <2>6. QED
    BY <1>6, <2>1, <2>2, <2>3, <2>4, <2>5 DEF Loop
<1>7. CASE Signal
  BY <1>7 DEF Signal, history, TypeOK, PC
<1>8. CASE Crash
  <2>1. pc' \in PC
    BY <1>8 DEF Crash, PC
  <2>2. QED
    BY <1>8, <2>1, FreshType DEF Crash, TypeOK
<1>9. CASE Start
  <2>1. pc' \in PC /\ lives' \in 0..MaxLives
    BY <1>9 DEF Start, PC, TypeOK
  <2>2. QED
    BY <1>9, <2>1, FreshType DEF Start, TypeOK
<1>10. CASE Tick
  <2>1. PICK k \in 0..Len(recent) : recent' = SubSeq(recent, k + 1, Len(recent))
    BY <1>10 DEF Tick
  <2>2. recent' \in Seq(Request)
    BY <2>1, SubSeqProperties DEF TypeOK
  <2>3. QED
    BY <1>10, <2>2 DEF Tick, code, TypeOK, PC
<1>11. CASE UNCHANGED vars
  BY <1>11 DEF vars, code, history, TypeOK, PC
<1>12. QED
  BY <1>1, <1>2, <1>3, <1>4, <1>5, <1>6, <1>7, <1>8, <1>9, <1>10, <1>11
     DEF Next, Fetch

\* Every variable of the limiter and its loop keeps its type, in every state.
THEOREM TypeCorrect == Spec => []TypeOK
<1>1. Init => TypeOK /\ cycleStart <= now
  BY InitTypeOK
<1>2. TypeOK /\ cycleStart <= now /\ [Next]_vars
        => TypeOK' /\ (cycleStart <= now)'
  BY NextTypeOK
<1>3. QED
  BY <1>1, <1>2, PTL DEF Spec

---------------------------------------------------------------------------
(* The budget.                                                             *)

\* The types the arithmetic below rests on.
LEMMA CallTypes ==
  ASSUME TypeOK
  PROVE  /\ now \in Nat /\ cycleStart \in Nat /\ sentAt \in Nat /\ wake \in Nat
         /\ head \in Nat \ {0}
         /\ Len(calls) \in Nat
         /\ \A i \in 1..Len(calls) : calls[i].at \in Nat /\ calls[i].sent \in Nat
<1>1. Len(calls) \in Nat
  BY LenProperties DEF TypeOK
<1>2. \A i \in 1..Len(calls) : calls[i] \in [sent: Nat, at: Nat, into: Nat]
  BY ElementOfSeq DEF TypeOK
<1>3. \A i \in 1..Len(calls) : calls[i].at \in Nat /\ calls[i].sent \in Nat
  BY <1>2
<1>4. QED
  BY <1>1, <1>3 DEF TypeOK

\* Pruning pops only expired entries and leaves at most a full deque.
LEMMA PruneBounds ==
  ASSUME BudgetInv, pc = "budget", NEW h \in 1..(Len(calls) + 1), IsPruned(h, now)
  PROVE  /\ \A i \in 1..(h - 1) : calls[i].at + Window < now
         /\ Len(calls) + 1 - h <= MaxRequests
<1> USE ConstantTypes
<1>1. /\ now \in Nat /\ head \in Nat \ {0} /\ Len(calls) \in Nat
      /\ \A i \in 1..Len(calls) : calls[i].at \in Nat
  BY CallTypes DEF BudgetInv
<1>2. /\ h \in Nat \ {0} /\ h >= head /\ h <= Len(calls) + 1
      /\ \A i \in head..(h - 1) : calls[i].at + Window < now
      /\ h <= Len(calls) => ~(calls[h].at + Window < now)
  <2>1. h \in head..(Len(calls) + 1)
    BY DEF IsPruned
  <2>2. /\ \A i \in head..(h - 1) : calls[i].at + Window < now
        /\ h <= Len(calls) => ~(calls[h].at + Window < now)
    <3>1. /\ \A i \in head..(h - 1) : Expired(i, now)
          /\ h <= Len(calls) => ~Expired(h, now)
      BY Zenon DEF IsPruned
    <3>2. ASSUME NEW i \in 1..Len(calls)
          PROVE  Expired(i, now) <=> calls[i].at + Window < now
      BY <1>1 DEF Expired
    <3>3. /\ \A i \in head..(h - 1) : i \in 1..Len(calls)
          /\ h <= Len(calls) => h \in 1..Len(calls)
      BY <1>1, <2>1
    <3> QED
      BY <3>1, <3>2, <3>3
  <2> QED
    BY <1>1, <2>1, <2>2
<1>3. \A i \in 1..(h - 1) : calls[i].at + Window < now
  BY <1>1, <1>2 DEF BudgetInv, PoppedExpired
<1>4. \/ Len(calls) + 1 - head <= MaxRequests
      \/ Len(calls) + 1 - head = MaxRequests + 1 /\ calls[head].at + Window < now
  BY DEF BudgetInv, DequeBounded, Deque
<1>5. Len(calls) + 1 - h <= MaxRequests
  <2>1. CASE Len(calls) + 1 - head <= MaxRequests
    BY <1>1, <1>2, <2>1
  <2>2. CASE Len(calls) + 1 - head = MaxRequests + 1 /\ calls[head].at + Window < now
    <3>1. h # head
      BY <1>1, <1>2, <2>2
    <3>2. QED
      BY <1>1, <1>2, <2>2, <3>1
  <2>3. QED
    BY <1>4, <2>1, <2>2
<1>6. QED
  BY <1>3, <1>5

\* The parts of the invariant besides the types.
BudgetParts == TimesOrdered /\ PoppedExpired /\ DequeBounded /\ CountedBudget

\* wait_time lets a request out, or makes it sleep, only as the window allows.
LEMMA CheckBudgetStep == BudgetInv /\ CheckBudget => BudgetParts'
<1> SUFFICES ASSUME BudgetInv, CheckBudget PROVE BudgetParts'
  OBVIOUS
<1> USE ConstantTypes
<1>0. /\ pc = "budget"
      /\ UNCHANGED <<now, cycleStart, calls>>
  BY DEF CheckBudget
<1>1. /\ now \in Nat /\ head \in Nat \ {0} /\ Len(calls) \in Nat
      /\ \A i \in 1..Len(calls) : calls[i].at \in Nat /\ calls[i].sent \in Nat
  BY CallTypes DEF BudgetInv
<1>2. PICK h \in 1..(Len(calls) + 1) :
        /\ IsPruned(h, now)
        /\ head' = h
        /\ \/ Len(calls) + 1 - h < MaxRequests /\ pc' = "flight" /\ sentAt' = now
           \/ /\ Len(calls) + 1 - h >= MaxRequests
              /\ pc' = "wait"
              /\ wake' = calls[h].at + Window + Slack
  BY <1>1 DEF CheckBudget, Send
<1>3. /\ \A i \in 1..(h - 1) : calls[i].at + Window < now
      /\ Len(calls) + 1 - h <= MaxRequests
  BY <1>0, <1>2, PruneBounds
<1>4. TimesOrdered'
  BY <1>0 DEF BudgetInv, TimesOrdered
<1>5. PoppedExpired'
  BY <1>0, <1>1, <1>2, <1>3 DEF PoppedExpired
<1>6. DequeBounded'
  BY <1>0, <1>1, <1>2, <1>3 DEF DequeBounded, Deque
<1>7. CountedBudget'
  BY <1>0, <1>1, <1>2, <1>3 DEF CountedBudget, BudgetInv
<1>8. QED
  BY <1>4, <1>5, <1>6, <1>7 DEF BudgetParts

\* A fetch that slept goes out after the oldest call has left the window.
LEMMA WakeStep == BudgetInv /\ WakeAndSend => BudgetParts'
<1> SUFFICES ASSUME BudgetInv, WakeAndSend PROVE BudgetParts'
  OBVIOUS
<1> USE ConstantTypes
<1>0. /\ pc = "wait" /\ pc' = "flight" /\ sentAt' = now /\ now >= wake
      /\ UNCHANGED <<now, cycleStart, calls, head>>
  BY DEF WakeAndSend, Send
<1>1. /\ now \in Nat /\ head \in Nat \ {0} /\ Len(calls) \in Nat
      /\ \A i \in 1..Len(calls) : calls[i].at \in Nat /\ calls[i].sent \in Nat
  BY CallTypes DEF BudgetInv
<1>2. /\ Len(calls) + 1 - head = MaxRequests
      /\ head \in 1..Len(calls)
      /\ calls[head].at + Window < now
  BY <1>0, <1>1 DEF BudgetInv, DequeBounded, Deque
<1>3. TimesOrdered' /\ PoppedExpired'
  BY <1>0 DEF BudgetInv, TimesOrdered, PoppedExpired
<1>4. DequeBounded'
  BY <1>0, <1>1, <1>2 DEF DequeBounded, Deque
<1>5. CountedBudget'
  BY <1>0, <1>1, <1>2 DEF CountedBudget, BudgetInv
<1>6. QED
  BY <1>3, <1>4, <1>5 DEF BudgetParts

\* record() after an answer or a failed connection.
LEMMA RecordStep ==
  ASSUME BudgetInv, Record, pc = "flight", pc' \notin {"wait", "flight"},
         UNCHANGED <<now, cycleStart, head>>
  PROVE  BudgetParts'
<1> USE ConstantTypes
<1>1. /\ now \in Nat /\ head \in Nat \ {0} /\ Len(calls) \in Nat /\ sentAt \in Nat
      /\ \A i \in 1..Len(calls) : calls[i].at \in Nat /\ calls[i].sent \in Nat
  BY CallTypes DEF BudgetInv
<1>2. /\ Len(calls') = Len(calls) + 1
      /\ \A i \in 1..Len(calls) : calls'[i] = calls[i]
      /\ calls'[Len(calls) + 1].sent = sentAt
      /\ calls'[Len(calls) + 1].at = now
  BY RecordType DEF BudgetInv, TimesOrdered
<1>0. /\ Len(calls) \in Nat /\ Len(calls') = Len(calls) + 1
      /\ head \in Nat /\ MaxRequests \in Nat
  BY <1>1, <1>2
<1>3. TimesOrdered'
  BY <1>1, <1>2 DEF BudgetInv, TimesOrdered
<1>4. PoppedExpired'
  BY <1>1, <1>2 DEF BudgetInv, PoppedExpired
<1>5. DequeBounded'
  <2>1. /\ sentAt <= now
        /\ Len(calls) + 1 - head <= MaxRequests
        /\ Len(calls) + 1 - head = MaxRequests => calls[head].at + Window < sentAt
    BY DEF BudgetInv, DequeBounded, Deque
  <2>2. CASE Len(calls) + 1 - head < MaxRequests
    BY <1>1, <1>2, <2>2 DEF DequeBounded, Deque
  <2>3. CASE Len(calls) + 1 - head = MaxRequests
    <3>1. head \in 1..Len(calls)
      BY <1>1, <2>3
    <3>2. calls'[head].at + Window < now
      BY <1>1, <1>2, <2>1, <2>3, <3>1
    <3>3. Deque' = MaxRequests + 1 /\ (calls[head].at + Window < now)'
      BY <1>0, <2>3, <3>2 DEF Deque
    <3>4. QED
      BY <3>3 DEF DequeBounded
  <2>4. QED
    BY <1>0, <2>1, <2>2, <2>3
<1>6. CountedBudget'
  <2>1. SUFFICES ASSUME NEW i \in 1..Len(calls'), i + MaxRequests <= Len(calls')
                 PROVE  calls'[i + MaxRequests].sent - calls'[i].at > Window
    BY DEF CountedBudget
  <2>2. i \in 1..Len(calls)
    BY <1>1, <1>2, <2>1
  <2>3. CASE i + MaxRequests <= Len(calls)
    BY <1>1, <1>2, <2>2, <2>3 DEF BudgetInv, CountedBudget
  <2>4. CASE i + MaxRequests = Len(calls) + 1
    <3>1. i = Len(calls) + 1 - MaxRequests /\ Len(calls) >= MaxRequests
      BY <1>1, <2>2, <2>4
    <3>2. sentAt - calls[i].at > Window
      BY <3>1 DEF BudgetInv, CountedBudget
    <3>3. QED
      BY <1>2, <2>2, <2>4, <3>2
  <2>5. i + MaxRequests <= Len(calls) \/ i + MaxRequests = Len(calls) + 1
    BY <1>0, <2>1, <2>2
  <2>6. QED
    BY <2>3, <2>4, <2>5
<1>7. QED
  BY <1>3, <1>4, <1>5, <1>6 DEF BudgetParts

\* Steps that neither send nor record nor touch the deque.
LEMMA QuietStep ==
  ASSUME BudgetInv, pc # "wait", pc' \notin {"wait", "flight"},
         cycleStart' \in {cycleStart, now},
         UNCHANGED <<now, calls, head>>
  PROVE  BudgetParts'
<1> USE ConstantTypes
<1>1. /\ now \in Nat /\ head \in Nat \ {0} /\ Len(calls) \in Nat
  BY CallTypes DEF BudgetInv
<1>2. TimesOrdered' /\ PoppedExpired'
  BY <1>1 DEF BudgetInv, TimesOrdered, PoppedExpired
<1>3. DequeBounded'
  BY <1>1 DEF BudgetInv, DequeBounded, Deque
<1>4. CountedBudget'
  BY DEF BudgetInv, CountedBudget
<1>5. QED
  BY <1>2, <1>3, <1>4 DEF BudgetParts

\* A process that begins or dies has an empty deque.
LEMMA FreshStep ==
  ASSUME BudgetInv, Fresh, pc' \notin {"wait", "flight"}, UNCHANGED now
  PROVE  BudgetParts'
<1> USE ConstantTypes
<1>1. calls' = <<>> /\ Len(calls') = 0 /\ head' = 1 /\ cycleStart' = 0 /\ now' \in Nat
  BY EmptySeq DEF Fresh, BudgetInv, TypeOK
<1>2. TimesOrdered' /\ PoppedExpired'
  BY <1>1 DEF TimesOrdered, PoppedExpired
<1>3. DequeBounded'
  BY <1>1 DEF DequeBounded, Deque
<1>4. CountedBudget'
  BY <1>1 DEF CountedBudget
<1>5. QED
  BY <1>2, <1>3, <1>4 DEF BudgetParts

\* The clock only makes old calls older.
LEMMA TickStep == BudgetInv /\ Tick => BudgetParts'
<1> SUFFICES ASSUME BudgetInv, Tick PROVE BudgetParts'
  OBVIOUS
<1>0. now' = now + 1 /\ UNCHANGED <<pc, cycleStart, wake, calls, head, sentAt>>
  BY DEF Tick, code
<1>1. /\ now \in Nat /\ cycleStart \in Nat /\ sentAt \in Nat /\ Window \in Nat
      /\ head \in Nat \ {0} /\ Len(calls) \in Nat
      /\ \A i \in 1..Len(calls) : calls[i].at \in Nat
  BY CallTypes, ConstantTypes DEF BudgetInv
<1>2. TimesOrdered'
  BY <1>0, <1>1 DEF BudgetInv, TimesOrdered
<1>3. PoppedExpired'
  BY <1>0, <1>1 DEF BudgetInv, PoppedExpired
<1>4. DequeBounded'
  <2>1. Len(calls) + 1 - head = MaxRequests + 1 => head \in 1..Len(calls)
    BY <1>1, ConstantTypes
  <2>2. QED
    BY <1>0, <1>1, <2>1 DEF BudgetInv, DequeBounded, Deque
<1>5. CountedBudget'
  BY <1>0 DEF BudgetInv, CountedBudget
<1>6. QED
  BY <1>2, <1>3, <1>4, <1>5 DEF BudgetParts

\* The initial state satisfies the invariant.
LEMMA InitBudget == Init => BudgetInv
<1> SUFFICES ASSUME Init PROVE BudgetInv
  OBVIOUS
<1>1. calls = <<>> /\ Len(calls) = 0 /\ head = 1 /\ cycleStart = 0 /\ now = 0 /\ pc = "down"
  BY EmptySeq DEF Init
<1>2. TimesOrdered /\ PoppedExpired
  BY <1>1 DEF TimesOrdered, PoppedExpired
<1>3. DequeBounded
  BY <1>1, ConstantTypes DEF DequeBounded, Deque
<1>4. CountedBudget
  BY <1>1, ConstantTypes DEF CountedBudget
<1>5. QED
  BY <1>2, <1>3, <1>4, InitTypeOK DEF BudgetInv

\* Every step preserves the invariant.
LEMMA NextBudget == BudgetInv /\ [Next]_vars => BudgetInv'
<1> SUFFICES ASSUME BudgetInv, [Next]_vars PROVE BudgetParts'
  BY NextTypeOK DEF BudgetInv, BudgetParts, TimesOrdered
<1>1. CASE CheckBudget
  BY <1>1, CheckBudgetStep
<1>2. CASE WakeAndSend
  BY <1>2, WakeStep
<1>3. CASE Answered \/ ConnectionFailed
  <2>1. /\ Record /\ pc = "flight" /\ pc' \in {"feed", "budget"}
        /\ UNCHANGED <<now, cycleStart, head>>
    BY <1>3 DEF Answered, ConnectionFailed
  <2>2. QED
    BY <2>1, RecordStep
<1>4. CASE BrokenBody \/ Loop
  <2>1. /\ pc # "wait" /\ pc' \notin {"wait", "flight"}
        /\ cycleStart' \in {cycleStart, now}
        /\ UNCHANGED <<now, calls, head>>
    BY <1>4 DEF BrokenBody, Loop, StartCycle, PollFeed, EndCycle, NapOver, Exit
  <2>2. QED
    BY <2>1, QuietStep
<1>5. CASE Signal \/ UNCHANGED vars
  BY <1>5 DEF Signal, vars, code, BudgetInv, BudgetParts, TimesOrdered,
              PoppedExpired, DequeBounded, Deque, CountedBudget
<1>6. CASE Crash \/ Start
  <2>1. Fresh /\ pc' \in {"down", "top"} /\ UNCHANGED now
    BY <1>6 DEF Crash, Start
  <2>2. QED
    BY <2>1, FreshStep
<1>7. CASE Tick
  BY <1>7, TickStep
<1>8. QED
  BY <1>1, <1>2, <1>3, <1>4, <1>5, <1>6, <1>7 DEF Next, Fetch

\* Within one life of the process every counted call leaves more than a whole
\* window after the MaxRequests-th counted call before it (RateBudget.wait_time,
\* Poller.fetch).
THEOREM BudgetHolds == Spec => []CountedBudget
<1>1. Init => BudgetInv
  BY InitBudget
<1>2. BudgetInv /\ [Next]_vars => BudgetInv'
  BY NextBudget
<1>3. BudgetInv => CountedBudget
  BY DEF BudgetInv
<1>4. QED
  BY <1>1, <1>2, <1>3, PTL DEF Spec

---------------------------------------------------------------------------
(* What the server sees.                                                   *)

\* The requests of this life, in the order they were sent, the one in flight
\* included.
Sends == IF pc = "flight" THEN Len(calls) + 1 ELSE Len(calls)
SendOf == [n \in Nat |-> IF n <= Len(calls) THEN calls[n].sent ELSE sentAt]

\* Each request of this life that counts in the server's window is a send of
\* this life, and two are two sends.
Embeds(f) ==
  /\ f \in [OfLife(lives) -> 1..Sends]
  /\ \A i, j \in OfLife(lives) : f[i] = f[j] => i = j
  /\ \A i \in OfLife(lives) : /\ recent[i].at = SendOf[f[i]]
                              /\ f[i] = Len(calls) + 1 => i = Len(recent)

\* Inductive: the window holds nothing of the future and nothing too old, in the
\* order of sending, and of each life that is over no more than the budget.  What
\* it holds of this life is bounded by what the deque knows of the sends.
WindowSane ==
  /\ \A i \in 1..Len(recent) :
       /\ recent[i].at <= now /\ now < recent[i].at + Window
       /\ recent[i].life <= lives
       /\ \A j \in 1..Len(recent) : i <= j => recent[i].at <= recent[j].at
  /\ \A i \in 1..Len(calls) : calls[i].sent <= calls[i].at

PastLivesKept ==
  \A l \in Nat : (l < lives \/ (l = lives /\ ~Up)) => Cardinality(OfLife(l)) <= MaxRequests

ServerInv ==
  /\ WindowSane
  /\ PastLivesKept
  /\ Up => \E f : Embeds(f)

LEMMA RecentTypes ==
  ASSUME TypeOK
  PROVE  /\ Len(recent) \in Nat /\ DOMAIN recent = 1..Len(recent)
         /\ \A i \in 1..Len(recent) :
              recent[i] \in Request /\ recent[i].at \in Nat /\ recent[i].life \in Nat
         /\ lives \in Nat
         /\ \A l : IsFiniteSet(OfLife(l)) /\ OfLife(l) \subseteq 1..Len(recent)
<1>1. Len(recent) \in Nat /\ DOMAIN recent = 1..Len(recent)
  BY LenProperties DEF TypeOK
<1>2. \A i \in 1..Len(recent) : recent[i] \in Request
  BY ElementOfSeq DEF TypeOK
<1>3. \A r \in Request : r.at \in Nat /\ r.life \in Nat
  BY ConstantTypes DEF Request
<1>4. \A l : OfLife(l) \subseteq 1..Len(recent)
  BY <1>1 DEF OfLife
<1>5. IsFiniteSet(1..Len(recent))
  BY <1>1, FS_Interval
<1>6. \A l : IsFiniteSet(OfLife(l))
  BY <1>4, <1>5, FS_Subset
<1> QED
  BY <1>1, <1>2, <1>3, <1>4, <1>6, ConstantTypes DEF TypeOK

\* A send that is MaxRequests before another has left the window.
LEMMA EmbeddedBudget ==
  ASSUME BudgetInv, WindowSane, NEW f, Embeds(f)
  PROVE  Cardinality(OfLife(lives)) <= MaxRequests
<1> USE ConstantTypes
<1> DEFINE Own == OfLife(lives)
           Last == (Sends - MaxRequests + 1)..Sends
<1>1. /\ Len(calls) \in Nat /\ sentAt \in Nat /\ now \in Nat
      /\ \A i \in 1..Len(calls) : calls[i].at \in Nat /\ calls[i].sent \in Nat
      /\ Own \subseteq 1..Len(recent)
      /\ \A i \in 1..Len(recent) : recent[i].at \in Nat
  BY CallTypes, RecentTypes DEF BudgetInv
<1>2. Sends \in Nat /\ Sends <= Len(calls) + 1 /\ (Sends = Len(calls) + 1 => pc = "flight")
  BY <1>1 DEF Sends
<1>3. \A n \in 1..Sends : SendOf[n] = IF n <= Len(calls) THEN calls[n].sent ELSE sentAt
  BY <1>2 DEF SendOf
<1>4. ASSUME NEW i \in Own PROVE f[i] + MaxRequests > Sends
  <2> SUFFICES ASSUME f[i] + MaxRequests <= Sends PROVE FALSE
    BY <1>2, <1>4 DEF Embeds
  <2>1. f[i] \in 1..Sends /\ f[i] \in 1..Len(calls) /\ f[i] + MaxRequests \in 1..Sends
    BY <1>2, <1>4 DEF Embeds
  <2> DEFINE c == f[i]
             d == f[i] + MaxRequests
  <2>2. SendOf[d] - calls[c].at > Window /\ SendOf[d] <= now
    <3>1. CASE d <= Len(calls)
      <4>1. c \in 1..Len(calls) /\ d \in 1..Len(calls) /\ d = c + MaxRequests
        BY <1>1, <2>1, <3>1
      <4>2. SendOf[d] = calls[d].sent
        BY <1>3, <2>1, <3>1
      <4>3. calls[d].sent - calls[c].at > Window
        BY <4>1 DEF BudgetInv, CountedBudget
      <4>4. calls[d].sent <= calls[d].at /\ calls[d].at <= now
        BY <4>1 DEF WindowSane, BudgetInv, TimesOrdered
      <4> HIDE DEF c, d
      <4> QED
        BY <1>1, <4>1, <4>2, <4>3, <4>4
    <3>2. CASE d > Len(calls)
      <4>1. pc = "flight" /\ c = Len(calls) + 1 - MaxRequests /\ Len(calls) >= MaxRequests
        BY <1>1, <1>2, <2>1, <3>2
      <4>2. SendOf[d] = sentAt
        BY <1>1, <1>3, <2>1, <3>2
      <4>3. sentAt - calls[c].at > Window /\ sentAt <= now
        BY <4>1 DEF BudgetInv, CountedBudget, DequeBounded
      <4> QED
        BY <4>2, <4>3
    <3> QED
      BY <1>1, <2>1, <3>1, <3>2
  <2>3. recent[i].at = SendOf[c] /\ SendOf[c] = calls[c].sent
    BY <1>3, <1>4, <2>1 DEF Embeds
  <2>4. calls[c].sent <= calls[c].at /\ now < recent[i].at + Window
    BY <1>1, <1>4, <2>1 DEF WindowSane
  <2>5. calls[c].at \in Nat /\ calls[c].sent \in Nat /\ SendOf[d] \in Nat
    <3>1. SendOf[d] = IF d <= Len(calls) THEN calls[d].sent ELSE sentAt
      BY <1>3, <2>1
    <3>2. d <= Len(calls) => d \in 1..Len(calls)
      BY <1>1, <2>1
    <3> QED
      BY <1>1, <2>1, <3>1, <3>2
  <2> HIDE DEF c, d
  <2> QED
    BY <1>1, <2>2, <2>3, <2>4, <2>5
<1>5. f \in Injection(Own, Last)
  <2>1. \A i \in Own : f[i] \in Last
    <3> SUFFICES ASSUME NEW i \in Own PROVE f[i] \in Last
      OBVIOUS
    <3>1. f[i] \in 1..Sends /\ f[i] + MaxRequests > Sends
      BY <1>4 DEF Embeds
    <3> QED
      BY <1>2, <3>1
  <2>2. f \in [Own -> Last]
    BY <2>1 DEF Embeds
  <2>3. \A i, j \in Own : f[i] = f[j] => i = j
    BY DEF Embeds
  <2> HIDE DEF Own, Last
  <2> QED
    BY <2>2, <2>3 DEF Injection, IsInjective
<1>6. IsFiniteSet(Last) /\ Cardinality(Last) = MaxRequests
  <2>1. Sends - MaxRequests + 1 \in Int /\ Sends \in Int /\ MaxRequests > 0
    BY <1>2
  <2>2. IsFiniteSet(Last) /\ Cardinality(Last) =
          IF Sends - MaxRequests + 1 > Sends THEN 0 ELSE Sends - (Sends - MaxRequests + 1) + 1
    BY <2>1, FS_Interval
  <2> HIDE DEF Last
  <2> QED
    BY <1>2, <2>1, <2>2
<1> HIDE DEF Own, Last
<1>7. Cardinality(Own) <= MaxRequests
  BY <1>5, <1>6, FS_Injection
<1> QED
  BY <1>7 DEF Own

\* A request that goes out is one more of both.
LEMMA SendKeeps ==
  ASSUME BudgetInv, ServerInv, Up, pc # "flight", Send, UNCHANGED <<now, calls, lives>>
  PROVE  ServerInv'
<1> USE ConstantTypes
<1>1. /\ Len(calls) \in Nat /\ now \in Nat
      /\ Len(recent) \in Nat /\ DOMAIN recent = 1..Len(recent) /\ lives \in Nat
      /\ Up'
  BY CallTypes, RecentTypes DEF BudgetInv, Send, Up
<1> DEFINE new == [at |-> now, life |-> lives, broke |-> FALSE]
           last == Len(recent) + 1
<1>2. /\ Len(recent') = last /\ DOMAIN recent' = 1..last
      /\ \A i \in 1..Len(recent) : recent'[i] = recent[i]
      /\ recent'[last].at = now /\ recent'[last].life = lives /\ ~recent'[last].broke
  <2>1. recent' = Append(recent, new) /\ new \in Request /\ recent \in Seq(Request)
    BY DEF Send, TypeOK, BudgetInv, Request
  <2> HIDE DEF new
  <2>2. /\ Len(recent') = last /\ DOMAIN recent' = 1..last
        /\ \A i \in 1..Len(recent) : recent'[i] = recent[i]
        /\ recent'[last] = new
    BY <1>1, <2>1, AppendProperties
  <2> QED
    BY <2>2 DEF new
<1>3. /\ \A i \in 1..last : i \in 1..Len(recent) \/ i = last
      /\ last \notin 1..Len(recent) /\ last \in 1..last /\ 1..Len(recent) \subseteq 1..last
  BY <1>1
<1>4. WindowSane'
  <2>1. Window > 0
    BY BudgetAssumption DEF BudgetAssumption
  <2> HIDE DEF last
  <2> QED
    BY <1>1, <1>2, <1>3, <2>1 DEF WindowSane, ServerInv
<1>5. OfLife(lives)' = OfLife(lives) \union {last}
  <2> HIDE DEF last
  <2> QED
    BY <1>1, <1>2, <1>3 DEF OfLife
<1>6. PastLivesKept'
  <2>1. \A l : l # lives => OfLife(l)' = OfLife(l)
    <3> HIDE DEF last
    <3> QED
      BY <1>1, <1>2, <1>3 DEF OfLife
  <2> QED
    BY <1>1, <2>1 DEF PastLivesKept, ServerInv
<1>7. \E f : Embeds(f)'
  <2>1. PICK f : Embeds(f)
    BY DEF ServerInv
  <2> DEFINE Own == OfLife(lives)
             g == [i \in Own \union {last} |-> IF i = last THEN Len(calls) + 1 ELSE f[i]]
  <2>2. Sends = Len(calls) /\ Sends' = Len(calls) + 1
    BY DEF Sends, Send
  <2>3. \A i \in Own : f[i] \in 1..Len(calls) /\ i # last /\ i \in 1..Len(recent)
    BY <1>1, <1>3, <2>1, <2>2 DEF Embeds, OfLife
  <2>4. g \in [Own \union {last} -> 1..(Len(calls) + 1)]
    BY <1>1, <2>3
  <2>5. \A i, j \in Own \union {last} : g[i] = g[j] => i = j
    BY <1>1, <2>1, <2>3 DEF Embeds
  <2>6. SendOf'[Len(calls) + 1] = now /\ \A n \in 1..Len(calls) : SendOf'[n] = SendOf[n]
    BY <1>1 DEF SendOf, Send
  <2>7. \A i \in Own \union {last} :
          /\ recent'[i].at = SendOf'[g[i]]
          /\ g[i] = Len(calls') + 1 => i = Len(recent')
    <3> SUFFICES ASSUME NEW i \in Own \union {last}
                 PROVE  /\ recent'[i].at = SendOf'[g[i]]
                        /\ g[i] = Len(calls') + 1 => i = Len(recent')
      OBVIOUS
    <3>1. CASE i = last
      <4>1. g[i] = Len(calls) + 1
        BY <3>1
      <4> QED
        BY <1>2, <2>6, <3>1, <4>1
    <3>2. CASE i # last
      <4>1. g[i] = f[i] /\ f[i] \in 1..Len(calls) /\ i \in Own /\ recent'[i] = recent[i]
        BY <1>2, <2>3, <3>2
      <4>2. recent[i].at = SendOf[f[i]]
        BY <2>1, <4>1 DEF Embeds
      <4> QED
        BY <1>1, <2>6, <4>1, <4>2
    <3> QED
      BY <3>1, <3>2
  <2> HIDE DEF g, last
  <2>8. PICK h : h = g
    OBVIOUS
  <2>9. Embeds(h)'
    BY <1>5, <2>2, <2>4, <2>5, <2>7, <2>8 DEF Embeds
  <2> QED
    BY <2>9
<1> QED
  BY <1>4, <1>6, <1>7 DEF ServerInv

\* A request that is recorded moves from flight into the calls.
LEMMA RecordKeeps ==
  ASSUME BudgetInv, ServerInv, pc = "flight", pc' = "feed" \/ pc' = "budget", Record,
         UNCHANGED <<now, recent, lives, sentAt>>
  PROVE  ServerInv'
<1>1. /\ Len(calls) \in Nat /\ now \in Nat /\ sentAt \in Nat /\ sentAt <= now
      /\ Up /\ Up' /\ lives \in Nat
  BY CallTypes, RecentTypes DEF BudgetInv, DequeBounded, Up
<1>2. /\ Len(calls') = Len(calls) + 1
      /\ \A i \in 1..Len(calls) : calls'[i] = calls[i]
      /\ calls'[Len(calls) + 1].sent = sentAt /\ calls'[Len(calls) + 1].at = now
  BY RecordType DEF BudgetInv, TimesOrdered
<1>3. \A i \in 1..Len(calls') : i \in 1..Len(calls) \/ i = Len(calls) + 1
  BY <1>1, <1>2
<1>4. WindowSane'
  BY <1>1, <1>2, <1>3 DEF WindowSane, ServerInv
<1>5. \A l : OfLife(l)' = OfLife(l)
  BY DEF OfLife
<1>6. PastLivesKept'
  BY <1>1, <1>5 DEF PastLivesKept, ServerInv
<1>7. Sends = Len(calls) + 1 /\ Sends' = Len(calls) + 1
  BY <1>2 DEF Sends
<1>8. \A n \in 1..(Len(calls) + 1) : SendOf'[n] = SendOf[n]
  BY <1>1, <1>2 DEF SendOf
<1>9. PICK f : Embeds(f)
  BY <1>1 DEF ServerInv
<1>10. \A i \in OfLife(lives) : f[i] \in 1..(Len(calls) + 1) /\ f[i] # Len(calls') + 1
  BY <1>1, <1>2, <1>7, <1>9 DEF Embeds
<1>11. Embeds(f)'
  BY <1>5, <1>7, <1>8, <1>9, <1>10 DEF Embeds
<1> QED
  BY <1>4, <1>6, <1>11 DEF ServerInv

\* Steps that neither send nor record.
LEMMA QuietKeeps ==
  ASSUME BudgetInv, ServerInv, pc = "flight" <=> pc' = "flight", Up, Up',
         UNCHANGED <<now, recent, lives, calls, sentAt>>
  PROVE  ServerInv'
<1>1. \A l : OfLife(l)' = OfLife(l)
  BY DEF OfLife
<1>2. Sends' = Sends /\ SendOf' = SendOf
  BY DEF Sends, SendOf
<1>3. PICK f : Embeds(f)
  BY DEF ServerInv
<1>4. Embeds(f)'
  BY <1>1, <1>2, <1>3 DEF Embeds
<1> QED
  BY <1>1, <1>4 DEF ServerInv, WindowSane, PastLivesKept

\* A body that breaks off is in no deque, and no longer counts.
LEMMA BrokenKeeps ==
  ASSUME BudgetInv, ServerInv, BrokenBody
  PROVE  ServerInv'
<1>1. /\ Len(calls) \in Nat /\ now \in Nat
      /\ Len(recent) \in Nat /\ DOMAIN recent = 1..Len(recent) /\ lives \in Nat
      /\ \A i \in 1..Len(recent) : recent[i] \in Request
      /\ pc = "flight" /\ pc' = "feed" /\ Up /\ Up'
      /\ UNCHANGED <<now, lives, calls, sentAt>>
  BY CallTypes, RecentTypes DEF BudgetInv, BrokenBody, Up
<1>2. /\ Len(recent') = Len(recent) /\ DOMAIN recent' = 1..Len(recent)
      /\ \A i \in 1..Len(recent) :
           /\ recent'[i].at = recent[i].at /\ recent'[i].life = recent[i].life
           /\ i # Len(recent) => recent'[i] = recent[i]
           /\ i = Len(recent) => recent'[i].broke
  <2>1. /\ DOMAIN recent' = 1..Len(recent)
        /\ \A i \in 1..Len(recent) : recent'[i] =
             IF i = Len(recent) THEN [recent[i] EXCEPT !.broke = TRUE] ELSE recent[i]
    BY <1>1 DEF BrokenBody
  <2>2. \A r \in Request : LET b == [r EXCEPT !.broke = TRUE]
                           IN b.at = r.at /\ b.life = r.life /\ b.broke = TRUE
    BY DEF Request
  <2>3. Len(recent') = Len(recent)
    BY <1>1, <2>1, BrokenType, LenProperties DEF BudgetInv
  <2>4. ASSUME NEW i \in 1..Len(recent)
        PROVE  /\ recent'[i].at = recent[i].at /\ recent'[i].life = recent[i].life
               /\ i # Len(recent) => recent'[i] = recent[i]
               /\ i = Len(recent) => recent'[i].broke
    <3>1. CASE i = Len(recent)
      <4>1. recent'[i] = [recent[i] EXCEPT !.broke = TRUE] /\ recent[i] \in Request
        BY <1>1, <2>1, <3>1
      <4> QED
        BY <2>2, <3>1, <4>1
    <3>2. CASE i # Len(recent)
      BY <2>1, <3>2
    <3> QED
      BY <3>1, <3>2
  <2> QED
    BY <1>1, <2>1, <2>3, <2>4
<1>3. WindowSane'
  BY <1>1, <1>2 DEF WindowSane, ServerInv
<1>4. \A l : OfLife(l)' = OfLife(l) \ {Len(recent)}
  BY <1>1, <1>2 DEF OfLife
<1>5. PastLivesKept'
  <2> SUFFICES ASSUME NEW l \in Nat, l < lives
               PROVE  Cardinality(OfLife(l)') <= MaxRequests
    BY <1>1 DEF PastLivesKept
  <2>1. IsFiniteSet(OfLife(l)) /\ OfLife(l)' \in SUBSET OfLife(l)
    BY <1>4, RecentTypes DEF BudgetInv
  <2>2. Cardinality(OfLife(l)') <= Cardinality(OfLife(l)) /\ IsFiniteSet(OfLife(l)')
    BY <2>1, FS_Subset
  <2>3. Cardinality(OfLife(l)) <= MaxRequests
    BY DEF PastLivesKept, ServerInv
  <2>4. Cardinality(OfLife(l)) \in Nat /\ Cardinality(OfLife(l)') \in Nat /\ MaxRequests \in Nat
    BY <2>1, <2>2, FS_CardinalityType, ConstantTypes
  <2> QED
    BY <2>2, <2>3, <2>4
<1>6. PICK f : Embeds(f)
  BY <1>1 DEF ServerInv
<1> DEFINE Own == OfLife(lives) \ {Len(recent)}
           g == [i \in Own |-> f[i]]
<1>7. Sends = Len(calls) + 1 /\ Sends' = Len(calls) /\ SendOf' = SendOf
  BY <1>1 DEF Sends, SendOf
<1>8. \A i \in Own : /\ f[i] \in 1..Len(calls) /\ i \in 1..Len(recent)
                     /\ g[i] = f[i] /\ recent'[i].at = SendOf[f[i]]
  <2> SUFFICES ASSUME NEW i \in Own
               PROVE  /\ f[i] \in 1..Len(calls) /\ i \in 1..Len(recent)
                      /\ recent'[i].at = SendOf[f[i]]
    OBVIOUS
  <2>1. i \in OfLife(lives) /\ i # Len(recent) /\ i \in 1..Len(recent)
    BY <1>1 DEF OfLife
  <2>2. /\ f[i] \in 1..(Len(calls) + 1) /\ f[i] # Len(calls) + 1
        /\ recent[i].at = SendOf[f[i]]
    BY <1>6, <1>7, <2>1 DEF Embeds
  <2>3. f[i] \in 1..Len(calls)
    BY <1>1, <2>2
  <2>4. recent'[i].at = recent[i].at
    BY <1>2, <2>1
  <2> QED
    BY <2>1, <2>2, <2>3, <2>4
<1>9. \A i, j \in Own : g[i] = g[j] => i = j
  BY <1>6 DEF Embeds
<1>10. g \in [Own -> 1..Len(calls)]
  BY <1>8
<1> HIDE DEF g
<1>11. PICK h : h = g
  OBVIOUS
<1>12. \A i \in Own : h[i] # Len(calls) + 1
  BY <1>1, <1>8, <1>11
<1>13. Embeds(h)'
  BY <1>1, <1>4, <1>7, <1>8, <1>9, <1>10, <1>11, <1>12 DEF Embeds
<1> QED
  BY <1>1, <1>3, <1>5, <1>13 DEF ServerInv

\* What is left when the first k elements go.
LEMMA SuffixFacts ==
  ASSUME NEW S, NEW s \in Seq(S), NEW k \in 0..Len(s)
  PROVE  LET t == SubSeq(s, k + 1, Len(s)) IN
           /\ DOMAIN t = 1..(Len(s) - k) /\ Len(t) = Len(s) - k
           /\ \A i \in 1..(Len(s) - k) : t[i] = s[k + i]
<1> DEFINE t == SubSeq(s, k + 1, Len(s))
<1>1. Len(s) \in Nat /\ k \in Nat /\ k <= Len(s)
  BY LenProperties
<1>2. CASE k = Len(s)
  BY <1>1, <1>2, SubSeqProperties
<1>3. CASE k < Len(s)
  BY <1>1, <1>3, SubSeqProperties
<1> QED
  BY <1>1, <1>2, <1>3

\* What leaves the window leaves it from the front.
LEMMA TickKeeps ==
  ASSUME BudgetInv, ServerInv, Tick
  PROVE  ServerInv'
<1> USE ConstantTypes
<1>1. /\ Len(calls) \in Nat /\ now \in Nat
      /\ Len(recent) \in Nat /\ DOMAIN recent = 1..Len(recent) /\ lives \in Nat
      /\ \A i \in 1..Len(recent) : recent[i].at \in Nat
      /\ recent \in Seq(Request)
      /\ \A i \in 1..Len(calls) : calls[i].at \in Nat /\ calls[i].sent \in Nat
  BY CallTypes, RecentTypes DEF BudgetInv, TypeOK
<1>2. /\ now' = now + 1 /\ UNCHANGED <<pc, calls, sentAt, lives>>
      /\ Up' = Up /\ Sends' = Sends /\ SendOf' = SendOf
  BY DEF Tick, code, Up, Sends, SendOf
<1>3. PICK k \in 0..Len(recent) :
        /\ k < Len(recent) => now + 1 - recent[k + 1].at < Window
        /\ recent' = SubSeq(recent, k + 1, Len(recent))
  BY DEF Tick
<1>4. /\ k \in Nat /\ k <= Len(recent)
      /\ Len(recent') = Len(recent) - k /\ DOMAIN recent' = 1..(Len(recent) - k)
      /\ \A i \in DOMAIN recent' : recent'[i] = recent[k + i] /\ k + i \in 1..Len(recent)
  <2>1. k \in Nat /\ k <= Len(recent)
    BY <1>1, <1>3
  <2>2. /\ DOMAIN recent' = 1..(Len(recent) - k) /\ Len(recent') = Len(recent) - k
        /\ \A i \in 1..(Len(recent) - k) : recent'[i] = recent[k + i]
    BY <1>1, <1>3, SuffixFacts
  <2>3. \A i \in 1..(Len(recent) - k) : k + i \in 1..Len(recent)
    BY <1>1, <2>1
  <2> QED
    BY <2>1, <2>2, <2>3
<1>5. WindowSane'
  <2>1. ASSUME NEW i \in 1..Len(recent'), NEW j \in 1..Len(recent'), i <= j
        PROVE  recent'[i].at <= recent'[j].at
    <3>1. k + i \in 1..Len(recent) /\ k + j \in 1..Len(recent) /\ k + i <= k + j
      BY <1>1, <1>4, <2>1
    <3> QED
      BY <1>4, <2>1, <3>1 DEF WindowSane, ServerInv
  <2>2. ASSUME NEW i \in 1..Len(recent')
        PROVE  /\ recent'[i].at <= now' /\ now' < recent'[i].at + Window
               /\ recent'[i].life <= lives'
    <3>1. k + 1 \in 1..Len(recent) /\ k + i \in 1..Len(recent) /\ k + 1 <= k + i /\ k < Len(recent)
      BY <1>1, <1>4, <2>2
    <3>2. /\ recent[k + 1].at <= recent[k + i].at /\ recent[k + i].at <= now
          /\ recent[k + i].life <= lives
      BY <3>1 DEF WindowSane, ServerInv
    <3>3. recent[k + 1].at \in Nat /\ recent[k + i].at \in Nat /\ recent'[i] = recent[k + i]
      BY <1>1, <1>4, <2>2, <3>1
    <3>4. now + 1 < recent[k + 1].at + Window
      <4>1. now + 1 - recent[k + 1].at < Window
        BY <1>3, <3>1
      <4>2. \A a, b, w \in Nat : a + 1 - b < w => a + 1 < b + w
        OBVIOUS
      <4> QED
        BY <1>1, <3>3, <4>1, <4>2
    <3>5. now + 1 < recent[k + i].at + Window /\ recent[k + i].at <= now + 1
      <4> DEFINE b == recent[k + 1].at
                 c == recent[k + i].at
      <4>1. /\ b \in Nat /\ c \in Nat /\ now \in Nat /\ Window \in Nat
            /\ b <= c /\ c <= now /\ now + 1 < b + Window
        BY <1>1, <3>2, <3>3, <3>4
      <4> HIDE DEF b, c
      <4>2. now + 1 < c + Window /\ c <= now + 1
        BY <4>1
      <4> QED
        BY <4>2 DEF c
    <3> QED
      BY <1>2, <3>2, <3>3, <3>5
  <2>3. \A i \in 1..Len(calls) : calls[i].sent <= calls[i].at
    BY DEF WindowSane, ServerInv
  <2> QED
    BY <1>2, <2>1, <2>2, <2>3 DEF WindowSane
<1>6. \A l : \A i \in OfLife(l)' : k + i \in OfLife(l) /\ i \in Nat
  BY <1>1, <1>4 DEF OfLife
<1>7. PastLivesKept'
  <2> SUFFICES ASSUME NEW l \in Nat, l < lives \/ (l = lives /\ ~Up)
               PROVE  Cardinality(OfLife(l)') <= MaxRequests
    BY <1>2 DEF PastLivesKept
  <2> DEFINE S == OfLife(l)'
             T == OfLife(l)
             h == [i \in S |-> k + i]
  <2>1. h \in [S -> T] /\ \A i, j \in S : h[i] = h[j] => i = j
    BY <1>4, <1>6
  <2>2. IsFiniteSet(T) /\ Cardinality(T) \in Nat /\ Cardinality(T) <= MaxRequests
    BY RecentTypes, FS_CardinalityType DEF BudgetInv, PastLivesKept, ServerInv
  <2> HIDE DEF S, T, h
  <2>3. h \in Injection(S, T)
    BY <2>1 DEF Injection, IsInjective
  <2>4. IsFiniteSet(S) /\ Cardinality(S) <= Cardinality(T)
    BY <2>2, <2>3, FS_Injection
  <2>5. Cardinality(S) <= MaxRequests
    BY <2>2, <2>4, FS_CardinalityType
  <2> QED
    BY <2>5 DEF S
<1>8. ASSUME Up PROVE \E f : Embeds(f)'
  <2>1. PICK f : Embeds(f)
    BY <1>8 DEF ServerInv
  <2> DEFINE Own == OfLife(lives)'
             g == [i \in Own |-> f[k + i]]
  <2>2. \A i \in Own : /\ i \in Nat /\ i \in DOMAIN recent'
                       /\ k + i \in OfLife(lives) /\ g[i] = f[k + i] /\ recent'[i] = recent[k + i]
    <3>1. \A i \in Own : i \in DOMAIN recent'
      BY DEF OfLife
    <3>2. \A i \in Own : k + i \in OfLife(lives) /\ i \in Nat
      BY <1>2, <1>6
    <3> QED
      BY <1>4, <3>1, <3>2
  <2>3. g \in [Own -> 1..Sends]
    BY <2>1, <2>2 DEF Embeds
  <2>4. \A i, j \in Own : g[i] = g[j] => i = j
    <3> SUFFICES ASSUME NEW i \in Own, NEW j \in Own, g[i] = g[j] PROVE i = j
      OBVIOUS
    <3>1. k + i = k + j
      BY <2>1, <2>2 DEF Embeds
    <3> QED
      BY <1>4, <2>2, <3>1
  <2>5. \A i \in Own : /\ recent'[i].at = SendOf[g[i]]
                       /\ g[i] = Len(calls) + 1 => i = Len(recent')
    <3> SUFFICES ASSUME NEW i \in Own
                 PROVE  /\ recent'[i].at = SendOf[g[i]]
                        /\ g[i] = Len(calls) + 1 => i = Len(recent')
      OBVIOUS
    <3>1. recent[k + i].at = SendOf[f[k + i]]
      BY <2>1, <2>2 DEF Embeds
    <3>2. f[k + i] = Len(calls) + 1 => k + i = Len(recent)
      BY <2>1, <2>2 DEF Embeds
    <3> QED
      BY <1>1, <1>4, <2>2, <3>1, <3>2
  <2> HIDE DEF g
  <2>6. PICK h : h = g
    OBVIOUS
  <2>7. Embeds(h)'
    BY <1>2, <2>3, <2>4, <2>5, <2>6 DEF Embeds
  <2> QED
    BY <2>7
<1> QED
  BY <1>2, <1>5, <1>7, <1>8 DEF ServerInv

\* A life that ends leaves no more than the budget behind.
LEMMA LifeEnds ==
  ASSUME BudgetInv, ServerInv, Exit \/ Crash
  PROVE  ServerInv'
<1>1. Up /\ ~Up' /\ UNCHANGED <<now, recent, lives>>
  BY DEF Exit, Crash, Up, history
<1>2. Len(calls') \in Nat /\ (calls' = calls \/ Len(calls') = 0)
  BY CallTypes, EmptySeq DEF Exit, Crash, Fresh, BudgetInv
<1>3. WindowSane'
  BY <1>1, <1>2 DEF WindowSane, ServerInv
<1>4. PICK f : Embeds(f)
  BY <1>1 DEF ServerInv
<1>5. Cardinality(OfLife(lives)) <= MaxRequests
  BY <1>4, EmbeddedBudget DEF ServerInv
<1>6. \A l : OfLife(l)' = OfLife(l)
  BY <1>1 DEF OfLife
<1> QED
  BY <1>1, <1>3, <1>5, <1>6 DEF ServerInv, PastLivesKept

\* A new life has sent nothing yet.
LEMMA LifeStarts ==
  ASSUME BudgetInv, ServerInv, Start
  PROVE  ServerInv'
<1>1. ~Up /\ lives' = lives + 1 /\ calls' = <<>> /\ UNCHANGED <<now, recent>>
  BY DEF Start, Fresh, Up
<1>2. lives \in Nat /\ Len(calls') = 0
      /\ Len(recent) \in Nat /\ DOMAIN recent = 1..Len(recent)
      /\ \A i \in 1..Len(recent) : recent[i].life \in Nat
  BY <1>1, RecentTypes, EmptySeq DEF BudgetInv
<1>3. WindowSane'
  BY <1>1, <1>2 DEF WindowSane, ServerInv
<1>4. \A l : OfLife(l)' = OfLife(l)
  BY <1>1 DEF OfLife
<1>5. OfLife(lives + 1) = {}
  BY <1>2 DEF OfLife, WindowSane, ServerInv
<1>6. PastLivesKept'
  <2> SUFFICES ASSUME NEW l \in Nat, l < lives + 1 \/ (l = lives + 1 /\ ~Up')
               PROVE  Cardinality(OfLife(l)) <= MaxRequests
    BY <1>1, <1>4 DEF PastLivesKept
  <2>1. Up'
    BY DEF Start, Up
  <2>2. l < lives \/ l = lives
    BY <1>2, <2>1
  <2> QED
    BY <1>1, <2>2 DEF PastLivesKept, ServerInv
<1>7. Embeds([i \in {} |-> 1])'
  BY <1>1, <1>4, <1>5 DEF Embeds
<1> QED
  BY <1>3, <1>6, <1>7 DEF ServerInv

LEMMA InitServer == Init => ServerInv
<1> SUFFICES ASSUME Init PROVE ServerInv
  OBVIOUS
<1>1. Len(recent) = 0 /\ Len(calls) = 0 /\ recent = <<>> /\ ~Up /\ lives = 0
  BY EmptySeq DEF Init, Up
<1>2. \A l : OfLife(l) = {}
  BY <1>1 DEF OfLife
<1>3. Cardinality({}) = 0
  BY FS_EmptySet
<1> QED
  BY <1>1, <1>2, <1>3, ConstantTypes DEF ServerInv, WindowSane, PastLivesKept

LEMMA NextServer == BudgetInv /\ ServerInv /\ [Next]_vars => ServerInv'
<1> SUFFICES ASSUME BudgetInv, ServerInv, [Next]_vars PROVE ServerInv'
  OBVIOUS
<1>1. CASE CheckBudget \/ WakeAndSend
  <2>1. /\ pc \in {"budget", "wait"} /\ UNCHANGED <<now, calls, lives>>
        /\ Send \/ (pc' = "wait" /\ UNCHANGED <<sentAt, recent>>)
    BY <1>1 DEF CheckBudget, WakeAndSend
  <2>2. Up /\ pc # "flight"
    BY <2>1 DEF Up
  <2> QED
    BY <2>1, <2>2, SendKeeps, QuietKeeps DEF Up
<1>2. CASE Answered \/ ConnectionFailed
  <2>1. /\ pc = "flight" /\ (pc' = "feed" \/ pc' = "budget") /\ Record
        /\ UNCHANGED <<now, recent, lives, sentAt>>
    BY <1>2 DEF Answered, ConnectionFailed, history
  <2> QED
    BY <2>1, RecordKeeps
<1>3. CASE StartCycle \/ PollFeed \/ EndCycle \/ NapOver \/ Signal
  <2>1. /\ pc = "flight" <=> pc' = "flight"
        /\ Up /\ Up' /\ UNCHANGED <<now, recent, lives, calls, sentAt>>
    BY <1>3 DEF StartCycle, PollFeed, EndCycle, NapOver, Signal, history, Up
  <2> QED
    BY <2>1, QuietKeeps
<1>4. CASE UNCHANGED vars
  <2>1. UNCHANGED <<now, pc, recent, lives, calls, sentAt>>
    BY <1>4 DEF vars, code, history
  <2>2. Up' = Up /\ \A l : OfLife(l)' = OfLife(l)
    BY <2>1 DEF Up, OfLife
  <2>3. CASE Up
    BY <2>1, <2>2, <2>3, QuietKeeps
  <2>4. CASE ~Up
    BY <2>1, <2>2, <2>4 DEF ServerInv, WindowSane, PastLivesKept
  <2> QED
    BY <2>3, <2>4
<1> QED
  BY <1>1, <1>2, <1>3, <1>4, BrokenKeeps, LifeEnds, LifeStarts, TickKeeps DEF Next, Fetch, Loop

\* Of one life of the process, requests whose body broke off aside, the server
\* sees at most MaxRequests in any window, however the loop, its sleeps and
\* retries, signals, crashes and restarts fall: the hard budget of poller.py:9,
\* as far as the code keeps it.
THEOREM HardBudgetHolds == Spec => []HardBudgetOfALife
<1>1. BudgetInv /\ ServerInv => HardBudgetOfALife
  <2> SUFFICES ASSUME BudgetInv, ServerInv, NEW l \in 1..lives
               PROVE  Cardinality(OfLife(l)) <= MaxRequests
    BY DEF HardBudgetOfALife
  <2>1. lives \in Nat /\ l \in Nat /\ (l < lives \/ l = lives)
    BY RecentTypes DEF BudgetInv
  <2>2. CASE l < lives \/ ~Up
    BY <2>1, <2>2 DEF ServerInv, PastLivesKept
  <2>3. CASE l = lives /\ Up
    BY <2>3, EmbeddedBudget DEF ServerInv
  <2> QED
    BY <2>1, <2>2, <2>3
<1> QED
  BY <1>1, InitBudget, NextBudget, InitServer, NextServer, PTL DEF Spec

---------------------------------------------------------------------------
(* The cadence.                                                            *)

Fetching == pc \in {"budget", "wait", "flight"}

\* The fetches of this cycle that have ended.
Done == NFeeds - feedsLeft - (IF Fetching THEN 1 ELSE 0)

\* When the cycle of a recorded call began.
CycleOf(i) == calls[i].at - calls[i].into

\* In a life without a retry, the recorded calls before the last
\* Done + k * NFeeds belong to cycles that began k + 1 intervals ago.
CyclesApart ==
  \A i \in 1..Len(calls) :
    /\ CycleOf(i) <= cycleStart
    /\ \A k \in Nat : Len(calls) + 1 - i > Done + k * NFeeds =>
         CycleOf(i) + (k + 1) * Interval <= cycleStart

\* The loop is back at its top when the interval is over.
IntervalOver == (pc = "top" /\ ~stop) =>
  calls = <<>> \/ cycleStart + Interval <= now

CadenceInv ==
  /\ Fetching => feedsLeft < NFeeds
  /\ ~retried => CyclesApart
  /\ IntervalOver

\* Multiples of a constant, one by one.
LEMMA TimesNext ==
  ASSUME NEW a \in Nat, NEW k \in Nat
  PROVE  (k + 1) * a = k * a + a /\ k * a \in Nat
OBVIOUS

\* What the lemmas below need of the types.
LEMMA CadenceTypes ==
  ASSUME TypeOK
  PROVE  /\ NFeeds \in Nat \ {0} /\ Interval \in Nat \ {0} /\ MaxRequests \in Nat
         /\ now \in Nat /\ cycleStart \in Nat
         /\ Len(calls) \in Nat
         /\ feedsLeft \in Nat /\ feedsLeft <= NFeeds
         /\ \A i \in 1..Len(calls) :
              calls[i].at \in Nat /\ calls[i].into \in Nat /\ CycleOf(i) \in Int
<1>1. Len(calls) \in Nat
  BY LenProperties DEF TypeOK
<1>2. \A i \in 1..Len(calls) : calls[i] \in [sent: Nat, at: Nat, into: Nat]
  BY ElementOfSeq DEF TypeOK
<1>3. \A i \in 1..Len(calls) : calls[i].at \in Nat /\ calls[i].into \in Nat
  BY <1>2
<1>4. feedsLeft \in Nat /\ feedsLeft <= NFeeds
  BY BudgetAssumption DEF BudgetAssumption, TypeOK
<1>5. NFeeds \in Nat \ {0} /\ Interval \in Nat \ {0} /\ MaxRequests \in Nat
  BY BudgetAssumption DEF BudgetAssumption
<1>6. now \in Nat /\ cycleStart \in Nat
  BY DEF TypeOK
<1> QED
  BY <1>1, <1>3, <1>4, <1>5, <1>6 DEF CycleOf

\* No more fetches end in a cycle than it has feeds.
LEMMA DoneBounds ==
  ASSUME TypeOK, CadenceInv
  PROVE  Done \in Nat /\ Done <= NFeeds /\ (Fetching => Done < NFeeds)
<1>1. NFeeds \in Nat \ {0} /\ feedsLeft \in Nat /\ feedsLeft <= NFeeds
  BY CadenceTypes
<1> QED
  BY <1>1 DEF Done, CadenceInv

\* Nothing recorded: the calls stay apart while Done does not shrink.
LEMMA NothingRecorded ==
  ASSUME TypeOK, CadenceInv, UNCHANGED <<calls, cycleStart>>,
         Done' \in Nat, Done <= Done', ~retried' => ~retried
  PROVE  ~retried' => CyclesApart'
<1> SUFFICES ASSUME ~retried', NEW i \in 1..Len(calls)
             PROVE  /\ CycleOf(i)' <= cycleStart
                    /\ \A k \in Nat : Len(calls) + 1 - i > Done' + k * NFeeds =>
                         CycleOf(i)' + (k + 1) * Interval <= cycleStart
  BY DEF CyclesApart
<1>1. CyclesApart
  BY DEF CadenceInv
<1>2. CycleOf(i)' = CycleOf(i)
  BY DEF CycleOf
<1>3. ASSUME NEW k \in Nat, Len(calls) + 1 - i > Done' + k * NFeeds
      PROVE  CycleOf(i) + (k + 1) * Interval <= cycleStart
  <2>1. Done \in Nat /\ Len(calls) \in Nat /\ i \in Nat /\ k * NFeeds \in Nat
    BY DoneBounds, CadenceTypes, TimesNext
  <2>2. Len(calls) + 1 - i > Done + k * NFeeds
    BY <1>3, <2>1
  <2> QED
    BY <1>1, <2>2 DEF CyclesApart
<1> QED
  BY <1>1, <1>2, <1>3 DEF CyclesApart

\* A call is recorded when one more fetch of the cycle has ended.
LEMMA OneRecorded ==
  ASSUME TypeOK, CadenceInv, cycleStart <= now, Record, UNCHANGED cycleStart,
         Done' = Done + 1, ~retried' => ~retried
  PROVE  ~retried' => CyclesApart'
<1>1. /\ Len(calls') = Len(calls) + 1
      /\ \A i \in 1..Len(calls) : calls'[i] = calls[i]
  BY RecordType
<1>2. /\ calls'[Len(calls) + 1].at = now
      /\ calls'[Len(calls) + 1].into = now - cycleStart
  <2>1. [sent |-> sentAt, at |-> now, into |-> now - cycleStart]
          \in [sent: Nat, at: Nat, into: Nat]
    BY DEF TypeOK
  <2> QED
    BY <2>1, AppendProperties DEF TypeOK, Record
<1>3. /\ Done \in Nat /\ Len(calls) \in Nat /\ now \in Nat /\ cycleStart \in Nat
      /\ NFeeds \in Nat
  BY DoneBounds, CadenceTypes
<1> SUFFICES ASSUME ~retried', NEW i \in 1..Len(calls')
             PROVE  /\ CycleOf(i)' <= cycleStart
                    /\ \A k \in Nat : Len(calls') + 1 - i > Done' + k * NFeeds =>
                         CycleOf(i)' + (k + 1) * Interval <= cycleStart
  BY DEF CyclesApart
<1>4. CASE i = Len(calls) + 1
  <2>1. CycleOf(i)' = cycleStart
    BY <1>2, <1>3, <1>4 DEF CycleOf
  <2>2. ASSUME NEW k \in Nat PROVE ~(Len(calls') + 1 - i > Done' + k * NFeeds)
    <3>1. k * NFeeds \in Nat
      BY <1>3, TimesNext
    <3> QED
      BY <1>1, <1>3, <1>4, <3>1
  <2> QED
    BY <1>3, <2>1, <2>2
<1>5. CASE i # Len(calls) + 1
  <2>1. i \in 1..Len(calls)
    BY <1>1, <1>3, <1>5
  <2>2. CycleOf(i)' = CycleOf(i)
    BY <1>1, <2>1 DEF CycleOf
  <2>3. CyclesApart
    BY DEF CadenceInv
  <2>4. ASSUME NEW k \in Nat, Len(calls') + 1 - i > Done' + k * NFeeds
        PROVE  CycleOf(i) + (k + 1) * Interval <= cycleStart
    <3>1. k * NFeeds \in Nat
      BY <1>3, TimesNext
    <3>2. Len(calls) + 1 - i > Done + k * NFeeds
      BY <1>1, <1>3, <2>1, <2>4, <3>1
    <3> QED
      BY <2>1, <2>3, <3>2 DEF CyclesApart
  <2> QED
    BY <2>1, <2>2, <2>3, <2>4 DEF CyclesApart
<1> QED
  BY <1>4, <1>5

\* A new cycle begins an interval after the last one, which polled at most
\* NFeeds feeds.
LEMMA CycleStarted ==
  ASSUME TypeOK, CadenceInv, pc = "top", ~stop,
         UNCHANGED <<calls, retried>>, cycleStart' = now, Done' = 0
  PROVE  ~retried' => CyclesApart'
<1> SUFFICES ASSUME ~retried', NEW i \in 1..Len(calls)
             PROVE  /\ CycleOf(i)' <= now
                    /\ \A k \in Nat : Len(calls) + 1 - i > Done' + k * NFeeds =>
                         CycleOf(i)' + (k + 1) * Interval <= now
  BY DEF CyclesApart
<1>1. /\ Done \in Nat /\ Done <= NFeeds
      /\ Len(calls) \in Nat /\ now \in Nat /\ cycleStart \in Nat
      /\ NFeeds \in Nat /\ Interval \in Nat /\ CycleOf(i) \in Int
  BY DoneBounds, CadenceTypes
<1>2. cycleStart + Interval <= now
  <2>1. calls # <<>>
    BY <1>1, EmptySeq
  <2> QED
    BY <2>1 DEF CadenceInv, IntervalOver
<1>3. CyclesApart
  BY DEF CadenceInv
<1>4. CycleOf(i)' = CycleOf(i) /\ CycleOf(i) <= cycleStart
  BY <1>3 DEF CycleOf, CyclesApart
<1>5. ASSUME NEW k \in Nat, Len(calls) + 1 - i > Done' + k * NFeeds
      PROVE  CycleOf(i) + (k + 1) * Interval <= now
  <2>1. CASE k = 0
    <3>1. (k + 1) * Interval = Interval
      BY <1>1, <2>1
    <3> QED
      BY <1>1, <1>2, <1>4, <3>1
  <2>2. CASE k # 0
    <3>1. PICK j \in Nat : k = j + 1
      BY <2>2
    <3>2. /\ k * NFeeds = j * NFeeds + NFeeds /\ j * NFeeds \in Nat
          /\ (k + 1) * Interval = (j + 1) * Interval + Interval
          /\ (j + 1) * Interval \in Nat
      BY <1>1, <3>1, TimesNext
    <3>3. Len(calls) + 1 - i > Done + j * NFeeds
      BY <1>1, <1>5, <3>2
    <3>4. CycleOf(i) + (j + 1) * Interval <= cycleStart
      BY <1>3, <3>3 DEF CyclesApart
    <3> QED
      BY <1>1, <1>2, <3>2, <3>4
  <2> QED
    BY <2>1, <2>2
<1> QED
  BY <1>1, <1>2, <1>4, <1>5

\* Nothing is recorded at first.
LEMMA InitCadence == Init => CadenceInv
<1> SUFFICES ASSUME Init PROVE CadenceInv
  OBVIOUS
<1>1. calls = <<>> /\ Len(calls) = 0 /\ pc = "down"
  BY EmptySeq DEF Init
<1> QED
  BY <1>1 DEF CadenceInv, CyclesApart, IntervalOver, Fetching

\* Every step keeps the cycles apart.
LEMMA NextCadence == BudgetInv /\ CadenceInv /\ [Next]_vars => CadenceInv'
<1> SUFFICES ASSUME BudgetInv, CadenceInv, [Next]_vars PROVE CadenceInv'
  OBVIOUS
<1>1. /\ TypeOK /\ cycleStart <= now /\ now \in Nat /\ cycleStart \in Nat
      /\ Done \in Nat /\ feedsLeft \in Nat /\ feedsLeft <= NFeeds
      /\ NFeeds \in Nat \ {0} /\ Interval \in Nat /\ (Fetching => feedsLeft < NFeeds)
  BY DoneBounds, CadenceTypes DEF BudgetInv, TimesOrdered, CadenceInv
<1>2. CASE CheckBudget \/ WakeAndSend \/ PollFeed \/ BrokenBody
  <2>1. /\ UNCHANGED <<calls, cycleStart, retried>>
        /\ pc' # "top"
    BY <1>2 DEF CheckBudget, WakeAndSend, Send, PollFeed, BrokenBody, history
  <2>2. (Fetching => feedsLeft < NFeeds)' /\ Done' \in Nat /\ Done <= Done'
    <3>1. CASE CheckBudget \/ WakeAndSend
      <4>1. feedsLeft' = feedsLeft /\ Fetching /\ Fetching'
        BY <3>1 DEF CheckBudget, WakeAndSend, Send, Fetching
      <4> QED
        BY <1>1, <4>1 DEF Done
    <3>2. CASE PollFeed
      <4>1. feedsLeft > 0 /\ feedsLeft' = feedsLeft - 1 /\ ~Fetching /\ Fetching'
        BY <3>2 DEF PollFeed, Fetching
      <4> QED
        BY <1>1, <4>1 DEF Done
    <3>3. CASE BrokenBody
      <4>1. feedsLeft' = feedsLeft /\ Fetching /\ ~Fetching'
        BY <3>3 DEF BrokenBody, Fetching
      <4> QED
        BY <1>1, <4>1 DEF Done
    <3> QED
      BY <1>2, <3>1, <3>2, <3>3
  <2>3. ~retried' => CyclesApart'
    BY <1>1, <2>1, <2>2, NothingRecorded
  <2> QED
    BY <2>1, <2>2, <2>3 DEF CadenceInv, IntervalOver
<1>3. CASE Answered
  <2>1. /\ Record /\ UNCHANGED <<cycleStart, feedsLeft, retried>>
        /\ Fetching /\ ~Fetching' /\ pc' # "top"
    BY <1>3 DEF Answered, history, Fetching
  <2>2. Done' = Done + 1
    BY <1>1, <2>1 DEF Done
  <2>3. ~retried' => CyclesApart'
    BY <1>1, <2>1, <2>2, OneRecorded
  <2> QED
    BY <2>1, <2>3 DEF CadenceInv, IntervalOver
<1>4. CASE ConnectionFailed
  <2>1. retried' /\ pc' # "top" /\ UNCHANGED feedsLeft /\ Fetching
    BY <1>4 DEF ConnectionFailed, Fetching
  <2> QED
    BY <1>1, <2>1 DEF CadenceInv, IntervalOver
<1>5. CASE StartCycle
  <2>1. /\ pc = "top" /\ ~stop /\ UNCHANGED <<calls, retried>> /\ cycleStart' = now
        /\ feedsLeft' = NFeeds /\ ~Fetching' /\ pc' # "top"
    BY <1>5 DEF StartCycle, history, Fetching
  <2>2. Done' = 0
    <3>1. Done' = NFeeds - NFeeds - 0
      BY <2>1 DEF Done
    <3>2. NFeeds \in Nat
      BY <1>1
    <3> QED
      BY <3>1, <3>2
  <2>3. ~retried' => CyclesApart'
    BY <1>1, <2>1, <2>2, CycleStarted
  <2> QED
    BY <2>1, <2>3 DEF CadenceInv, IntervalOver
<1>6. CASE EndCycle \/ NapOver \/ Exit \/ Signal \/ Tick \/ UNCHANGED vars
  <2>1. UNCHANGED <<calls, cycleStart, retried, feedsLeft>> /\ Fetching' = Fetching
    BY <1>6 DEF EndCycle, NapOver, Exit, Signal, Tick, vars, code, history, Fetching
  <2>2. Done' = Done
    BY <2>1 DEF Done
  <2>3. ~retried' => CyclesApart'
    BY <1>1, <2>1, <2>2, NothingRecorded
  <2>4. IntervalOver'
    <3>1. CASE NapOver
      <4>1. UNCHANGED <<now, stop>> /\ (stop \/ now >= cycleStart + Interval)
        BY <3>1 DEF NapOver
      <4> QED
        BY <1>1, <2>1, <4>1 DEF IntervalOver
    <3>2. CASE ~NapOver
      <4>1. /\ (pc' = "top" => pc = "top") /\ (stop => stop')
            /\ now' \in Nat /\ now <= now'
        BY <1>1, <1>6, <3>2 DEF EndCycle, Exit, Signal, Tick, vars, code, history
      <4>2. IntervalOver
        BY DEF CadenceInv
      <4> QED
        BY <1>1, <2>1, <4>1, <4>2 DEF IntervalOver
    <3> QED
      BY <3>1, <3>2
  <2> QED
    BY <1>1, <2>1, <2>3, <2>4 DEF CadenceInv
<1>7. CASE Crash \/ Start
  <2>1. calls' = <<>> /\ pc' \in {"down", "top"}
    BY <1>7 DEF Crash, Start, Fresh
  <2>2. Len(calls') = 0
    BY <2>1, EmptySeq
  <2> QED
    BY <2>1, <2>2 DEF CadenceInv, CyclesApart, IntervalOver, Fetching
<1> QED
  BY <1>2, <1>3, <1>4, <1>5, <1>6, <1>7 DEF Next, Fetch, Loop

\* The deque a sleeper waits for spans MaxRequests \div NFeeds whole cycles.
LEMMA SleepBounded == BudgetInv /\ CadenceInv => AdmittedCadenceNotStalled
<1> SUFFICES ASSUME BudgetInv, CadenceInv, pc = "wait", ~retried
             PROVE  wake + (MaxRequests \div NFeeds) * Interval
                      <= now + Window + Slack + calls[head].into
  BY DEF AdmittedCadenceNotStalled
<1> DEFINE q == MaxRequests \div NFeeds
<1>1. /\ Len(calls) + 1 - head = MaxRequests
      /\ wake = calls[head].at + Window + Slack
  BY DEF BudgetInv, DequeBounded, Deque
<1>2. /\ TypeOK /\ cycleStart <= now /\ Fetching /\ CyclesApart
  BY DEF BudgetInv, TimesOrdered, CadenceInv, Fetching
<1>3. /\ Done \in Nat /\ Done < NFeeds
      /\ Len(calls) \in Nat /\ now \in Nat /\ cycleStart \in Nat
      /\ NFeeds \in Nat \ {0} /\ Interval \in Nat /\ MaxRequests \in Nat \ {0}
      /\ Window \in Nat /\ Slack \in Nat /\ head \in Nat \ {0}
  BY <1>2, DoneBounds, CadenceTypes, ConstantTypes DEF TypeOK
<1>4. /\ head \in 1..Len(calls) /\ calls[head].at \in Nat /\ calls[head].into \in Nat
      /\ CycleOf(head) \in Int
  <2>1. head \in 1..Len(calls)
    BY <1>1, <1>3
  <2> QED
    BY <1>2, <2>1, CadenceTypes
<1>5. q \in Nat /\ q * NFeeds <= MaxRequests
  BY <1>3
<1>6. CycleOf(head) + q * Interval <= now
  <2>1. CASE q = 0
    <3>1. q * Interval = 0 /\ CycleOf(head) <= cycleStart
      BY <1>2, <1>3, <1>4, <2>1 DEF CyclesApart
    <3> QED
      BY <1>2, <1>3, <1>4, <3>1
  <2>2. CASE q # 0
    <3> HIDE DEF q
    <3>1. PICK j \in Nat : q = j + 1
      BY <1>5, <2>2
    <3>2. q * NFeeds = j * NFeeds + NFeeds /\ j * NFeeds \in Nat /\ q * Interval \in Nat
      BY <1>3, <1>5, <3>1, TimesNext
    <3>3. Len(calls) + 1 - head > Done + j * NFeeds
      BY <1>1, <1>3, <1>5, <3>2
    <3>4. CycleOf(head) + q * Interval <= cycleStart
      BY <1>2, <1>4, <3>1, <3>3 DEF CyclesApart
    <3> QED
      BY <1>2, <1>3, <1>4, <3>2, <3>4
  <2> QED
    BY <2>1, <2>2
<1>7. q * Interval \in Nat
  BY <1>3, <1>5, TimesNext
<1> HIDE DEF q
<1>8. wake + q * Interval <= now + Window + Slack + calls[head].into
  <2>1. ASSUME NEW at \in Nat, NEW into \in Nat, NEW n \in Nat, at - into + n <= now
        PROVE  at + Window + Slack + n <= now + Window + Slack + into
    BY <1>3, <2>1
  <2>2. calls[head].at - calls[head].into + q * Interval <= now
    BY <1>6 DEF CycleOf
  <2> QED
    BY <1>1, <1>4, <1>7, <2>1, <2>2
<1> QED
  BY <1>8 DEF q

\* In a life without a retry a budget sleep never costs more than the call it
\* waits for took in its own cycle, plus the slack and what is left of the window
\* when the limit is no multiple of the feeds: whatever the feeds, the limit, the
\* window and the interval, the limiter does not stall the loop by itself.
THEOREM CadenceHolds == Spec => []AdmittedCadenceNotStalled
BY InitBudget, NextBudget, InitCadence, NextCadence, SleepBounded, PTL DEF Spec

---------------------------------------------------------------------------
(* Stopping.                                                               *)

\* A signalled process has sent no more than the fetch in progress allows.
StopCounted ==
  /\ ~stop => afterStop = 0
  /\ pc \in {"budget", "wait"} => afterStop < attempt
  /\ pc = "flight" => afterStop <= attempt
  /\ afterStop <= 2

\* The initial state satisfies it.
LEMMA InitStop == Init => TypeOK /\ cycleStart <= now /\ StopCounted
<1>1. Init => StopCounted
  BY DEF Init, StopCounted
<1>2. QED
  BY <1>1, InitTypeOK

\* A feed is only begun, with its two attempts ahead, before the flag is up.
LEMMA NextStop ==
  ASSUME TypeOK, cycleStart <= now, StopCounted, [Next]_vars
  PROVE  StopCounted'
<1>0. stop \in BOOLEAN /\ attempt \in 1..2 /\ afterStop \in Nat
  BY DEF TypeOK
<1>1. CASE CheckBudget
  <2>1. pc = "budget" /\ UNCHANGED <<stop, attempt>>
    BY <1>1 DEF CheckBudget
  <2>2. CASE pc' = "flight" /\ afterStop' = IF stop THEN afterStop + 1 ELSE afterStop
    BY <1>0, <2>1, <2>2 DEF StopCounted
  <2>3. CASE pc' = "wait" /\ afterStop' = afterStop
    BY <1>0, <2>1, <2>3 DEF StopCounted
  <2>4. QED
    BY <1>1, <2>2, <2>3 DEF CheckBudget, Send
<1>2. CASE WakeAndSend
  BY <1>0, <1>2 DEF WakeAndSend, Send, StopCounted
<1>3. CASE Answered \/ BrokenBody
  BY <1>0, <1>3 DEF Answered, BrokenBody, history, StopCounted
<1>4. CASE ConnectionFailed
  BY <1>0, <1>4 DEF ConnectionFailed, StopCounted
<1>5. CASE PollFeed
  BY <1>0, <1>5 DEF PollFeed, history, StopCounted
<1>6. CASE StartCycle \/ EndCycle \/ NapOver \/ Exit
  BY <1>0, <1>6 DEF StartCycle, EndCycle, NapOver, Exit, history, StopCounted
<1>7. CASE Signal
  BY <1>0, <1>7 DEF Signal, history, StopCounted
<1>8. CASE Crash \/ Start
  <2>1. ~stop' /\ afterStop' = 0 /\ pc' \in {"down", "top"}
    BY <1>8 DEF Crash, Start, Fresh
  <2>2. QED
    BY <2>1 DEF StopCounted
<1>9. CASE Tick \/ UNCHANGED vars
  BY <1>9 DEF Tick, vars, code, history, StopCounted
<1>10. QED
  BY <1>1, <1>2, <1>3, <1>4, <1>5, <1>6, <1>7, <1>8, <1>9 DEF Next, Fetch, Loop

\* After a stop signal the poll in progress may send an attempt and its retry,
\* and nothing more (the flag tests of run_forever).
THEOREM StopHolds == Spec => []StopBoundsRequests
<1>1. Init => TypeOK /\ cycleStart <= now /\ StopCounted
  BY InitStop
<1>2. TypeOK /\ cycleStart <= now /\ StopCounted /\ [Next]_vars
        => TypeOK' /\ (cycleStart <= now)' /\ StopCounted'
  BY NextTypeOK, NextStop
<1>3. StopCounted => StopBoundsRequests
  BY DEF StopCounted, StopBoundsRequests
<1>4. QED
  BY <1>1, <1>2, <1>3, PTL DEF Spec
=========================================================================
