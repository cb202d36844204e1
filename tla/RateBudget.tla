---------------------------- MODULE RateBudget ----------------------------
(***************************************************************************)
(* The poller's client-side rate limiter and everything that spends from   *)
(* it: RateBudget (a deque of call times), Poller.fetch (wait, send,       *)
(* record, one retry of a dead connection), the pacing loop of run_forever *)
(* with its stop flag, and a crash or a restart of the process, which      *)
(* forgets the deque.                                                      *)
(*                                                                         *)
(* Time is counted in half-second ticks, so the 0.5 s that wait_time adds  *)
(* is one tick.  What a payload holds, and what poll_once does with it, is *)
(* left out: here a fetch only takes time and spends budget.               *)
(***************************************************************************)
EXTENDS Naturals, Sequences, FiniteSets

CONSTANTS
  NFeeds,       \* feeds polled in turn, once per cycle
  MaxRequests,  \* max_requests of the budget
  Window,       \* window_s of the budget, in ticks
  Slack,        \* the margin wait_time adds, in ticks
  Interval,     \* poll_interval_s, in ticks
  Horizon,      \* bound: no new cycle, and no idle time, after this tick
  MaxLives,     \* bound: how often the process is started
  MaxBroken     \* bound: how many responses break off in mid-body

\* main() refuses a cadence whose requests per window exceed the limit.
ASSUME BudgetAssumption ==
  /\ NFeeds \in Nat \ {0}
  /\ MaxRequests \in Nat \ {0}
  /\ Window \in Nat \ {0}
  /\ Slack \in Nat \ {0}
  /\ Interval \in Nat \ {0}
  /\ Window * NFeeds <= MaxRequests * Interval
  /\ Horizon \in Nat
  /\ MaxLives \in Nat
  /\ MaxBroken \in Nat

VARIABLES
  now,         \* the wall clock
  pc,          \* where the process is
  feedsLeft,   \* feeds still to poll in this cycle
  cycleStart,  \* when this cycle began
  attempt,     \* attempt of the fetch in progress
  wake,        \* when the budget sleep ends
  calls,       \* the calls recorded in this life, of which the deque holds the last
  head,        \* index in calls of the deque's leftmost entry
  sentAt,      \* when the request in flight was sent
  stop         \* the stop flag the signal handler sets

\* History: what the 511 server has seen, and what the bounds count.
VARIABLES
  recent,      \* the requests, of all lives, sent less than a window ago
  afterStop,   \* requests of this life sent after its stop flag was set
  retried,     \* a connection failed in this life
  lives,       \* starts of the process
  broken       \* responses that broke off

\* Requests of a later life are not known to the deque of an earlier one, and
\* one whose body broke off is in no deque.
Request == [at : Nat, life : 0..MaxLives, broke : BOOLEAN]

code == <<pc, feedsLeft, cycleStart, attempt, wake, calls, head, sentAt, stop>>
history == <<recent, afterStop, retried, lives, broken>>
vars == <<now, code, history>>

\* down: crashed or not started; top: the while test of run_forever;
\* feed: the for loop; budget: wait_time; wait: sleeping for the budget;
\* flight: session.get; nap: the rest of the interval; stopped: exited 0.
PC == {"down", "top", "feed", "budget", "wait", "flight", "nap", "stopped"}

Up == pc \notin {"down", "stopped"}

TypeOK ==
  /\ now \in Nat
  /\ pc \in PC
  /\ feedsLeft \in 0..NFeeds
  /\ cycleStart \in Nat
  /\ attempt \in 1..2
  /\ wake \in Nat
  /\ calls \in Seq([sent: Nat, at: Nat, into: Nat])
  /\ head \in Nat \ {0}
  /\ sentAt \in Nat
  /\ stop \in BOOLEAN
  /\ recent \in Seq(Request)
  /\ afterStop \in Nat
  /\ retried \in BOOLEAN
  /\ lives \in 0..MaxLives
  /\ broken \in 0..MaxBroken

Init ==
  /\ now = 0
  /\ pc = "down"
  /\ feedsLeft = 0
  /\ cycleStart = 0
  /\ attempt = 1
  /\ wake = 0
  /\ calls = <<>>
  /\ head = 1
  /\ sentAt = 0
  /\ stop = FALSE
  /\ recent = <<>>
  /\ afterStop = 0
  /\ retried = FALSE
  /\ lives = 0
  /\ broken = 0

---------------------------------------------------------------------------
(* The deque.                                                              *)

\* Broken: a call leaves the window one instant early.
ExpiredAtWindow(i, t) == t - calls[i].at >= Window

Expired(i, t) == t - calls[i].at > Window

\* _prune pops from the left until an entry is inside the window.
IsPruned(h, t) ==
  /\ h \in head..(Len(calls) + 1)
  /\ \A i \in head..(h - 1) : Expired(i, t)
  /\ h <= Len(calls) => ~Expired(h, t)

\* record() appends the time of the call, which session.get has by then ended.
Record ==
  calls' = Append(calls, [sent |-> sentAt, at |-> now, into |-> now - cycleStart])

---------------------------------------------------------------------------
(* One fetch.                                                              *)

\* session.get puts the request on the wire.
Send ==
  /\ pc' = "flight"
  /\ sentAt' = now
  /\ recent' = Append(recent, [at |-> now, life |-> lives, broke |-> FALSE])
  /\ afterStop' = IF stop THEN afterStop + 1 ELSE afterStop

\* wait_time(), then either straight to session.get or to sleep.
CheckBudget ==
  /\ pc = "budget"
  /\ \E h \in 1..(Len(calls) + 1) :
       /\ IsPruned(h, now)
       /\ head' = h
       /\ IF Len(calls) + 1 - h < MaxRequests
            THEN Send /\ UNCHANGED wake
            ELSE /\ pc' = "wait"
                 /\ wake' = calls[h].at + Window + Slack
                 /\ UNCHANGED <<sentAt, recent, afterStop>>
  /\ UNCHANGED <<now, feedsLeft, cycleStart, attempt, calls, stop,
                 retried, lives, broken>>

\* time.sleep(wait) returns and the request goes out; the budget is not
\* looked at again.
WakeAndSend ==
  /\ pc = "wait"
  /\ now >= wake
  /\ Send
  /\ UNCHANGED <<now, feedsLeft, cycleStart, attempt, wake, calls, head, stop,
                 retried, lives, broken>>

\* session.get returns: the call is recorded, then raise_for_status either
\* raises (an HTTP error is not retried) or the content is handed over.
Answered ==
  /\ pc = "flight"
  /\ Record
  /\ pc' = "feed"
  /\ UNCHANGED <<now, feedsLeft, cycleStart, attempt, wake, head, sentAt, stop,
                 history>>

\* Broken: only calls that were answered are recorded.
ConnectionFailedForFree ==
  /\ pc = "flight"
  /\ IF attempt = 1
       THEN attempt' = 2 /\ pc' = "budget"
       ELSE pc' = "feed" /\ UNCHANGED attempt
  /\ retried' = TRUE
  /\ UNCHANGED <<now, feedsLeft, cycleStart, wake, calls, head, sentAt, stop, recent,
                 afterStop, lives, broken>>

\* ConnectionError or Timeout: recorded, and the first one is retried on a
\* new session.
ConnectionFailed ==
  /\ pc = "flight"
  /\ Record
  /\ IF attempt = 1
       THEN attempt' = 2 /\ pc' = "budget"
       ELSE pc' = "feed" /\ UNCHANGED attempt
  /\ retried' = TRUE
  /\ UNCHANGED <<now, feedsLeft, cycleStart, wake, head, sentAt, stop, recent,
                 afterStop, lives, broken>>

\* Any other RequestException out of session.get (a body that breaks off is a
\* ChunkedEncodingError) passes the except clause of fetch by: no record().
BrokenBody ==
  /\ pc = "flight"
  /\ broken < MaxBroken
  /\ broken' = broken + 1
  /\ pc' = "feed"
  /\ recent' = [i \in DOMAIN recent |->
                  IF i = Len(recent) THEN [recent[i] EXCEPT !.broke = TRUE] ELSE recent[i]]
  /\ UNCHANGED <<now, feedsLeft, cycleStart, attempt, wake, calls, head, sentAt,
                 stop, afterStop, retried, lives>>

---------------------------------------------------------------------------
(* The pacing loop.                                                        *)

StartCycle ==
  /\ pc = "top"
  /\ ~stop
  /\ now <= Horizon
  /\ pc' = "feed"
  /\ feedsLeft' = NFeeds
  /\ cycleStart' = now
  /\ UNCHANGED <<now, attempt, wake, calls, head, sentAt, stop, history>>

\* Broken: the flag is only looked at between cycles.
PollFeedRegardless ==
  /\ pc = "feed"
  /\ feedsLeft > 0
  /\ feedsLeft' = feedsLeft - 1
  /\ attempt' = 1
  /\ pc' = "budget"
  /\ UNCHANGED <<now, cycleStart, wake, calls, head, sentAt, stop, history>>

\* The next feed of the cycle, unless the flag is up.
PollFeed ==
  /\ pc = "feed"
  /\ ~stop
  /\ feedsLeft > 0
  /\ feedsLeft' = feedsLeft - 1
  /\ attempt' = 1
  /\ pc' = "budget"
  /\ UNCHANGED <<now, cycleStart, wake, calls, head, sentAt, stop, history>>

\* Broken: the flag stops new polls, and the loop waits for them.
EndCycleWhenDone ==
  /\ pc = "feed"
  /\ feedsLeft = 0
  /\ pc' = "nap"
  /\ UNCHANGED <<now, feedsLeft, cycleStart, attempt, wake, calls, head, sentAt,
                 stop, history>>

EndCycle ==
  /\ pc = "feed"
  /\ stop \/ feedsLeft = 0
  /\ pc' = "nap"
  /\ UNCHANGED <<now, feedsLeft, cycleStart, attempt, wake, calls, head, sentAt,
                 stop, history>>

\* Broken: the last slice of the interval is not slept.
NapCutShort ==
  /\ pc = "nap"
  /\ stop \/ now + 1 >= cycleStart + Interval
  /\ pc' = "top"
  /\ UNCHANGED <<now, feedsLeft, cycleStart, attempt, wake, calls, head, sentAt,
                 stop, history>>

\* The sleep in one-second slices ends when the interval is over or the flag
\* is seen.
NapOver ==
  /\ pc = "nap"
  /\ stop \/ now >= cycleStart + Interval
  /\ pc' = "top"
  /\ UNCHANGED <<now, feedsLeft, cycleStart, attempt, wake, calls, head, sentAt,
                 stop, history>>

Exit ==
  /\ pc = "top"
  /\ stop
  /\ pc' = "stopped"
  /\ UNCHANGED <<now, feedsLeft, cycleStart, attempt, wake, calls, head, sentAt,
                 stop, history>>

---------------------------------------------------------------------------
(* Around the process.                                                     *)

\* SIGINT or SIGTERM.  A sleep in progress goes on (PEP 475).
Signal ==
  /\ Up
  /\ ~stop
  /\ stop' = TRUE
  /\ UNCHANGED <<now, pc, feedsLeft, cycleStart, attempt, wake, calls, head,
                 sentAt, history>>

\* What a process starts with: a new RateBudget with an empty deque, no stop
\* flag.  Everything here is in memory only.
Fresh ==
  /\ feedsLeft' = 0
  /\ cycleStart' = 0
  /\ attempt' = 1
  /\ wake' = 0
  /\ calls' = <<>>
  /\ head' = 1
  /\ sentAt' = 0
  /\ stop' = FALSE
  /\ afterStop' = 0
  /\ retried' = FALSE

\* A kill, or an exception nothing catches (a full disk in write_raw).
Crash ==
  /\ Up
  /\ pc' = "down"
  /\ Fresh
  /\ UNCHANGED <<now, recent, lives, broken>>

Start ==
  /\ ~Up
  /\ lives < MaxLives
  /\ lives' = lives + 1
  /\ pc' = "top"
  /\ Fresh
  /\ UNCHANGED <<now, recent, broken>>

\* Time passes at any point.  After Horizon it only passes to let a budget
\* sleep end, so that the bound never keeps a sleeper asleep.
Tick ==
  /\ now < Horizon \/ (pc = "wait" /\ now < wake)
  /\ now' = now + 1
  /\ \E k \in 0..Len(recent) :  \* the first k of them leave the window
       /\ \A i \in 1..k : now + 1 - recent[i].at >= Window
       /\ k < Len(recent) => now + 1 - recent[k + 1].at < Window
       /\ recent' = SubSeq(recent, k + 1, Len(recent))
  /\ UNCHANGED <<code, afterStop, retried, lives, broken>>

Fetch == CheckBudget \/ WakeAndSend \/ Answered \/ ConnectionFailed \/ BrokenBody
Loop == StartCycle \/ PollFeed \/ EndCycle \/ NapOver \/ Exit

Next == Fetch \/ Loop \/ Signal \/ Crash \/ Start \/ Tick

Spec == Init /\ [][Next]_vars

\* The process is scheduled, requests end (timeout=30 turns silence into an
\* exception) and the clock runs.  Nothing makes a signal, a crash or a start
\* happen.
FairSpec ==
  /\ Spec
  /\ WF_vars(Fetch \/ Loop)
  /\ WF_vars(Tick)

---------------------------------------------------------------------------
(* Properties.                                                             *)

\* Within one life of the process, a counted call is sent more than a whole
\* window after the MaxRequests-th counted call before it was recorded: the
\* deque of RateBudget.wait_time enforces the window exactly, retries and
\* the sleep that is never rechecked included.
CountedBudget ==
  /\ \A i \in 1..Len(calls) : i + MaxRequests <= Len(calls) =>
       calls[i + MaxRequests].sent - calls[i].at > Window
  /\ (pc = "flight" /\ Len(calls) >= MaxRequests) =>
       sentAt - calls[Len(calls) + 1 - MaxRequests].at > Window

\* "Rate limit is a hard budget, tracked and enforced client-side"
\* (poller.py:9).  The server may see more in a window: a restart forgets the
\* deque, and a body that breaks off is not recorded.  But of one life, and of
\* the rest of its requests, no window ever holds more than MaxRequests.
OfLife(l) == {i \in DOMAIN recent : recent[i].life = l /\ ~recent[i].broke}

HardBudgetOfALife == \A l \in 1..lives : Cardinality(OfLife(l)) <= MaxRequests

\* Once the stop flag is up, run_forever lets at most the poll in progress
\* finish: two more requests (an attempt and its retry), never a new feed.
StopBoundsRequests == afterStop <= 2

\* A cadence main() admits is never stalled by the limiter itself: in a life
\* without a retry, a budget sleep lasts at most the time the call it waits for
\* took in its own cycle, plus the slack (plus what is left of the window when
\* MaxRequests is no multiple of NFeeds).  Only retries make it sleep longer.
AdmittedCadenceNotStalled ==
  (pc = "wait" /\ ~retried) =>
    wake + (MaxRequests \div NFeeds) * Interval
      <= now + Window + Slack + calls[head].into

\* A stop signal is honoured: the process exits (or has crashed), however
\* long the budget sleep it is in.
StopHonoured == (stop /\ Up) ~> ~Up
===========================================================================
