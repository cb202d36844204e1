----------------------------- MODULE RawArchive -----------------------------
(***************************************************************************)
(* poll_once: fetch a payload, write it to the raw archive, decode it, and *)
(* write its rows, or the payload again into the quarantine.  The name of  *)
(* all these files is the feed, the second the poll began in, and the hash *)
(* of the payload; write_bytes truncates the file of that name, if there   *)
(* is one.                                                                 *)
(*                                                                         *)
(* Pollers that run beside each other, which the lock of run_poller.sh     *)
(* allows in the cases module Supervisor tells, write to one archive.  The *)
(* rate budget is a fetch that takes long, as a time-out is.               *)
(***************************************************************************)
EXTENDS Integers, Sequences, FiniteSets

CONSTANTS
  Pollers,   \* processes, each started again by its supervisor
  Feeds,     \* --feeds, in the order they are polled
  Payloads,  \* what 511 may serve; the hash tells them apart
  NoPayload, \* no poll, or one that has fetched nothing yet
  Decodable, \* those decode() accepts
  Second,    \* ticks of the clock to a second
  Interval,  \* --interval, in ticks
  Backoff,   \* what a supervisor waits before it starts a poller again
  Horizon,   \* bound: the last instant
  MaxPolls,  \* bound: polls begun
  MaxDeaths  \* bound: processes that die

ASSUME RawArchiveAssumption ==
  /\ Feeds \in Seq(STRING) /\ Feeds # <<>>
  /\ Decodable \subseteq Payloads /\ NoPayload \notin Payloads
  /\ Second \in Nat \ {0}
  /\ Interval \in Nat /\ Interval >= Second
  /\ Backoff \in Nat /\ Backoff >= Second
  /\ Horizon \in Nat /\ MaxPolls \in Nat /\ MaxDeaths \in Nat

Tiers == {"raw", "decoded", "quarantine", "error"}

Names == [feed : STRING, second : Int, sha : Payloads]
Files == [tier : Tiers, name : Names]

VARIABLES
  clock,   \* of the host
  stage,   \* stage[p]: down, poll, fetch, nap, or the tier it writes to
  open,    \* open[p]: write_bytes has truncated the file and not yet filled it
  turn,    \* turn[p]: the feed it is at
  since,   \* since[p]: when its cycle began, or when it died
  stamp,   \* stamp[p][i]: when its latest poll of feed i began, [at, into the cycle]
  sha,     \* sha[p]: the payload of the poll
  present, \* the files there are
  whole    \* those with all their bytes

\* History.
VARIABLES
  polls, deaths,
  deserted  \* names of polls whose process died on them

procVars == <<stage, open, turn, since, stamp, sha>>
disk == <<present, whole>>
archiveVars == <<clock, procVars, disk, polls, deaths, deserted>>

ArchiveTypeOK ==
  /\ clock \in 0..Horizon
  /\ stage \in [Pollers -> {"down", "poll", "fetch", "nap"} \union Tiers]
  /\ open \in [Pollers -> BOOLEAN]
  /\ turn \in [Pollers -> DOMAIN Feeds]
  /\ since \in [Pollers -> Int]
  /\ stamp \in [Pollers -> [DOMAIN Feeds -> [at : Int, into : Int]]]
  /\ sha \in [Pollers -> Payloads \union {NoPayload}]
  /\ present \subseteq Files /\ whole \subseteq present
  /\ polls \in 0..MaxPolls /\ deaths \in 0..MaxDeaths
  /\ deserted \subseteq Names

\* Nobody has polled, and whoever starts need not wait.
ArchiveInit ==
  /\ clock = 0
  /\ stage = [p \in Pollers |-> "down"]
  /\ open = [p \in Pollers |-> FALSE]
  /\ turn = [p \in Pollers |-> 1]
  /\ since = [p \in Pollers |-> -Backoff]
  /\ stamp = [p \in Pollers |-> [i \in DOMAIN Feeds |-> [at |-> -Backoff, into |-> 0]]]
  /\ sha = [p \in Pollers |-> NoPayload]
  /\ present = {} /\ whole = {}
  /\ polls = 0 /\ deaths = 0 /\ deserted = {}

ArchiveTick ==
  /\ clock < Horizon
  /\ clock' = clock + 1
  /\ UNCHANGED <<procVars, disk, polls, deaths, deserted>>

GoTo(p, l) == stage' = [stage EXCEPT ![p] = l]

---------------------------------------------------------------------------
(* The loop.                                                               *)

\* A poll ends, and with the last feed's the cycle.
NextFeed(p) ==
  /\ sha' = [sha EXCEPT ![p] = NoPayload]
  /\ IF turn[p] < Len(Feeds)
       THEN GoTo(p, "poll") /\ turn' = [turn EXCEPT ![p] = turn[p] + 1]
       ELSE GoTo(p, "nap") /\ turn' = [turn EXCEPT ![p] = 1]

BeginCycle(p) ==
  /\ GoTo(p, "poll")
  /\ since' = [since EXCEPT ![p] = clock]
  /\ UNCHANGED <<clock, open, turn, stamp, sha, disk, polls, deaths, deserted>>

\* Broken: the last part of a second is not slept.
NapRoundedDown(p) ==
  /\ stage[p] = "nap" /\ clock - since[p] > Interval - Second
  /\ BeginCycle(p)

\* A cycle that took longer than the interval is followed by the next at once.
Nap(p) ==
  /\ stage[p] = "nap" /\ clock - since[p] >= Interval
  /\ BeginCycle(p)

---------------------------------------------------------------------------
(* poll_once.                                                              *)

NameOf(p) ==
  [feed |-> Feeds[turn[p]], second |-> stamp[p][turn[p]].at \div Second, sha |-> sha[p]]

\* The poll is stamped before the request, and before the wait for the budget.
BeginPoll(p) ==
  /\ stage[p] = "poll" /\ polls < MaxPolls
  /\ polls' = polls + 1
  /\ stamp' = [stamp EXCEPT ![p][turn[p]] = [at |-> clock, into |-> clock - since[p]]]
  /\ GoTo(p, "fetch")
  /\ UNCHANGED <<clock, open, turn, since, sha, disk, deaths, deserted>>

FetchFails(p) ==
  /\ stage[p] = "fetch"
  /\ NextFeed(p)
  /\ UNCHANGED <<clock, open, since, stamp, disk, polls, deaths, deserted>>

\* Broken: what decodes is archived after it was decoded.
TierAfterDecoding(tier, c) ==
  CASE tier = "fetch" -> IF c \in Decodable THEN "decoded" ELSE "raw"
    [] tier = "raw" -> IF c \in Decodable THEN "end" ELSE "quarantine"
    [] tier = "quarantine" -> "error"
    [] tier = "decoded" -> "raw"
    [] OTHER -> "end"

\* Broken: what does not decode is only logged.
TierUnlessQuarantined(tier, c) ==
  CASE tier = "fetch" -> "raw"
    [] tier = "raw" -> IF c \in Decodable THEN "decoded" ELSE "end"
    [] OTHER -> "end"

\* Archive first, then the rows, or the payload with the exception's text.
TierAfter(tier, c) ==
  CASE tier = "fetch" -> "raw"
    [] tier = "raw" -> IF c \in Decodable THEN "decoded" ELSE "quarantine"
    [] tier = "quarantine" -> "error"
    [] OTHER -> "end"

Fetched(p) ==
  /\ stage[p] = "fetch"
  /\ \E c \in Payloads : /\ sha' = [sha EXCEPT ![p] = c]
                          /\ GoTo(p, TierAfter("fetch", c))
  /\ UNCHANGED <<clock, open, turn, since, stamp, disk, polls, deaths, deserted>>

FileOf(p) == [tier |-> stage[p], name |-> NameOf(p)]

\* write_bytes: open for writing ...
Open(p) ==
  /\ stage[p] \in Tiers /\ ~open[p]
  /\ open' = [open EXCEPT ![p] = TRUE]
  /\ present' = present \union {FileOf(p)}
  /\ whole' = whole \ {FileOf(p)}
  /\ UNCHANGED <<clock, stage, turn, since, stamp, sha, polls, deaths, deserted>>

\* ... write and close.  Another process that has truncated the file in between
\* leaves a hole in it, or not.
Close(p) ==
  LET other == \E q \in Pollers \ {p} : open[q] /\ FileOf(q) = FileOf(p)
      next == TierAfter(stage[p], sha[p])
  IN /\ open[p]
     /\ open' = [open EXCEPT ![p] = FALSE]
     /\ whole' \in {whole \union {FileOf(p)}} \union (IF other THEN {whole} ELSE {})
     /\ IF next = "end" THEN NextFeed(p) ELSE GoTo(p, next) /\ UNCHANGED <<turn, sha>>
     /\ UNCHANGED <<clock, since, stamp, present, polls, deaths, deserted>>

\* A kill, or a write that fails: OSError is caught nowhere.
Die(p) ==
  /\ stage[p] # "down" /\ deaths < MaxDeaths
  /\ deaths' = deaths + 1
  /\ GoTo(p, "down")
  /\ open' = [open EXCEPT ![p] = FALSE]
  /\ since' = [since EXCEPT ![p] = clock]
  /\ deserted' = IF stage[p] \in Tiers THEN deserted \union {NameOf(p)} ELSE deserted
  /\ turn' = [turn EXCEPT ![p] = 1]
  /\ sha' = [sha EXCEPT ![p] = NoPayload]
  /\ UNCHANGED <<clock, stamp, disk, polls>>

\* The supervisor starts it again, and it begins a cycle.
Restart(p) ==
  /\ stage[p] = "down" /\ clock - since[p] >= Backoff
  /\ BeginCycle(p)

ArchiveNext ==
  \/ ArchiveTick
  \/ \E p \in Pollers :
       \/ Nap(p) \/ BeginPoll(p) \/ FetchFails(p) \/ Fetched(p)
       \/ Open(p) \/ Close(p) \/ Die(p) \/ Restart(p)

ArchiveSpec == ArchiveInit /\ [][ArchiveNext]_archiveVars

---------------------------------------------------------------------------
(* Properties.                                                             *)

Has(tier, n) == [tier |-> tier, name |-> n] \in whole
Decided(n) ==
  IF n.sha \in Decodable THEN Has("decoded", n) ELSE Has("quarantine", n) /\ Has("error", n)
Busy(n) == \E p \in Pollers : stage[p] \in Tiers /\ NameOf(p) = n

\* "Archive-first, decode-second, never lose bytes" (poller.py:258): what is
\* decoded or in the quarantine has all its bytes in the raw archive, unless a
\* poller is writing that very file, once more or at last, or died on the poll.
BytesAreKept ==
  \A f \in present :
    \/ Has("raw", f.name)
    \/ \E p \in Pollers : stage[p] = "raw" /\ open[p] /\ NameOf(p) = f.name
    \/ f.name \in deserted

\* Every poll in the archive ends up decoded or in the quarantine with its
\* error, whichever it is, unless its process died on it: what profile_feed.py
\* finds in the decoded tier is all of the archive but the quarantine.
ArchivedIsDecided ==
  \A f \in present :
    f.tier = "raw" => Decided(f.name) \/ Busy(f.name) \/ f.name \in deserted

\* The name of a poll is told by its second: two polls of one feed that follow
\* each other in a process, or across its death, are in different seconds as
\* long as the first was begun a second before its cycle's interval was over.
PunctualPollsAreApart ==
  [][\A p \in Pollers : \A i \in DOMAIN Feeds :
       (stamp'[p][i] # stamp[p][i] /\ stamp[p][i].into + Second <= Interval)
       => stamp[p][i].at \div Second < stamp'[p][i].at \div Second]_archiveVars
=============================================================================
