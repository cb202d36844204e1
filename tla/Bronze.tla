------------------------------ MODULE Bronze ------------------------------
(***************************************************************************)
(* The raw archive and the two jobs that load it into the bronze table.    *)
(*                                                                         *)
(* The poller writes one file per poll with write_bytes: the file carries  *)
(* its final name before its bytes are all there.  The batch job           *)
(* (spark/bronze.py) lists the archive, skips the paths of its             *)
(* processed-files table, appends the failures, appends the rows and only  *)
(* then records the paths.  The streaming job (spark/bronze_stream.py)     *)
(* plans a micro-batch in its checkpoint, runs the same decode and the     *)
(* same two appends in foreachBatch, and commits the batch; a batch that   *)
(* did not commit is run again.  Both append to one table, each keeps its  *)
(* own books.  Every append is one atomic Delta commit.                    *)
(*                                                                         *)
(* The batch job's first append creates the table.  The streaming job, as  *)
(* it starts, overwrites a table it did not find with an empty one.        *)
(***************************************************************************)
EXTENDS Naturals, FiniteSets

CONSTANTS
  Content,     \* the payloads a poll may bring
  Decodable,   \* those decode() accepts
  Jobs,        \* the loaders in use, a subset of {"batch", "stream"}
  BatchLimit,  \* --limit-files of the batch job, 0 for none
  StreamLimit, \* maxFilesPerTrigger of the streaming job
  TornReads,   \* may a file be read, or left by a crash, half written?
  MaxPolls,    \* bound: polls archived
  MaxCrashes   \* bound: crashes of the loaders

ASSUME BronzeAssumption ==
  /\ Content # {}
  /\ Decodable \subseteq Content
  /\ Jobs \subseteq {"batch", "stream"}
  /\ BatchLimit \in Nat
  /\ StreamLimit \in Nat \ {0}
  /\ TornReads \in BOOLEAN
  /\ MaxPolls \in Nat
  /\ MaxCrashes \in Nat

\* A file is known by the number of its poll: archive names begin with the
\* poll time, so names, ingest times and numbers have one order.
Files == 1..MaxPolls

VARIABLES
  polls,     \* files created so far: 1..polls
  content,   \* content[f]: the payload poll f brought, once it has
  whole,     \* the files whose bytes are all on disk
  writing,   \* is the poller inside write_raw for file polls?
  target,    \* does the bronze table exist?
  rows,      \* rows[f]: how often it holds the rows of f
  failed,    \* failed[f]: how often f was appended to _decode_failures
  pc,        \* pc[j]: where job j is
  plan,      \* plan[j]: the files of its run; the stream's is in its checkpoint
  bad,       \* bad[j]: those that failed to decode in this run
  done,      \* done[j]: _bronze_processed_files, or the committed batches
  crashes,   \* bound counter
  tornSeen,  \* history: files some job decoded half written
  erased     \* history: files whose rows were overwritten

archiveVars == <<polls, content, whole, writing>>
jobVars == <<pc, plan, bad, done>>
tableVars == <<target, rows, erased>>
bronzeVars == <<archiveVars, tableVars, failed, jobVars, crashes, tornSeen>>

\* The streaming job starts once and then runs batch after batch.
Phase == {"idle", "boot", "ready", "decode", "append", "record"}

BronzeTypeOK ==
  /\ polls \in 0..MaxPolls
  /\ content \in [Files -> Content]
  /\ whole \in SUBSET Files
  /\ writing \in BOOLEAN
  /\ target \in BOOLEAN
  /\ rows \in [Files -> Nat]
  /\ failed \in [Files -> Nat]
  /\ pc \in [Jobs -> Phase]
  /\ plan \in [Jobs -> SUBSET Files]
  /\ bad \in [Jobs -> SUBSET Files]
  /\ done \in [Jobs -> SUBSET Files]
  /\ crashes \in 0..MaxCrashes
  /\ tornSeen \in SUBSET Files
  /\ erased \in SUBSET Files

BronzeInit ==
  /\ polls = 0
  /\ content = [f \in Files |-> CHOOSE c \in Content : TRUE]
  /\ whole = {}
  /\ writing = FALSE
  /\ target = FALSE
  /\ rows = [f \in Files |-> 0]
  /\ failed = [f \in Files |-> 0]
  /\ pc = [j \in Jobs |-> "idle"]
  /\ plan = [j \in Jobs |-> {}]
  /\ bad = [j \in Jobs |-> {}]
  /\ done = [j \in Jobs |-> {}]
  /\ crashes = 0
  /\ tornSeen = {} /\ erased = {}

---------------------------------------------------------------------------
(* The archive.                                                            *)

\* write_raw creates the file under its final name, before decode is tried.
BeginArchive(c) ==
  /\ ~writing
  /\ polls < MaxPolls
  /\ polls' = polls + 1
  /\ content' = [content EXCEPT ![polls + 1] = c]
  /\ IF TornReads
       THEN writing' = TRUE /\ UNCHANGED whole
       ELSE whole' = whole \union {polls + 1} /\ UNCHANGED writing
  /\ UNCHANGED <<tableVars, failed, jobVars, crashes, tornSeen>>

FinishArchive ==
  /\ writing
  /\ writing' = FALSE
  /\ whole' = whole \union {polls}
  /\ UNCHANGED <<polls, content, tableVars, failed, jobVars, crashes, tornSeen>>

\* The poller dies inside write_bytes: the file stays half written for good.
PollerCrash ==
  /\ writing
  /\ writing' = FALSE
  /\ UNCHANGED <<polls, content, whole, tableVars, failed, jobVars, crashes, tornSeen>>

---------------------------------------------------------------------------
(* What the two jobs share.                                                *)

\* Broken: the books are not consulted.
UnseenIgnoringBooks(j) == 1..polls

Unseen(j) == (1..polls) \ done[j]

\* _decode_partition over the plan, and the append of its failures.  A half
\* written file is an error, except that one still empty decodes to no rows.
Decode(j) ==
  /\ pc[j] = "decode"
  /\ \E empty \in SUBSET (plan[j] \ whole) :
       LET torn == plan[j] \ whole
           garbage == {f \in plan[j] \cap whole : content[f] \notin Decodable}
           errors == (torn \ empty) \union garbage
       IN /\ bad' = [bad EXCEPT ![j] = torn \union garbage]
          /\ failed' = [f \in Files |-> IF f \in errors THEN failed[f] + 1 ELSE failed[f]]
          /\ tornSeen' = tornSeen \union torn
  /\ pc' = [pc EXCEPT ![j] = "append"]
  /\ UNCHANGED <<archiveVars, tableVars, plan, done, crashes>>

\* The append of the decoded rows, if any, to bronze/<feed>, which it creates.
AppendRows(j) ==
  /\ pc[j] = "append"
  /\ target' = TRUE
  /\ rows' = [f \in Files |-> IF f \in plan[j] \ bad[j] THEN rows[f] + 1 ELSE rows[f]]
  /\ pc' = [pc EXCEPT ![j] = "record"]
  /\ UNCHANGED <<archiveVars, erased, failed, plan, bad, done, crashes, tornSeen>>

\* The batch job ends with its run, the streaming job waits for files.
Rest(j) == IF j = "stream" THEN "ready" ELSE "idle"

\* Broken: a run with a decode failure is not recorded.
RecordIfClean(j) ==
  /\ pc[j] = "record"
  /\ bad[j] = {}
  /\ done' = [done EXCEPT ![j] = @ \union plan[j]]
  /\ plan' = [plan EXCEPT ![j] = {}]
  /\ bad' = [bad EXCEPT ![j] = {}]
  /\ pc' = [pc EXCEPT ![j] = Rest(j)]
  /\ UNCHANGED <<archiveVars, tableVars, failed, crashes, tornSeen>>

\* The last step: the paths, or the batch, count as consumed.
Record(j) ==
  /\ pc[j] = "record"
  /\ done' = [done EXCEPT ![j] = @ \union plan[j]]
  /\ plan' = [plan EXCEPT ![j] = {}]
  /\ bad' = [bad EXCEPT ![j] = {}]
  /\ pc' = [pc EXCEPT ![j] = Rest(j)]
  /\ UNCHANGED <<archiveVars, tableVars, failed, crashes, tornSeen>>

---------------------------------------------------------------------------
(* The batch job.                                                          *)

\* List, drop what is processed, apply --limit-files.  Nothing new: no run.
BatchList ==
  /\ "batch" \in Jobs
  /\ pc["batch"] = "idle"
  /\ \E S \in (SUBSET Unseen("batch")) \ {{}} :
       /\ \/ S = Unseen("batch") /\ (BatchLimit = 0 \/ Cardinality(S) <= BatchLimit)
          \/ BatchLimit > 0 /\ Cardinality(S) = BatchLimit
       /\ plan' = [plan EXCEPT !["batch"] = S]
  /\ pc' = [pc EXCEPT !["batch"] = "decode"]
  /\ UNCHANGED <<archiveVars, tableVars, failed, bad, done, crashes, tornSeen>>

BatchDecode == "batch" \in Jobs /\ Decode("batch")
BatchAppend == "batch" \in Jobs /\ AppendRows("batch")
BatchRecord == "batch" \in Jobs /\ Record("batch")

\* The job dies: nothing of its run is remembered.
BatchCrash ==
  /\ "batch" \in Jobs
  /\ pc["batch"] # "idle"
  /\ crashes < MaxCrashes
  /\ crashes' = crashes + 1
  /\ pc' = [pc EXCEPT !["batch"] = "idle"]
  /\ plan' = [plan EXCEPT !["batch"] = {}]
  /\ bad' = [bad EXCEPT !["batch"] = {}]
  /\ UNCHANGED <<archiveVars, tableVars, failed, done, tornSeen>>

---------------------------------------------------------------------------
(* The streaming job.                                                      *)

\* Broken: the table is created whether it exists or not.
StreamStartAnew ==
  /\ "stream" \in Jobs
  /\ pc["stream"] = "idle" /\ polls > 0
  /\ pc' = [pc EXCEPT !["stream"] = "boot"]
  /\ UNCHANGED <<archiveVars, tableVars, failed, plan, bad, done, crashes, tornSeen>>

\* The start, or the next one: the archive must be there, and the table is
\* looked for.
StreamStart ==
  /\ "stream" \in Jobs
  /\ pc["stream"] = "idle" /\ polls > 0
  /\ pc' = [pc EXCEPT !["stream"] = IF target THEN "ready" ELSE "boot"]
  /\ UNCHANGED <<archiveVars, tableVars, failed, plan, bad, done, crashes, tornSeen>>

\* mode("overwrite"): what the batch job appended since then is gone, its books
\* are not.
Bootstrap ==
  /\ "stream" \in Jobs
  /\ pc["stream"] = "boot"
  /\ target' = TRUE
  /\ erased' = erased \union {f \in Files : rows[f] > 0}
  /\ rows' = [f \in Files |-> 0]
  /\ pc' = [pc EXCEPT !["stream"] = "ready"]
  /\ UNCHANGED <<archiveVars, failed, plan, bad, done, crashes, tornSeen>>

\* The oldest of the files not consumed yet, at most StreamLimit of them.
Oldest(S) == {f \in S : Cardinality({e \in S : e < f}) < StreamLimit}

\* The offset log: the micro-batch is on disk before it runs.
StreamPlan ==
  /\ "stream" \in Jobs
  /\ pc["stream"] = "ready"
  /\ plan["stream"] = {}
  /\ Unseen("stream") # {}
  /\ plan' = [plan EXCEPT !["stream"] = Oldest(Unseen("stream"))]
  /\ pc' = [pc EXCEPT !["stream"] = "decode"]
  /\ UNCHANGED <<archiveVars, tableVars, failed, bad, done, crashes, tornSeen>>

\* After a restart the planned batch that did not commit runs again.
StreamReplay ==
  /\ "stream" \in Jobs
  /\ pc["stream"] = "ready"
  /\ plan["stream"] # {}
  /\ pc' = [pc EXCEPT !["stream"] = "decode"]
  /\ UNCHANGED <<archiveVars, tableVars, failed, plan, bad, done, crashes, tornSeen>>

StreamDecode == "stream" \in Jobs /\ Decode("stream")
StreamAppend == "stream" \in Jobs /\ AppendRows("stream")
StreamCommit == "stream" \in Jobs /\ Record("stream")

StreamCrash ==
  /\ "stream" \in Jobs
  /\ pc["stream"] # "idle"
  /\ crashes < MaxCrashes
  /\ crashes' = crashes + 1
  /\ pc' = [pc EXCEPT !["stream"] = "idle"]
  /\ bad' = [bad EXCEPT !["stream"] = {}]
  /\ UNCHANGED <<archiveVars, tableVars, failed, plan, done, tornSeen>>

---------------------------------------------------------------------------
Poller == (\E c \in Content : BeginArchive(c)) \/ FinishArchive \/ PollerCrash
Batch == BatchList \/ BatchDecode \/ BatchAppend \/ BatchRecord
Stream ==
  \/ StreamStart \/ Bootstrap
  \/ StreamPlan \/ StreamReplay \/ StreamDecode \/ StreamAppend \/ StreamCommit
Crash == BatchCrash \/ StreamCrash

BronzeNext == Poller \/ Batch \/ Stream \/ Crash

BronzeSpec == BronzeInit /\ [][BronzeNext]_bronzeVars

\* A loader that is running, and is started again (make, the daily schedule,
\* a continuous trigger), makes progress; crashes and polls are not promised.
BronzeFairSpec ==
  BronzeSpec /\ WF_bronzeVars(Batch) /\ WF_bronzeVars(Stream)

---------------------------------------------------------------------------
(* Properties.                                                             *)

\* What a job has consumed is accounted for, whatever crashes came between
\* the appends and the books: a decodable file has its rows in bronze, an
\* undecodable one its row in _decode_failures (_decode_partition: "counted
\* rather than silently skipped").  Files decoded half written are excepted, and,
\* for the batch job alone, those whose rows the other job's start overwrote:
\* that start never undoes what the streaming job consumed, in this life or an
\* earlier one.
ConsumedIsAccountedFor ==
  \A j \in Jobs : \A f \in done[j] \ tornSeen :
    IF content[f] \in Decodable
      THEN rows[f] >= 1 \/ (j = "batch" /\ f \in erased)
      ELSE failed[f] >= 1

\* "re-running must not re-append" (bronze.py:126), "cannot lose or duplicate
\* a poll" (bronze_stream.py:187), as far as they hold: crashes are the only
\* source of duplicates, and bronze and _decode_failures together hold a file
\* at most once per loader plus once per crash.
DuplicatesBounded ==
  \A f \in Files : rows[f] + failed[f] <= Cardinality(Jobs) + crashes

\* Every archived file is consumed by every loader in use, in the end: crashes
\* and replays delay a file, never strand it.
EverythingConsumed ==
  \A f \in Files : \A j \in Jobs : (f <= polls) ~> (f \in done[j])
===========================================================================
