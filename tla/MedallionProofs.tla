-------------------------- MODULE MedallionProofs --------------------------
(***************************************************************************)
(* What the loaders consume is accounted for, and duplicated by crashes    *)
(* alone, for every archive, every limit and any number of crashes; and    *)
(* gold implements ArrivalFacts: the arrival table is the earliest of what *)
(* was offered to it, for any payloads, any number of polls, both loaders, *)
(* and whatever order silver and gold read, write and die in.              *)
(***************************************************************************)
EXTENDS Medallion, FiniteSetTheorems, WellFoundedInduction, TLAPS

---------------------------------------------------------------------------
(* Bronze.                                                                 *)

\* A step names the job it is about, and no other.
Step(j) == Decode(j) \/ AppendRows(j) \/ Record(j)

\* Begin: a run of job j plans files it has not consumed, or finds its plan.
Begin(j) ==
  /\ pc[j] = Rest(j)
  /\ pc' = [pc EXCEPT ![j] = "decode"]
  /\ \E S \in SUBSET Unseen(j) : plan' = [plan EXCEPT ![j] = S]
  /\ UNCHANGED <<archiveVars, tableVars, failed, bad, done, crashes, tornSeen>>

\* Forget: job j dies, with its plan or without.
Forget(j) ==
  /\ crashes < MaxCrashes
  /\ crashes' = crashes + 1
  /\ pc' = [pc EXCEPT ![j] = "idle"]
  /\ \E S \in {plan[j], {}} : plan' = [plan EXCEPT ![j] = S]
  /\ bad' = [bad EXCEPT ![j] = {}]
  /\ UNCHANGED <<archiveVars, tableVars, failed, done, tornSeen>>

\* Inductive: a file is decoded before it is appended and appended before it is
\* recorded, by the same run, and nothing of what the run found out about the
\* file is forgotten between the two; the books of the two loaders never meet.
\* What the batch job appended may have been overwritten.
Accounted(j, f) ==
  IF content[f] \in Decodable
    THEN rows[f] >= 1 \/ (j = "batch" /\ f \in erased)
    ELSE failed[f] >= 1

Found(j, f) ==
  IF f \in bad[j]
    THEN f \in tornSeen \/ (content[f] \notin Decodable /\ failed[f] >= 1)
    ELSE content[f] \in Decodable

JobOK(j) ==
  /\ plan[j] \subseteq 1..polls
  /\ done[j] \subseteq 1..polls
  /\ plan[j] \cap done[j] = {}
  /\ pc[j] = "append" => \A f \in plan[j] : Found(j, f)
  /\ pc[j] = "record" => \A f \in plan[j] \ tornSeen : Accounted(j, f)
  /\ \A f \in done[j] \ tornSeen : Accounted(j, f)

\* Inductive: the streaming job consumes nothing before there is a table, and no
\* start of it overwrites one that it has appended to.
BootOK ==
  "stream" \in Jobs =>
    /\ pc["stream"] \in {"ready", "decode", "append", "record"} => target
    /\ ~target \/ pc["stream"] = "boot" => done["stream"] = {}

\* A file in bronze was created, and is one that decode() accepts.
RowsOK == \A f \in Files : rows[f] > 0 => f <= polls /\ content[f] \in Decodable

BronzeInv ==
  /\ BronzeTypeOK /\ (writing => polls \in Files)
  /\ RowsOK /\ BootOK
  /\ \A j \in Jobs : JobOK(j)

\* Inductive: a run is charged for a file once, when the file's failure or its
\* rows are appended; the charge passes to the books when the run is recorded,
\* and a crash, which may drop it, is counted.  No file of a run is in the books.
Charged(j, f) ==
  \/ f \in done[j]
  \/ f \in plan[j] /\ (pc[j] = "record" \/ (pc[j] = "append" /\ f \in bad[j]))

Payers(f) == {j \in Jobs : Charged(j, f)}

LedgerOK == \A f \in Files : rows[f] + failed[f] <= Cardinality(Payers(f)) + crashes

---------------------------------------------------------------------------
LEMMA BronzeInitInv == BronzeInit => BronzeInv
<1> SUFFICES ASSUME BronzeInit PROVE BronzeInv
  OBVIOUS
<1>1. (CHOOSE c \in Content : TRUE) \in Content
  BY BronzeAssumption
<1>2. BronzeTypeOK
  <2>1. polls \in 0..MaxPolls /\ crashes \in 0..MaxCrashes
    BY BronzeAssumption DEF BronzeInit
  <2>2. content \in [Files -> Content]
    BY <1>1 DEF BronzeInit
  <2>3. pc \in [Jobs -> Phase]
    BY DEF BronzeInit, Phase
  <2>4. writing \in BOOLEAN /\ target \in BOOLEAN
    BY DEF BronzeInit
  <2>5. rows \in [Files -> Nat] /\ failed \in [Files -> Nat]
    BY DEF BronzeInit
  <2> QED
    BY <2>1, <2>2, <2>3, <2>4, <2>5 DEF BronzeInit, BronzeTypeOK
<1>3. RowsOK
  BY DEF BronzeInit, RowsOK
<1>4. \A j \in Jobs : JobOK(j)
  BY DEF BronzeInit, JobOK
<1>5. ~writing /\ BootOK
  BY DEF BronzeInit, BootOK
<1> QED
  BY <1>2, <1>3, <1>4, <1>5 DEF BronzeInv

\* Every step but the poller's is a step of one job's run, or of the streaming
\* job's start.
LEMMA BronzeSteps ==
  ASSUME BronzeTypeOK, Batch \/ Stream \/ Crash,
         \A j \in Jobs : JobOK(j)
  PROVE  (\E j \in Jobs : Step(j) \/ Begin(j) \/ Forget(j)) \/ StreamStart \/ Bootstrap
<1>0. Rest("batch") = "idle" /\ Rest("stream") = "ready"
  BY DEF Rest
<1>1. CASE BatchList
  BY <1>0, <1>1 DEF BatchList, Begin
<1>2. CASE StreamPlan
  <2>1. Oldest(Unseen("stream")) \subseteq Unseen("stream")
    BY DEF Oldest
  <2> QED
    BY <1>0, <1>2, <2>1 DEF StreamPlan, Begin
<1>3. CASE StreamReplay
  <2>1. plan["stream"] \in SUBSET Unseen("stream") /\ plan = [plan EXCEPT !["stream"] = plan["stream"]]
    BY <1>3 DEF StreamReplay, JobOK, BronzeTypeOK, Unseen
  <2>2. "stream" \in Jobs /\ plan' = plan
    BY <1>3 DEF StreamReplay
  <2> QED
    BY <1>0, <1>3, <2>1, <2>2 DEF StreamReplay, Begin
<1>4. CASE BatchDecode \/ BatchAppend \/ BatchRecord \/ StreamDecode \/ StreamAppend \/ StreamCommit
  BY <1>4 DEF BatchDecode, BatchAppend, BatchRecord, StreamDecode, StreamAppend, StreamCommit, Step
<1>5. CASE BatchCrash
  BY <1>5 DEF BatchCrash, Forget
<1>6. CASE StreamCrash
  <2>1. plan = [plan EXCEPT !["stream"] = plan["stream"]]
    BY <1>6 DEF StreamCrash, BronzeTypeOK
  <2>2. "stream" \in Jobs /\ plan' = plan
    BY <1>6 DEF StreamCrash
  <2> QED
    BY <1>6, <2>1, <2>2 DEF StreamCrash, Forget
<1> QED
  BY <1>1, <1>2, <1>3, <1>4, <1>5, <1>6 DEF Batch, Stream, Crash

LEMMA PollerInv ==
  ASSUME BronzeInv, Poller
  PROVE  BronzeInv'
<1>0. /\ BronzeTypeOK /\ RowsOK /\ BootOK /\ \A j \in Jobs : JobOK(j)
      /\ MaxPolls \in Nat /\ (writing => polls \in Files)
  BY BronzeAssumption DEF BronzeInv
<1>1. polls \in Nat /\ polls' \in polls..MaxPolls /\ polls' <= polls + 1
  BY <1>0 DEF Poller, BeginArchive, FinishArchive, PollerCrash, BronzeTypeOK
<1>2. UNCHANGED <<target, rows, erased, failed, pc, plan, bad, done, crashes, tornSeen>>
  BY DEF Poller, BeginArchive, FinishArchive, PollerCrash, jobVars, tableVars
<1>3. content' \in [Files -> Content]
  BY <1>0 DEF Poller, BeginArchive, FinishArchive, PollerCrash, BronzeTypeOK
<1>4. \A f \in 1..polls : content'[f] = content[f]
  <2>1. 1..polls \subseteq Files
    BY <1>0, <1>1 DEF Files
  <2>2. \A f \in 1..polls : f # polls + 1
    BY <1>1
  <2> QED
    BY <1>0, <2>1, <2>2 DEF Poller, BeginArchive, FinishArchive, PollerCrash, BronzeTypeOK
<1>5. whole' \in SUBSET Files /\ writing' \in BOOLEAN /\ (writing' => polls' \in Files)
  <2>1. CASE \E c \in Content : BeginArchive(c)
    <3>1. polls' \in Files /\ polls' = polls + 1
      BY <1>0, <1>1, <2>1 DEF BeginArchive, Files
    <3>2. whole' \in SUBSET (whole \union {polls'}) /\ writing' \in {writing, TRUE}
      BY <2>1, <3>1 DEF BeginArchive
    <3>3. whole \in SUBSET Files /\ writing \in BOOLEAN
      BY <1>0 DEF BronzeTypeOK
    <3>4. whole' \in SUBSET Files
      BY <3>1, <3>2, <3>3
    <3>5. writing' \in BOOLEAN
      BY <3>2, <3>3
    <3> QED
      BY <3>1, <3>4, <3>5
  <2>2. CASE FinishArchive
    <3>1. writing /\ whole' = whole \union {polls} /\ writing' = FALSE
      BY <2>2 DEF FinishArchive
    <3>2. whole \in SUBSET Files
      BY <1>0 DEF BronzeTypeOK
    <3> QED
      BY <1>0, <3>1, <3>2
  <2>3. CASE PollerCrash
    <3>1. whole' = whole /\ writing' = FALSE
      BY <2>3 DEF PollerCrash
    <3> QED
      BY <1>0, <3>1 DEF BronzeTypeOK
  <2> QED
    BY <2>1, <2>2, <2>3 DEF Poller
<1>6. BronzeTypeOK'
  BY <1>0, <1>1, <1>2, <1>3, <1>5 DEF BronzeTypeOK
<1>7. RowsOK'
  BY <1>0, <1>1, <1>2, <1>4 DEF RowsOK, Files
<1>8. ASSUME NEW j \in Jobs PROVE JobOK(j)'
  <2>1. 1..polls \subseteq 1..polls'
    BY <1>1
  <2> QED
    BY <1>0, <1>2, <1>4, <2>1 DEF JobOK, Found, Accounted
<1>9. BootOK'
  BY <1>0, <1>2 DEF BootOK
<1> QED
  BY <1>5, <1>6, <1>7, <1>8, <1>9 DEF BronzeInv

LEMMA StepInv ==
  ASSUME BronzeInv, NEW i \in Jobs, Step(i)
  PROVE  BronzeInv'
<1>0. BronzeTypeOK /\ RowsOK /\ BootOK /\ \A j \in Jobs : JobOK(j)
  BY DEF BronzeInv
<1>1. UNCHANGED <<polls, content, whole, writing, crashes, erased>>
  BY DEF Step, Decode, AppendRows, Record, archiveVars, tableVars
<1>2. CASE Decode(i)
  <2>1. PICK empty \in SUBSET (plan[i] \ whole) :
          LET torn == plan[i] \ whole
              garbage == {f \in plan[i] \cap whole : content[f] \notin Decodable}
              errors == (torn \ empty) \union garbage
          IN /\ bad' = [bad EXCEPT ![i] = torn \union garbage]
             /\ failed' = [f \in Files |-> IF f \in errors THEN failed[f] + 1 ELSE failed[f]]
             /\ tornSeen' = tornSeen \union torn
    BY <1>2 DEF Decode
  <2>2. pc' = [pc EXCEPT ![i] = "append"] /\ UNCHANGED <<target, rows, plan, done>>
    BY <1>2 DEF Decode, tableVars
  <2>3. plan[i] \subseteq Files /\ plan[i] \subseteq 1..polls /\ pc[i] = "decode"
    BY <1>0, <1>2 DEF JobOK, BronzeTypeOK, Decode
  <2>4. \A f \in Files : failed[f] \in Nat /\ failed'[f] \in Nat /\ failed'[f] >= failed[f]
    BY <1>0, <2>1 DEF BronzeTypeOK
  <2>5. tornSeen \subseteq tornSeen' /\ tornSeen' \subseteq Files
    BY <1>0, <2>1, <2>3 DEF BronzeTypeOK
  <2>6. \A f \in plan[i] : Found(i, f)'
    <3> SUFFICES ASSUME NEW f \in plan[i] PROVE Found(i, f)'
      OBVIOUS
    <3>1. CASE f \notin whole
      BY <1>0, <2>1, <3>1 DEF Found, BronzeTypeOK
    <3>2. CASE f \in whole /\ content[f] \notin Decodable
      <4>1. f \in bad'[i] /\ failed'[f] = failed[f] + 1
        BY <1>0, <2>1, <2>3, <3>2 DEF BronzeTypeOK
      <4> QED
        BY <1>1, <2>3, <2>4, <3>2, <4>1 DEF Found
    <3>3. CASE f \in whole /\ content[f] \in Decodable
      <4>1. f \notin bad'[i]
        BY <1>0, <2>1, <3>3 DEF BronzeTypeOK
      <4> QED
        BY <1>1, <3>3, <4>1 DEF Found
    <3> QED
      BY <3>1, <3>2, <3>3
  <2>7. BronzeTypeOK'
    <3>1. bad' \in [Jobs -> SUBSET Files]
      BY <1>0, <2>1, <2>3 DEF BronzeTypeOK
    <3>2. failed' \in [Files -> Nat]
      BY <2>1, <2>4
    <3>3. pc' \in [Jobs -> Phase]
      BY <1>0, <2>2 DEF BronzeTypeOK, Phase
    <3> QED
      BY <1>0, <1>1, <2>2, <2>5, <3>1, <3>2, <3>3 DEF BronzeTypeOK
  <2>8. RowsOK'
    BY <1>0, <1>1, <2>2 DEF RowsOK
  <2>9. ASSUME NEW j \in Jobs PROVE JobOK(j)'
    <3>1. \A f \in Files : Accounted(j, f) => Accounted(j, f)'
      BY <1>1, <2>2, <2>4 DEF Accounted
    <3>2. done[j] \subseteq Files /\ plan[j] \subseteq Files
      BY <1>0 DEF BronzeTypeOK
    <3>3. j # i => bad'[j] = bad[j] /\ pc'[j] = pc[j]
      BY <1>0, <2>1, <2>2 DEF BronzeTypeOK
    <3>4. j = i => pc'[j] = "append"
      BY <1>0, <2>2 DEF BronzeTypeOK
    <3>5. j # i => \A f \in plan[j] : Found(j, f) => Found(j, f)'
      BY <1>1, <2>4, <2>5, <3>2, <3>3 DEF Found
    <3> QED
      BY <1>0, <1>1, <2>2, <2>5, <2>6, <3>1, <3>2, <3>3, <3>4, <3>5 DEF JobOK
  <2>10. BootOK'
    <3>1. \A j \in Jobs : pc'[j] = IF j = i THEN "append" ELSE pc[j]
      BY <1>0, <2>2 DEF BronzeTypeOK
    <3> QED
      BY <1>0, <2>2, <2>3, <3>1 DEF BootOK
  <2> QED
    BY <1>0, <1>1, <2>7, <2>8, <2>9, <2>10 DEF BronzeInv
<1>3. CASE AppendRows(i)
  <2>1. /\ rows' = [f \in Files |-> IF f \in plan[i] \ bad[i] THEN rows[f] + 1 ELSE rows[f]]
        /\ pc[i] = "append" /\ pc' = [pc EXCEPT ![i] = "record"] /\ target' = TRUE
        /\ UNCHANGED <<failed, plan, bad, done, tornSeen>>
    BY <1>3 DEF AppendRows
  <2>2. \A f \in Files : rows[f] \in Nat /\ rows'[f] \in Nat /\ rows'[f] >= rows[f]
    BY <1>0, <2>1 DEF BronzeTypeOK
  <2>3. plan[i] \subseteq 1..polls /\ plan[i] \subseteq Files /\ \A f \in plan[i] : Found(i, f)
    BY <1>0, <2>1 DEF JobOK, BronzeTypeOK
  <2>4. BronzeTypeOK'
    <3>1. rows' \in [Files -> Nat]
      BY <2>1, <2>2
    <3>2. pc' \in [Jobs -> Phase]
      BY <1>0, <2>1 DEF BronzeTypeOK, Phase
    <3> QED
      BY <1>0, <1>1, <2>1, <3>1, <3>2 DEF BronzeTypeOK
  <2>5. RowsOK'
    <3>1. \A f \in Files : rows'[f] > 0 => rows[f] > 0 \/ f \in plan[i] \ bad[i]
      BY <2>1
    <3>2. \A f \in plan[i] \ bad[i] : f <= polls /\ content[f] \in Decodable
      BY <2>3 DEF Found
    <3> QED
      BY <1>0, <1>1, <3>1, <3>2 DEF RowsOK
  <2>6. \A f \in plan[i] \ tornSeen : Accounted(i, f)'
    <3> SUFFICES ASSUME NEW f \in plan[i] \ tornSeen PROVE Accounted(i, f)'
      OBVIOUS
    <3>1. CASE f \in bad[i]
      BY <1>1, <2>1, <2>3, <3>1 DEF Accounted, Found
    <3>2. CASE f \notin bad[i]
      BY <1>1, <2>1, <2>2, <2>3, <3>2 DEF Accounted, Found
    <3> QED
      BY <3>1, <3>2
  <2>7. ASSUME NEW j \in Jobs PROVE JobOK(j)'
    <3>1. \A f \in Files : Accounted(j, f) => Accounted(j, f)'
      BY <1>1, <2>1, <2>2 DEF Accounted
    <3>2. done[j] \subseteq Files /\ plan[j] \subseteq Files
      BY <1>0 DEF BronzeTypeOK
    <3>3. pc'[j] = IF j = i THEN "record" ELSE pc[j]
      BY <1>0, <2>1 DEF BronzeTypeOK
    <3>4. \A f \in plan[j] : Found(j, f) => Found(j, f)'
      BY <1>1, <2>1 DEF Found
    <3> QED
      BY <1>0, <1>1, <2>1, <2>6, <3>1, <3>2, <3>3, <3>4 DEF JobOK
  <2>8. BootOK'
    <3>1. \A j \in Jobs : pc'[j] = IF j = i THEN "record" ELSE pc[j]
      BY <1>0, <2>1 DEF BronzeTypeOK
    <3> QED
      BY <1>0, <2>1, <3>1 DEF BootOK
  <2> QED
    BY <1>0, <1>1, <2>4, <2>5, <2>7, <2>8 DEF BronzeInv
<1>4. CASE Record(i)
  <2>1. /\ done' = [done EXCEPT ![i] = @ \union plan[i]]
        /\ plan' = [plan EXCEPT ![i] = {}] /\ bad' = [bad EXCEPT ![i] = {}]
        /\ pc[i] = "record" /\ pc' = [pc EXCEPT ![i] = Rest(i)] /\ Rest(i) \in {"idle", "ready"}
        /\ i = "stream" => Rest(i) = "ready"
        /\ UNCHANGED <<target, rows, failed, tornSeen>>
    BY <1>4 DEF Record, tableVars, Rest
  <2>2. BronzeTypeOK'
    <3>1. done' \in [Jobs -> SUBSET Files]
      BY <1>0, <2>1 DEF BronzeTypeOK
    <3>2. plan' \in [Jobs -> SUBSET Files] /\ bad' \in [Jobs -> SUBSET Files]
      BY <1>0, <2>1 DEF BronzeTypeOK
    <3>3. pc' \in [Jobs -> Phase]
      BY <1>0, <2>1 DEF BronzeTypeOK, Phase
    <3> QED
      BY <1>0, <1>1, <2>1, <3>1, <3>2, <3>3 DEF BronzeTypeOK
  <2>3. RowsOK'
    BY <1>0, <1>1, <2>1 DEF RowsOK
  <2>4. ASSUME NEW j \in Jobs PROVE JobOK(j)'
    <3>1. \A f : Accounted(j, f)' <=> Accounted(j, f)
      BY <1>1, <2>1 DEF Accounted
    <3>2. CASE j = i
      <4>1. done'[i] = done[i] \union plan[i] /\ plan'[i] = {} /\ pc'[i] \in {"idle", "ready"}
        BY <1>0, <2>1 DEF BronzeTypeOK
      <4> QED
        BY <1>0, <1>1, <2>1, <3>1, <3>2, <4>1 DEF JobOK
    <3>3. CASE j # i
      <4>1. done'[j] = done[j] /\ plan'[j] = plan[j] /\ bad'[j] = bad[j] /\ pc'[j] = pc[j]
        BY <1>0, <2>1, <3>3 DEF BronzeTypeOK
      <4> QED
        BY <1>0, <1>1, <2>1, <3>1, <4>1 DEF JobOK, Found
    <3> QED
      BY <3>2, <3>3
  <2>5. BootOK'
    <3>1. \A j \in Jobs : pc'[j] = IF j = i THEN Rest(i) ELSE pc[j]
      BY <1>0, <2>1 DEF BronzeTypeOK
    <3>2. \A j \in Jobs : j # i => done'[j] = done[j]
      BY <1>0, <2>1 DEF BronzeTypeOK
    <3> QED
      BY <1>0, <2>1, <3>1, <3>2 DEF BootOK
  <2> QED
    BY <1>0, <1>1, <2>2, <2>3, <2>4, <2>5 DEF BronzeInv
<1> QED
  BY <1>2, <1>3, <1>4 DEF Step

\* A run that begins, and one that dies, take nothing from the books.
LEMMA BeginForgetInv ==
  ASSUME BronzeInv, NEW i \in Jobs, Begin(i) \/ Forget(i)
  PROVE  BronzeInv'
<1>0. BronzeTypeOK /\ RowsOK /\ BootOK /\ \A j \in Jobs : JobOK(j)
  BY DEF BronzeInv
<1>1. UNCHANGED <<polls, content, whole, writing, target, rows, erased, failed, done, tornSeen>>
  BY DEF Begin, Forget, archiveVars, tableVars
<1>2. pc' \in [Jobs -> Phase] /\ pc'[i] \in {"idle", "decode"}
  BY <1>0 DEF Begin, Forget, BronzeTypeOK, Phase
<1>3. PICK S \in SUBSET Unseen(i) : plan' = [plan EXCEPT ![i] = S]
  BY <1>0 DEF Begin, Forget, JobOK, Unseen
<1>4. plan' \in [Jobs -> SUBSET Files]
  <2>1. Unseen(i) \subseteq Files
    BY <1>0, BronzeAssumption DEF BronzeTypeOK, Files, Unseen
  <2> QED
    BY <1>0, <1>3, <2>1 DEF BronzeTypeOK
<1>5. bad' \in [Jobs -> SUBSET Files]
  BY <1>0 DEF Begin, Forget, BronzeTypeOK
<1>6. crashes' \in 0..MaxCrashes
  BY <1>0, BronzeAssumption DEF Begin, Forget, BronzeTypeOK
<1>7. BronzeTypeOK'
  BY <1>0, <1>1, <1>2, <1>4, <1>5, <1>6 DEF BronzeTypeOK
<1>8. ASSUME NEW j \in Jobs PROVE JobOK(j)'
  <2>1. CASE j = i
    <3>1. plan'[i] = S
      BY <1>0, <1>3 DEF BronzeTypeOK
    <3> QED
      BY <1>0, <1>1, <1>2, <2>1, <3>1 DEF JobOK, Accounted, Unseen
  <2>2. CASE j # i
    <3>1. plan'[j] = plan[j] /\ bad'[j] = bad[j] /\ pc'[j] = pc[j]
      BY <1>0, <1>3, <2>2 DEF Begin, Forget, BronzeTypeOK
    <3> QED
      BY <1>0, <1>1, <3>1 DEF JobOK, Accounted, Found
  <2> QED
    BY <2>1, <2>2
<1>9. RowsOK'
  BY <1>0, <1>1 DEF RowsOK
<1>10. BootOK'
  <2>1. \A j \in Jobs : j # i => pc'[j] = pc[j]
    BY <1>0 DEF Begin, Forget, BronzeTypeOK
  <2>2. i = "stream" => pc'[i] = "idle" \/ (pc'[i] = "decode" /\ pc[i] = "ready")
    BY <1>0 DEF Begin, Forget, BronzeTypeOK, Rest
  <2> QED
    BY <1>0, <1>1, <2>1, <2>2 DEF BootOK
<1> QED
  BY <1>0, <1>1, <1>7, <1>8, <1>9, <1>10 DEF BronzeInv

\* The start of the streaming job: what it overwrites, it has not consumed, and
\* what the batch job has is on record as overwritten.
LEMMA StartInv ==
  ASSUME BronzeInv, StreamStart \/ Bootstrap
  PROVE  BronzeInv'
<1>0. BronzeTypeOK /\ RowsOK /\ BootOK /\ \A j \in Jobs : JobOK(j)
  BY DEF BronzeInv
<1>1. /\ UNCHANGED <<polls, content, whole, writing, failed, plan, bad, done, crashes, tornSeen>>
      /\ "stream" \in Jobs
  BY DEF StreamStart, Bootstrap, archiveVars
<1>2. \E p \in {"ready", "boot"} : pc' = [pc EXCEPT !["stream"] = p]
  BY DEF StreamStart, Bootstrap
<1>3. /\ pc' \in [Jobs -> Phase] /\ pc'["stream"] \in {"ready", "boot"}
      /\ \A j \in Jobs : j # "stream" => pc'[j] = pc[j]
  BY <1>0, <1>1, <1>2 DEF BronzeTypeOK, Phase
<1>4. CASE StreamStart
  <2>1. /\ UNCHANGED <<target, rows, erased>> /\ pc["stream"] = "idle"
        /\ pc' = [pc EXCEPT !["stream"] = IF target THEN "ready" ELSE "boot"]
    BY <1>4 DEF StreamStart, tableVars
  <2>2. pc'["stream"] = IF target THEN "ready" ELSE "boot"
    BY <1>0, <1>1, <2>1 DEF BronzeTypeOK
  <2>3. BronzeTypeOK'
    BY <1>0, <1>1, <1>3, <2>1 DEF BronzeTypeOK
  <2>4. RowsOK'
    BY <1>0, <1>1, <2>1 DEF RowsOK
  <2>5. BootOK'
    BY <1>0, <1>1, <2>1, <2>2 DEF BootOK
  <2>6. \A j \in Jobs : JobOK(j)'
    BY <1>0, <1>1, <1>3, <2>1 DEF JobOK, Accounted, Found
  <2> QED
    BY <1>1, <2>3, <2>4, <2>5, <2>6 DEF BronzeInv
<1>5. CASE Bootstrap
  <2>1. /\ pc["stream"] = "boot" /\ target' = TRUE /\ rows' = [f \in Files |-> 0]
        /\ erased' = erased \union {f \in Files : rows[f] > 0}
        /\ pc' = [pc EXCEPT !["stream"] = "ready"]
    BY <1>5 DEF Bootstrap
  <2>2. pc'["stream"] = "ready" /\ done["stream"] = {}
    BY <1>0, <1>1, <2>1 DEF BronzeTypeOK, BootOK
  <2>3. BronzeTypeOK'
    BY <1>0, <1>1, <1>3, <2>1 DEF BronzeTypeOK
  <2>4. RowsOK'
    BY <2>1 DEF RowsOK
  <2>5. BootOK'
    BY <2>1, <2>2 DEF BootOK
  <2>6. ASSUME NEW j \in Jobs PROVE JobOK(j)'
    <3>1. CASE j = "stream"
      BY <1>0, <1>1, <2>2, <3>1 DEF JobOK
    <3>2. CASE j # "stream"
      <4>1. j = "batch"
        BY <3>2, BronzeAssumption
      <4>2. \A f \in Files : Accounted(j, f) => Accounted(j, f)'
        <5>1. \A f \in Files : rows[f] >= 1 => f \in erased'
          BY <1>0, <2>1 DEF BronzeTypeOK
        <5>2. erased \subseteq erased'
          BY <2>1
        <5> QED
          BY <1>1, <4>1, <5>1, <5>2 DEF Accounted
      <4>3. done[j] \subseteq Files /\ plan[j] \subseteq Files
        BY <1>0 DEF BronzeTypeOK
      <4> QED
        BY <1>0, <1>1, <1>3, <3>2, <4>2, <4>3 DEF JobOK, Found
    <3> QED
      BY <3>1, <3>2
  <2> QED
    BY <1>0, <1>1, <2>3, <2>4, <2>5, <2>6 DEF BronzeInv
<1> QED
  BY <1>4, <1>5

LEMMA BronzeStepInv ==
  ASSUME BronzeInv, [BronzeNext]_bronzeVars
  PROVE  BronzeInv'
<1>1. CASE Poller
  BY <1>1, PollerInv
<1>2. CASE Batch \/ Stream \/ Crash
  BY <1>2, BronzeSteps, StepInv, BeginForgetInv, StartInv DEF BronzeInv
<1>3. CASE UNCHANGED bronzeVars
  <2>1. UNCHANGED <<polls, content, whole, writing, target, rows, erased, failed, pc, plan, bad, done,
                    crashes, tornSeen>>
    BY <1>3 DEF bronzeVars, archiveVars, tableVars, jobVars
  <2>2. BronzeTypeOK' /\ RowsOK' /\ BootOK' /\ (writing' => polls' \in Files)
    BY <2>1 DEF BronzeInv, BronzeTypeOK, RowsOK, BootOK
  <2>3. \A j \in Jobs : JobOK(j)'
    BY <2>1 DEF BronzeInv, JobOK, Found, Accounted
  <2> QED
    BY <2>2, <2>3 DEF BronzeInv
<1> QED
  BY <1>1, <1>2, <1>3 DEF BronzeNext

\* The archive, the tables and both loaders keep their types.
THEOREM BronzeTypeCorrect == BronzeSpec => []BronzeTypeOK
<1>1. BronzeInv => BronzeTypeOK
  BY DEF BronzeInv
<1> QED
  BY <1>1, BronzeInitInv, BronzeStepInv, PTL DEF BronzeSpec

\* Nothing is lost between the archive and the table, but for what the first
\* start of the streaming job overwrites under the batch job: what a loader
\* counts as consumed has its rows in bronze or its failure on record, whatever
\* files are half written and whichever loader dies between which two of its
\* commits.
THEOREM ConsumedHolds == BronzeSpec => []ConsumedIsAccountedFor
<1>1. BronzeInv => ConsumedIsAccountedFor
  BY DEF BronzeInv, JobOK, Accounted, ConsumedIsAccountedFor
<1> QED
  BY <1>1, BronzeInitInv, BronzeStepInv, PTL DEF BronzeSpec
---------------------------------------------------------------------------
(* The ledger.                                                             *)

LEMMA JobsAreFinite ==
  /\ IsFiniteSet(Jobs)
  /\ \A f : IsFiniteSet(Payers(f)) /\ Cardinality(Payers(f)) <= Cardinality(Jobs)
<1>1. IsFiniteSet({"batch"} \union {"stream"})
  BY FS_Singleton, FS_AddElement
<1>2. Jobs \in SUBSET ({"batch"} \union {"stream"})
  BY BronzeAssumption
<1>3. IsFiniteSet(Jobs)
  BY <1>1, <1>2, FS_Subset
<1>4. \A f : Payers(f) \in SUBSET Jobs
  BY DEF Payers
<1> QED
  BY <1>3, <1>4, FS_Subset

\* When only job i acts, the payers of a file change by i at most.
LEMMA PayersMove ==
  ASSUME NEW i \in Jobs, NEW f \in Files,
         \A j \in Jobs : j # i => (Charged(j, f)' <=> Charged(j, f))
  PROVE  /\ Cardinality(Payers(f)) \in Nat /\ Cardinality(Payers(f))' \in Nat
         /\ (Charged(i, f) => Charged(i, f)')
              => Cardinality(Payers(f))' >= Cardinality(Payers(f))
         /\ Charged(i, f)' /\ ~Charged(i, f)
              => Cardinality(Payers(f))' = Cardinality(Payers(f)) + 1
         /\ Cardinality(Payers(f))' + 1 >= Cardinality(Payers(f))
<1>1. IsFiniteSet(Payers(f)) /\ Cardinality(Payers(f)) \in Nat
  BY JobsAreFinite, FS_CardinalityType
<1>2. CASE Charged(i, f)' <=> Charged(i, f)
  <2>1. Payers(f)' = Payers(f)
    BY <1>2 DEF Payers
  <2> QED
    BY <1>1, <1>2, <2>1
<1>3. CASE Charged(i, f)' /\ ~Charged(i, f)
  <2>1. Payers(f)' = Payers(f) \union {i} /\ i \notin Payers(f)
    BY <1>3 DEF Payers
  <2>2. Cardinality(Payers(f))' = Cardinality(Payers(f)) + 1
    BY <1>1, <2>1, FS_AddElement
  <2> QED
    BY <1>1, <2>2
<1>4. CASE ~Charged(i, f)' /\ Charged(i, f)
  <2>1. Payers(f)' = Payers(f) \ {i} /\ i \in Payers(f)
    BY <1>4 DEF Payers
  <2>2. Cardinality(Payers(f))' = Cardinality(Payers(f)) - 1
    BY <1>1, <2>1, FS_RemoveElement
  <2>3. Cardinality(Payers(f))' \in Nat
    BY <1>1, <2>1, FS_RemoveElement, FS_CardinalityType
  <2> QED
    BY <1>1, <1>4, <2>2, <2>3
<1> QED
  BY <1>2, <1>3, <1>4

LEMMA LedgerInit == BronzeInit => LedgerOK
<1> SUFFICES ASSUME BronzeInit, NEW f \in Files
             PROVE  rows[f] + failed[f] <= Cardinality(Payers(f)) + crashes
  BY DEF LedgerOK
<1>1. Cardinality(Payers(f)) \in Nat
  BY JobsAreFinite, FS_CardinalityType
<1> QED
  BY <1>1 DEF BronzeInit

\* A step of a run pays for what it appends: the decode for the failures, the
\* append for the rows, and no file is among both.
LEMMA LedgerStep ==
  ASSUME BronzeInv, LedgerOK, NEW i \in Jobs, Step(i)
  PROVE  LedgerOK'
<1>0. BronzeTypeOK /\ JobOK(i) /\ crashes \in Nat /\ crashes' = crashes
  BY DEF BronzeInv, BronzeTypeOK, Step, Decode, AppendRows, Record
<1> SUFFICES ASSUME NEW f \in Files
             PROVE  (rows[f] + failed[f] <= Cardinality(Payers(f)) + crashes)'
  BY DEF LedgerOK
<1>1. rows[f] \in Nat /\ failed[f] \in Nat
      /\ rows[f] + failed[f] <= Cardinality(Payers(f)) + crashes
  BY <1>0 DEF BronzeTypeOK, LedgerOK
<1>2. \A j \in Jobs : j # i => (Charged(j, f)' <=> Charged(j, f))
  BY <1>0 DEF BronzeTypeOK, Step, Decode, AppendRows, Record, Charged
<1>3. CASE Decode(i)
  <2>1. PICK empty \in SUBSET (plan[i] \ whole) :
          LET torn == plan[i] \ whole
              garbage == {g \in plan[i] \cap whole : content[g] \notin Decodable}
              errors == (torn \ empty) \union garbage
          IN /\ bad' = [bad EXCEPT ![i] = torn \union garbage]
             /\ failed' = [g \in Files |-> IF g \in errors THEN failed[g] + 1 ELSE failed[g]]
             /\ tornSeen' = tornSeen \union torn
    BY <1>3 DEF Decode
  <2>2. /\ pc[i] = "decode" /\ pc'[i] = "append"
        /\ UNCHANGED <<rows, plan, done>>
    BY <1>0, <1>3 DEF Decode, BronzeTypeOK, tableVars
  <2>3. Charged(i, f) => Charged(i, f)'
    BY <2>2 DEF Charged
  <2>4. failed'[f] = failed[f] \/ (failed'[f] = failed[f] + 1 /\ f \in plan[i] /\ f \in bad'[i])
    BY <1>0, <2>1 DEF BronzeTypeOK
  <2>5. f \in plan[i] /\ f \in bad'[i] => Charged(i, f)' /\ ~Charged(i, f)
    BY <1>0, <2>2 DEF Charged, JobOK
  <2> QED
    BY <1>0, <1>1, <1>2, <2>2, <2>3, <2>4, <2>5, PayersMove
<1>4. CASE AppendRows(i)
  <2>1. /\ pc[i] = "append" /\ pc'[i] = "record"
        /\ UNCHANGED <<failed, plan, bad, done>>
        /\ rows' = [g \in Files |-> IF g \in plan[i] \ bad[i] THEN rows[g] + 1 ELSE rows[g]]
    BY <1>0, <1>4 DEF AppendRows, BronzeTypeOK
  <2>2. Charged(i, f) => Charged(i, f)'
    BY <2>1 DEF Charged
  <2>3. rows'[f] = rows[f] \/ (rows'[f] = rows[f] + 1 /\ f \in plan[i] \ bad[i])
    BY <2>1
  <2>4. f \in plan[i] \ bad[i] => Charged(i, f)' /\ ~Charged(i, f)
    BY <1>0, <2>1 DEF Charged, JobOK
  <2> QED
    BY <1>0, <1>1, <1>2, <2>1, <2>2, <2>3, <2>4, PayersMove
<1>5. CASE Record(i)
  <2>1. /\ pc[i] = "record" /\ done'[i] = done[i] \union plan[i]
        /\ UNCHANGED <<rows, failed>>
    BY <1>0, <1>5 DEF Record, BronzeTypeOK, tableVars
  <2>2. Charged(i, f) => Charged(i, f)'
    BY <2>1 DEF Charged
  <2> QED
    BY <1>0, <1>1, <1>2, <2>1, <2>2, PayersMove
<1> QED
  BY <1>3, <1>4, <1>5 DEF Step

\* A run that begins owes nothing yet; a crash drops at most one charge a file.
LEMMA LedgerBeginForget ==
  ASSUME BronzeInv, LedgerOK, NEW i \in Jobs, Begin(i) \/ Forget(i)
  PROVE  LedgerOK'
<1>0. BronzeTypeOK /\ crashes \in Nat /\ UNCHANGED <<rows, failed, done>>
  BY DEF BronzeInv, BronzeTypeOK, Begin, Forget, tableVars
<1> SUFFICES ASSUME NEW f \in Files
             PROVE  (rows[f] + failed[f] <= Cardinality(Payers(f)) + crashes)'
  BY DEF LedgerOK
<1>1. rows[f] \in Nat /\ failed[f] \in Nat
      /\ rows[f] + failed[f] <= Cardinality(Payers(f)) + crashes
  BY <1>0 DEF BronzeTypeOK, LedgerOK
<1>2. \A j \in Jobs : j # i => (Charged(j, f)' <=> Charged(j, f))
  BY <1>0 DEF BronzeTypeOK, Begin, Forget, Charged
<1>3. CASE Begin(i)
  <2>1. pc[i] \in {"idle", "ready"} /\ crashes' = crashes
    BY <1>3 DEF Begin, Rest
  <2>2. Charged(i, f) => Charged(i, f)'
    BY <1>0, <2>1 DEF Charged
  <2> QED
    BY <1>0, <1>1, <1>2, <2>1, <2>2, PayersMove
<1>4. CASE Forget(i)
  <2>1. crashes' = crashes + 1
    BY <1>4 DEF Forget
  <2> QED
    BY <1>0, <1>1, <1>2, <2>1, PayersMove
<1> QED
  BY <1>3, <1>4

\* The start of the streaming job takes rows away, and nobody's charge.
LEMMA LedgerStart ==
  ASSUME BronzeInv, LedgerOK, StreamStart \/ Bootstrap
  PROVE  LedgerOK'
<1>0. /\ BronzeTypeOK /\ crashes \in Nat /\ UNCHANGED <<failed, plan, bad, done, crashes>>
      /\ "stream" \in Jobs /\ pc["stream"] \in {"idle", "boot"}
  BY DEF BronzeInv, BronzeTypeOK, StreamStart, Bootstrap
<1>1. /\ pc'["stream"] \in {"ready", "boot"}
      /\ \A j \in Jobs : j # "stream" => pc'[j] = pc[j]
  BY <1>0 DEF StreamStart, Bootstrap, BronzeTypeOK
<1>2. \A j \in Jobs, f \in Files : Charged(j, f)' <=> Charged(j, f)
  BY <1>0, <1>1 DEF Charged
<1> SUFFICES ASSUME NEW f \in Files
             PROVE  (rows[f] + failed[f] <= Cardinality(Payers(f)) + crashes)'
  BY DEF LedgerOK
<1>3. Payers(f)' = Payers(f)
  BY <1>2 DEF Payers
<1>4. /\ rows[f] \in Nat /\ failed[f] \in Nat /\ rows'[f] \in {rows[f], 0}
      /\ rows[f] + failed[f] <= Cardinality(Payers(f)) + crashes
  BY <1>0 DEF BronzeTypeOK, LedgerOK, StreamStart, Bootstrap, tableVars
<1>5. Cardinality(Payers(f)) \in Nat
  BY JobsAreFinite, FS_CardinalityType
<1> QED
  BY <1>0, <1>3, <1>4, <1>5

LEMMA LedgerNext ==
  ASSUME BronzeInv, LedgerOK, [BronzeNext]_bronzeVars
  PROVE  LedgerOK'
<1>1. CASE Poller \/ UNCHANGED bronzeVars
  <2>1. UNCHANGED <<rows, failed, pc, plan, bad, done, crashes>>
    BY <1>1 DEF Poller, BeginArchive, FinishArchive, PollerCrash, jobVars, tableVars, bronzeVars
  <2> QED
    BY <2>1 DEF LedgerOK, Payers, Charged
<1>2. CASE Batch \/ Stream \/ Crash
  BY <1>2, BronzeSteps, LedgerStep, LedgerBeginForget, LedgerStart DEF BronzeInv
<1> QED
  BY <1>1, <1>2 DEF BronzeNext

\* Crashes are the only source of duplicates: a file stands in bronze and in
\* _decode_failures together at most once per loader, plus once per crash.
THEOREM DuplicatesHold == BronzeSpec => []DuplicatesBounded
<1>1. BronzeInv /\ LedgerOK => DuplicatesBounded
  <2> SUFFICES ASSUME BronzeInv, LedgerOK, NEW f \in Files
               PROVE  rows[f] + failed[f] <= Cardinality(Jobs) + crashes
    BY DEF DuplicatesBounded
  <2>1. /\ Cardinality(Payers(f)) \in Nat /\ Cardinality(Jobs) \in Nat
        /\ Cardinality(Payers(f)) <= Cardinality(Jobs)
    BY JobsAreFinite, FS_CardinalityType
  <2>2. rows[f] \in Nat /\ failed[f] \in Nat /\ crashes \in Nat
    BY DEF BronzeInv, BronzeTypeOK
  <2> QED
    BY <2>1, <2>2 DEF LedgerOK
<1> QED
  BY <1>1, BronzeInitInv, BronzeStepInv, LedgerInit, LedgerNext, PTL DEF BronzeSpec

---------------------------------------------------------------------------
(* Silver and gold.                                                        *)

\* row is what a build from sightings at the times T makes of a visit.
RowFor(row, T) ==
  \/ row = NoRow /\ T = {}
  \/ row # NoRow /\ row.at \in T /\ \A u \in T : row.at <= u

\* Inductive: silver is built from files that were in bronze, whose payloads
\* decode; a pending merge carries the earliest of what silver then held, and
\* gold the earliest of all that was merged.
WasInBronze(F) == F \subseteq {f \in Files : f <= polls /\ content[f] \in Decodable}

GoldInv ==
  /\ WasInBronze(scanned) /\ WasInBronze(silverOf)
  /\ WasInBronze(resolvedOf) /\ WasInBronze(mergedOf)
  /\ goldPc = "merging" => \A g \in Grains : RowFor(arrivals[g], TimesOf(offering, g))
  /\ \A g \in Grains : RowFor(gold[g], TimesOf(offered, g))

MedallionInv == BronzeInv /\ MedallionTypeOK /\ GoldInv

---------------------------------------------------------------------------
LEMMA RowForType ==
  ASSUME NEW S \in SUBSET Sightings, NEW g \in Grains
  PROVE  TimesOf(S, g) \subseteq Times
BY DEF TimesOf, Sightings

LEMMA NoRowFact == NoRow \in GoldRows /\ NoRow.at = 0 /\ \A row \in GoldRows : row # NoRow => row.at \in Times
BY DEF NoRow, GoldRows

\* What silver holds of files in bronze are rows, and what gold finds in them
\* are sightings.
LEMMA SilverContent ==
  ASSUME BronzeInv, NEW F, WasInBronze(F)
  PROVE  /\ SilverRows(F) \subseteq [file : Files, vehicle : Vehicles]
         /\ SightingsIn(SilverRows(F)) \subseteq Sightings
<1>1. F \subseteq Files /\ \A f \in F : content[f] \in Decodable
  BY DEF WasInBronze
<1>2. \A r \in BronzeRows(F) : /\ r \in [file : Files, vehicle : Vehicles]
                               /\ r.file \in F /\ r.vehicle \in DOMAIN content[r.file].report
  BY <1>1 DEF BronzeRows
<1>3. \A r \in BronzeRows(F) : content[r.file].report[r.vehicle] \in Reports
  BY <1>1, <1>2, MedallionAssumption
<1>4. SilverRows(F) \subseteq BronzeRows(F)
  BY DEF SilverRows, Deduplicated
<1>5. \A S \in Reports : S \subseteq Sightings
  BY DEF Reports
<1> QED
  BY <1>2, <1>3, <1>4, <1>5 DEF SightingsIn

\* The row gold resolves for a visit is the first sighting of it.
LEMMA ResolvedRow ==
  ASSUME NEW R \in SUBSET [file : Files, vehicle : Vehicles], SightingsIn(R) \subseteq Sightings,
         NEW g \in Grains, NEW row \in Resolved(R, g)
  PROVE  row \in GoldRows /\ RowFor(row, TimesOf(SightingsIn(R), g))
<1> DEFINE T == TimesOf(SightingsIn(R), g)
<1>1. T \subseteq Times
  BY RowForType
<1>2. CASE T = {}
  BY <1>2, NoRowFact DEF Resolved, RowFor
<1>3. CASE T # {}
  <2>1. row \in [at : T, from : {r.file : r \in R}, seen : {T}] /\ \A t \in T : row.at <= t
    BY <1>3 DEF Resolved
  <2>2. row.at \in Times /\ row.at \in T
    BY <1>1, <2>1
  <2>3. row # NoRow
    BY <2>2, NoRowFact, MedallionAssumption
  <2>4. row \in [at : Times, from : Files, seen : SUBSET Times]
    <3>1. {r.file : r \in R} \subseteq Files
      OBVIOUS
    <3> QED
      BY <1>1, <2>1, <3>1
  <2> QED
    BY <2>1, <2>2, <2>3, <2>4 DEF GoldRows, RowFor
<1> QED
  BY <1>2, <1>3

\* The MERGE clause takes the earlier of two first sightings.
LEMMA MergeRow ==
  ASSUME NEW t \in GoldRows, NEW s \in GoldRows,
         NEW T \in SUBSET Times, NEW S \in SUBSET Times, RowFor(t, T), RowFor(s, S)
  PROVE  Merge(t, s) \in GoldRows /\ RowFor(Merge(t, s), T \union S)
<1>1. Times \subseteq Nat
  BY MedallionAssumption
<1>2. CASE s = NoRow
  <2>1. S = {} /\ Merge(t, s) = t
    BY <1>2 DEF RowFor, Merge
  <2> QED
    BY <2>1 DEF RowFor
<1>3. CASE s # NoRow /\ t = NoRow
  <2>1. T = {} /\ Merge(t, s) = s
    BY <1>3 DEF RowFor, Merge
  <2> QED
    BY <2>1 DEF RowFor
<1>4. CASE s # NoRow /\ t # NoRow
  <2>1. /\ t.at \in T /\ s.at \in S
        /\ \A u \in T : t.at <= u
        /\ \A u \in S : s.at <= u
    BY <1>4 DEF RowFor
  <2>2. \A u \in T \union S : u \in Nat
    BY <1>1
  <2>3. t.at \in Nat /\ s.at \in Nat
    BY <2>1, <2>2
  <2>4. CASE s.at < t.at
    <3>1. Merge(t, s) = s
      BY <1>4, <2>4 DEF Merge
    <3>2. \A u \in T \union S : s.at <= u
      BY <2>1, <2>2, <2>3, <2>4
    <3> QED
      BY <1>4, <2>1, <3>1, <3>2 DEF RowFor
  <2>5. CASE ~(s.at < t.at)
    <3>1. Merge(t, s) = t
      BY <1>4, <2>5 DEF Merge
    <3>2. \A u \in T \union S : t.at <= u
      BY <2>1, <2>2, <2>3, <2>5
    <3> QED
      BY <1>4, <2>1, <3>1, <3>2 DEF RowFor
  <2> QED
    BY <2>4, <2>5
<1> QED
  BY <1>2, <1>3, <1>4

LEMMA TimesOfUnion ==
  ASSUME NEW S, NEW T, NEW g
  PROVE  TimesOf(S \union T, g) = TimesOf(S, g) \union TimesOf(T, g)
BY DEF TimesOf

---------------------------------------------------------------------------
LEMMA MedallionInitInv == MedallionInit => MedallionInv
<1> SUFFICES ASSUME MedallionInit PROVE MedallionInv
  OBVIOUS
<1>1. BronzeInv
  BY BronzeInitInv DEF MedallionInit
<1>2. TimesOf({}, 0) = {} /\ \A g : TimesOf({}, g) = {}
  BY DEF TimesOf
<1>3. GoldInv
  BY <1>2 DEF MedallionInit, GoldInv, WasInBronze, RowFor
<1>4. MedallionTypeOK
  BY NoRowFact DEF MedallionInit, MedallionTypeOK
<1> QED
  BY <1>1, <1>3, <1>4 DEF MedallionInv

\* The archive only grows.
LEMMA ArchiveGrows ==
  ASSUME BronzeInv, [MedallionNext]_medallionVars
  PROVE  /\ polls \in Nat /\ polls' \in Nat /\ polls' >= polls
         /\ \A f \in Files : f <= polls => content'[f] = content[f]
<1>1. BronzeTypeOK /\ polls \in Nat
  BY BronzeAssumption DEF BronzeInv, BronzeTypeOK
<1>2. CASE Poller
  <2>1. polls' \in {polls, polls + 1}
    BY <1>2 DEF Poller, BeginArchive, FinishArchive, PollerCrash
  <2>2. \A f \in Files : f <= polls => f # polls + 1
    BY <1>1 DEF Files
  <2>3. \A f \in Files : f <= polls => content'[f] = content[f]
    BY <1>1, <1>2, <2>2 DEF Poller, BeginArchive, FinishArchive, PollerCrash, BronzeTypeOK
  <2> QED
    BY <1>1, <2>1, <2>3
<1>3. CASE Batch \/ Stream \/ Crash
  <2>1. (\E j \in Jobs : Step(j) \/ Begin(j) \/ Forget(j)) \/ StreamStart \/ Bootstrap
    BY <1>3, BronzeSteps DEF BronzeInv
  <2>2. UNCHANGED <<polls, content>>
    BY <2>1 DEF Step, Decode, AppendRows, Record, Begin, Forget, StreamStart, Bootstrap, archiveVars
  <2> QED
    BY <1>1, <2>2
<1>4. CASE Silver \/ Gold \/ RebuildCrash \/ UNCHANGED medallionVars
  <2>1. UNCHANGED <<polls, content>>
    BY <1>4 DEF Silver, SilverRead, SilverWrite, Gold, GoldRead, GoldMerge, RebuildCrash,
       medallionVars, bronzeVars, archiveVars
  <2> QED
    BY <1>1, <2>1
<1> QED
  BY <1>2, <1>3, <1>4 DEF MedallionNext

LEMMA WasInBronzeKept ==
  ASSUME BronzeInv, [MedallionNext]_medallionVars
  PROVE  \A F : WasInBronze(F) => WasInBronze(F)'
<1> SUFFICES ASSUME NEW F, WasInBronze(F), NEW f \in F
             PROVE  f \in Files /\ f <= polls' /\ content'[f] \in Decodable
  BY DEF WasInBronze
<1>1. f \in Files /\ f \in Nat /\ f <= polls /\ content[f] \in Decodable
  BY DEF WasInBronze, Files
<1> QED
  BY <1>1, ArchiveGrows

LEMMA BronzePart ==
  ASSUME MedallionInv, Poller \/ Batch \/ Stream \/ Crash, UNCHANGED <<silverVars, goldVars>>
  PROVE  MedallionInv'
<1>1. BronzeInv'
  BY BronzeStepInv DEF MedallionInv, BronzeNext
<1>2. MedallionTypeOK'
  BY DEF MedallionInv, MedallionTypeOK, silverVars, goldVars, goldHistory
<1>3. /\ WasInBronze(scanned)' /\ WasInBronze(silverOf)'
      /\ WasInBronze(resolvedOf)' /\ WasInBronze(mergedOf)'
  <2>1. [MedallionNext]_medallionVars
    BY DEF MedallionNext
  <2>2. UNCHANGED <<scanned, silverOf, resolvedOf, mergedOf>>
    BY DEF silverVars, goldVars, goldHistory
  <2> QED
    BY <2>1, <2>2, WasInBronzeKept DEF MedallionInv, GoldInv, WasInBronze
<1>4. GoldInv'
  BY <1>3 DEF MedallionInv, GoldInv, silverVars, goldVars, goldHistory
<1> QED
  BY <1>1, <1>2, <1>4 DEF MedallionInv

LEMMA SilverPart ==
  ASSUME MedallionInv, Silver
  PROVE  MedallionInv'
<1>1. UNCHANGED bronzeVars /\ UNCHANGED goldVars
  BY DEF Silver, SilverRead, SilverWrite
<1>2. BronzeInv'
  BY <1>1, BronzeStepInv DEF MedallionInv
<1>3. WasInBronze(Loaded)
  BY BronzeAssumption DEF MedallionInv, BronzeInv, BronzeTypeOK, RowsOK, WasInBronze, Loaded, Files
<1>4. WasInBronze(scanned') /\ WasInBronze(silverOf') /\ silverPc' \in {"idle", "writing"}
  BY <1>3 DEF Silver, SilverRead, SilverWrite, MedallionInv, GoldInv
<1>5. UNCHANGED <<polls, content>>
  BY <1>1 DEF bronzeVars, archiveVars
<1>6. MedallionTypeOK'
  BY <1>1, <1>4 DEF WasInBronze, MedallionInv, MedallionTypeOK, goldVars, goldHistory
<1>7. GoldInv'
  BY <1>1, <1>4, <1>5 DEF MedallionInv, GoldInv, WasInBronze, goldVars, goldHistory
<1> QED
  BY <1>2, <1>6, <1>7 DEF MedallionInv

LEMMA GoldReadPart ==
  ASSUME MedallionInv, GoldRead
  PROVE  MedallionInv'
<1> DEFINE R == SilverRows(silverOf)
<1>1. /\ UNCHANGED <<silverPc, scanned, silverOf, gold, mergedOf, offered, polls, content>>
      /\ UNCHANGED bronzeVars
      /\ resolvedOf' = silverOf /\ goldPc' = "merging" /\ offering' = SightingsIn(R)
      /\ arrivals' \in [Grains -> UNION {Resolved(R, g) : g \in Grains}]
      /\ \A g \in Grains : arrivals'[g] \in Resolved(R, g)
  BY DEF GoldRead, silverVars, bronzeVars, archiveVars
<1>2. R \subseteq [file : Files, vehicle : Vehicles] /\ SightingsIn(R) \subseteq Sightings
  BY SilverContent DEF MedallionInv, GoldInv
<1> HIDE DEF R
<1>3. \A g \in Grains :
        arrivals'[g] \in GoldRows /\ RowFor(arrivals'[g], TimesOf(offering', g))
  BY <1>1, <1>2, ResolvedRow
<1>4. arrivals' \in [Grains -> GoldRows]
  BY <1>1, <1>3
<1>5. BronzeInv'
  BY <1>1, BronzeStepInv DEF MedallionInv
<1>6. MedallionTypeOK'
  BY <1>1, <1>2, <1>4 DEF MedallionInv, MedallionTypeOK
<1>7. GoldInv'
  BY <1>1, <1>3 DEF MedallionInv, GoldInv, WasInBronze
<1> QED
  BY <1>5, <1>6, <1>7 DEF MedallionInv

\* The merged row of a visit is the earliest of all that was offered.
LEMMA MergedRows ==
  ASSUME MedallionInv, GoldMerge
  PROVE  \A g \in Grains :
           gold'[g] \in GoldRows /\ RowFor(gold'[g], TimesOf(offered', g))
<1> SUFFICES ASSUME NEW g \in Grains
             PROVE  gold'[g] \in GoldRows /\ RowFor(gold'[g], TimesOf(offered', g))
  OBVIOUS
<1>1. gold'[g] = Merge(gold[g], arrivals[g]) /\ offered' = offered \union offering
  BY DEF GoldMerge
<1>2. gold[g] \in GoldRows /\ arrivals[g] \in GoldRows
  BY DEF MedallionInv, MedallionTypeOK
<1>3. TimesOf(offered, g) \subseteq Times /\ TimesOf(offering, g) \subseteq Times
  BY RowForType DEF MedallionInv, MedallionTypeOK
<1>4. RowFor(gold[g], TimesOf(offered, g)) /\ RowFor(arrivals[g], TimesOf(offering, g))
  BY DEF MedallionInv, GoldInv, GoldMerge
<1> QED
  BY <1>1, <1>2, <1>3, <1>4, MergeRow, TimesOfUnion

LEMMA GoldMergePart ==
  ASSUME MedallionInv, GoldMerge
  PROVE  MedallionInv'
<1>1. /\ UNCHANGED <<silverPc, scanned, silverOf, arrivals, resolvedOf, offering, polls, content>>
      /\ UNCHANGED bronzeVars
      /\ gold' = [g \in Grains |-> Merge(gold[g], arrivals[g])]
      /\ offered' = offered \union offering 
      /\ mergedOf' = mergedOf \union resolvedOf /\ goldPc' = "idle"
  BY DEF GoldMerge, silverVars, bronzeVars, archiveVars
<1>2. gold' \in [Grains -> GoldRows]
  BY <1>1, MergedRows
<1>3. BronzeInv'
  BY <1>1, BronzeStepInv DEF MedallionInv
<1>4. MedallionTypeOK'
  BY <1>1, <1>2 DEF MedallionInv, MedallionTypeOK
<1>5. GoldInv'
  BY <1>1, MergedRows DEF MedallionInv, GoldInv, WasInBronze
<1> QED
  BY <1>3, <1>4, <1>5 DEF MedallionInv

LEMMA RebuildCrashPart ==
  ASSUME MedallionInv, RebuildCrash
  PROVE  MedallionInv'
<1>1. /\ UNCHANGED <<polls, content, whole, writing, target, rows, erased, failed, pc, plan, bad, done, tornSeen>>
      /\ UNCHANGED <<scanned, silverOf, arrivals, gold, resolvedOf, offering, mergedOf, offered>>
      /\ silverPc' \in {silverPc, "idle"} /\ goldPc' \in {goldPc, "idle"}
  BY DEF RebuildCrash, archiveVars, tableVars, jobVars, goldHistory
<1>2. crashes' \in 0..MaxCrashes
  BY BronzeAssumption DEF RebuildCrash, MedallionInv, BronzeInv, BronzeTypeOK
<1>3. BronzeInv'
  <2>1. BronzeTypeOK' /\ RowsOK' /\ BootOK' /\ (writing' => polls' \in Files)
    BY <1>1, <1>2 DEF MedallionInv, BronzeInv, BronzeTypeOK, RowsOK, BootOK
  <2>2. \A j \in Jobs : JobOK(j)'
    BY <1>1 DEF MedallionInv, BronzeInv, JobOK, Found, Accounted
  <2> QED
    BY <2>1, <2>2 DEF BronzeInv
<1>4. MedallionTypeOK'
  BY <1>1 DEF MedallionInv, MedallionTypeOK
<1>5. GoldInv'
  BY <1>1 DEF MedallionInv, GoldInv, WasInBronze
<1> QED
  BY <1>3, <1>4, <1>5 DEF MedallionInv

LEMMA MedallionStepInv ==
  ASSUME MedallionInv, [MedallionNext]_medallionVars
  PROVE  MedallionInv'
<1>1. CASE UNCHANGED medallionVars
  <2>1. /\ UNCHANGED bronzeVars /\ UNCHANGED silverVars /\ UNCHANGED goldVars
        /\ UNCHANGED <<polls, content>>
    BY <1>1 DEF medallionVars, bronzeVars, archiveVars
  <2>2. BronzeInv'
    BY <2>1, BronzeStepInv DEF MedallionInv
  <2> QED
    BY <2>1, <2>2 DEF MedallionInv, MedallionTypeOK, GoldInv, WasInBronze, silverVars, goldVars, goldHistory
<1> QED
  BY <1>1, BronzePart, SilverPart, GoldReadPart, GoldMergePart, RebuildCrashPart
  DEF MedallionNext, Gold

\* Silver, gold and the merge between them keep their types.
THEOREM MedallionTypeCorrect == MedallionSpec => []MedallionTypeOK
<1>1. MedallionInv => MedallionTypeOK
  BY DEF MedallionInv
<1> QED
  BY <1>1, MedallionInitInv, MedallionStepInv, PTL DEF MedallionSpec

---------------------------------------------------------------------------
(* The refinement.                                                         *)

LEMMA FactsInitMap == MedallionInit => AF!FactsInit
BY DEF MedallionInit, AF!FactsInit, NoRow, AF!None

\* A merge offers what it carries; every other step stutters.
LEMMA MergeMap ==
  ASSUME MedallionInv, GoldMerge
  PROVE  AF!FactsNext
<1> DEFINE fact == [g \in Grains |-> gold[g].at]
<1>1. offering \in SUBSET AF!Sightings /\ offered' = offered \union offering
  BY DEF MedallionInv, MedallionTypeOK, Sightings, AF!Sightings, GoldMerge
<1>2. \A g \in Grains : AF!TimesOf(offered', g) = TimesOf(offered', g)
  BY DEF AF!TimesOf, TimesOf
<1>3. \A g \in Grains :
        gold'[g].at \in Times \union {AF!None}
        /\ AF!IsEarliest(gold'[g].at, AF!TimesOf(offered', g))
  BY <1>2, MergedRows, NoRowFact DEF RowFor, AF!IsEarliest, AF!None
<1>4. fact' \in [Grains -> Times \union {AF!None}]
      /\ \A g \in Grains : AF!IsEarliest(fact'[g], AF!TimesOf(offered', g))
  BY <1>3
<1>5. PICK S \in SUBSET AF!Sightings : offered' = offered \union S
  BY <1>1
<1>6. AF!Offer(S)
  BY <1>4, <1>5 DEF AF!Offer
<1> QED
  BY <1>6 DEF AF!FactsNext

LEMMA FactsStepMap ==
  ASSUME MedallionInv, [MedallionNext]_medallionVars
  PROVE  [AF!FactsNext]_AF!factVars
<1>1. CASE GoldMerge
  BY <1>1, MergeMap
<1>2. CASE ~GoldMerge
  <2>1. UNCHANGED <<gold, offered>>
    BY <1>2 DEF MedallionNext, Silver, SilverRead, SilverWrite, Gold, GoldRead, RebuildCrash,
       medallionVars, goldVars, goldHistory
  <2> QED
    BY <2>1 DEF AF!factVars
<1> QED
  BY <1>1, <1>2

\* However the loaders, silver and gold interleave, die and run again, the fact
\* of a visit is the earliest sighting merged so far: it appears once, and
\* reprocessing never pushes it later.
THEOREM GoldRefinesFacts == MedallionSpec => GoldImplementsFacts
BY MedallionInitInv, MedallionStepInv, FactsInitMap, FactsStepMap, PTL
DEF MedallionSpec, GoldImplementsFacts, AF!FactsSpec
---------------------------------------------------------------------------
(* The dedup and the first sighting.                                       *)

\* A set of naturals that is not empty has a least element.
LEMMA LeastNatural ==
  ASSUME NEW T \in SUBSET Nat, T # {}
  PROVE  \E m \in T : \A u \in T : m <= u
<1> DEFINE R == OpToRel(<, Nat)
<1>1. PICK m \in T : \A u \in T : <<u, m>> \notin R
  <2>1. IsWellFoundedOn(R, Nat)
    BY NatLessThanWellFounded
  <2> HIDE DEF R
  <2> QED
    BY <2>1, WFMin
<1>2. ASSUME NEW u \in T, u < m PROVE <<u, m>> \in R
  BY <1>2 DEF OpToRel
<1>3. \A u \in T : ~(u < m)
  BY <1>1, <1>2
<1> QED
  BY <1>3

SightingsOf(F) == SightingsIn(BronzeRows(F))

\* Where headers tell payloads apart, the copy that silver keeps of a row says
\* of the vehicle what the row says.
LEMMA SilverKeepsAll ==
  ASSUME BronzeInv, NEW F, WasInBronze(F), HeadersTell
  PROVE  SightingsIn(SilverRows(F)) = SightingsOf(F)
<1>1. F \subseteq 1..polls /\ F \subseteq Nat /\ \A f \in F : content[f] \in Decodable
  BY DEF WasInBronze, BronzeInv, BronzeTypeOK, Files
<1>2. \A r \in BronzeRows(F) : r.file \in F
  BY DEF BronzeRows
<1>3. SilverRows(F) \subseteq BronzeRows(F)
  BY DEF SilverRows, Deduplicated
<1>4. ASSUME NEW r \in BronzeRows(F)
      PROVE  \E q \in SilverRows(F) : content[q.file] = content[r.file] /\ q.vehicle = r.vehicle
  <2> DEFINE Copies == {q \in BronzeRows(F) : SameKey(r, q)}
             T == {q.file : q \in Copies}
  <2>1. r \in Copies
    BY DEF SameKey
  <2>2. T \subseteq Nat /\ T # {}
    BY <1>1, <1>2, <2>1
  <2>3. PICK m \in T : \A u \in T : m <= u
    BY <2>2, LeastNatural
  <2>4. PICK q \in Copies : q.file = m
    BY <2>3
  <2>5. q \in SilverRows(F)
    <3>1. \A p \in BronzeRows(F) : SameKey(q, p) => p \in Copies
      BY <2>4 DEF SameKey
    <3> QED
      BY <2>3, <2>4, <3>1 DEF SilverRows, Deduplicated
  <2>6. content[q.file] = content[r.file] /\ q.vehicle = r.vehicle
    BY <1>1, <1>2, <2>4 DEF SameKey, HeadersTell
  <2> QED
    BY <2>5, <2>6
<1> QED
  BY <1>3, <1>4 DEF SightingsIn, SightingsOf

\* Inductive: where headers tell payloads apart, all that was offered is all that
\* was sighted.
FirstInv ==
  HeadersTell =>
    /\ goldPc = "merging" => offering = SightingsOf(resolvedOf)
    /\ offered = SightingsOf(mergedOf)

\* What is archived stays as it is, and so does what is read from it.
LEMMA ArchiveKept ==
  ASSUME MedallionInv, [MedallionNext]_medallionVars
  PROVE  /\ HeadersTell' => HeadersTell
         /\ \A F : WasInBronze(F) => SightingsOf(F)' = SightingsOf(F)
<1>1. /\ polls' >= polls /\ polls \in Nat /\ polls' \in Nat
      /\ \A f \in Files : f <= polls => content'[f] = content[f]
  BY ArchiveGrows DEF MedallionInv
<1>2. \A f \in 1..polls : f \in 1..polls' /\ content'[f] = content[f]
  <2>1. 1..polls \subseteq Files
    BY <1>1, BronzeAssumption DEF MedallionInv, BronzeInv, BronzeTypeOK, Files
  <2> QED
    BY <1>1, <2>1
<1>3. HeadersTell' => HeadersTell
  BY <1>2 DEF HeadersTell
<1>4. ASSUME NEW F, WasInBronze(F) PROVE SightingsOf(F)' = SightingsOf(F)
  <2>1. \A f \in F : content'[f] = content[f]
    BY <1>1, <1>4 DEF WasInBronze
  <2>2. BronzeRows(F)' = BronzeRows(F)
    BY <2>1 DEF BronzeRows
  <2>3. \A r \in BronzeRows(F) : content'[r.file] = content[r.file]
    BY <2>1 DEF BronzeRows
  <2> QED
    BY <2>2, <2>3 DEF SightingsOf, SightingsIn
<1> QED
  BY <1>3, <1>4

LEMMA FirstInit == MedallionInit => FirstInv
<1> SUFFICES ASSUME MedallionInit PROVE FirstInv
  OBVIOUS
<1>1. BronzeRows({}) = {}
  BY DEF BronzeRows
<1>2. SightingsOf({}) = {}
  BY <1>1 DEF SightingsOf, SightingsIn
<1> QED
  BY <1>2 DEF MedallionInit, FirstInv

LEMMA SightingsUnion ==
  ASSUME NEW F, NEW G
  PROVE  SightingsOf(F \union G) = SightingsOf(F) \union SightingsOf(G)
<1>1. BronzeRows(F \union G) = BronzeRows(F) \union BronzeRows(G)
  BY DEF BronzeRows
<1> QED
  BY <1>1 DEF SightingsOf, SightingsIn

LEMMA FirstNext ==
  ASSUME MedallionInv, FirstInv, [MedallionNext]_medallionVars
  PROVE  FirstInv'
<1>1. /\ WasInBronze(silverOf) /\ WasInBronze(resolvedOf) /\ WasInBronze(mergedOf) /\ BronzeInv
  BY DEF MedallionInv, GoldInv
<1>2. /\ HeadersTell' => HeadersTell
      /\ SightingsOf(silverOf) = SightingsIn(BronzeRows(silverOf))
      /\ \A F : WasInBronze(F) => SightingsOf(F)' = SightingsOf(F)
  BY ArchiveKept DEF SightingsOf
<1>3. CASE GoldRead
  <2>1. /\ UNCHANGED <<silverOf, mergedOf, offered>>
        /\ resolvedOf' = silverOf /\ offering' = SightingsIn(SilverRows(silverOf))
    BY <1>3 DEF GoldRead, silverVars
  <2> QED
    BY <1>1, <1>2, <2>1, SilverKeepsAll DEF FirstInv
<1>4. CASE GoldMerge
  <2>1. /\ UNCHANGED resolvedOf
        /\ mergedOf' = mergedOf \union resolvedOf /\ offered' = offered \union offering
        /\ goldPc = "merging" /\ goldPc' = "idle"
    BY <1>4 DEF GoldMerge
  <2>2. WasInBronze(mergedOf \union resolvedOf)
    BY <1>1 DEF WasInBronze
  <2>3. PICK G : G = mergedOf \union resolvedOf
    OBVIOUS
  <2>4. SightingsOf(G)' = SightingsOf(mergedOf) \union SightingsOf(resolvedOf)
    BY <1>2, <2>2, <2>3, SightingsUnion
  <2>5. SightingsOf(mergedOf)' = SightingsOf(G)'
    BY <2>1, <2>3
  <2> QED
    BY <1>2, <2>1, <2>4, <2>5 DEF FirstInv
<1>5. CASE ~GoldRead /\ ~GoldMerge
  <2>1. UNCHANGED <<resolvedOf, offering, mergedOf, offered>> /\ goldPc' \in {goldPc, "idle"}
    BY <1>5 DEF MedallionNext, Silver, SilverRead, SilverWrite, Gold, RebuildCrash,
       medallionVars, goldVars, goldHistory
  <2> QED
    BY <1>1, <1>2, <2>1 DEF FirstInv
<1> QED
  BY <1>3, <1>4, <1>5

\* The dedup drops copies only: as long as headers tell payloads apart, no
\* sighting in bronze is missing in silver, whenever silver was built.
THEOREM SightingsKept == MedallionSpec => []SilverKeepsSightings
<1>1. MedallionInv => SilverKeepsSightings
  BY SilverKeepsAll DEF MedallionInv, GoldInv, SilverKeepsSightings, SightingsOf
<1> QED
  BY <1>1, MedallionInitInv, MedallionStepInv, PTL DEF MedallionSpec

\* Gold is a function of the files behind its merges, and not of the order,
\* the batches, the repeats and the crashes that brought them.
THEOREM FirstSightingHolds == MedallionSpec => []GoldIsFirstSighting
<1>1. MedallionInv /\ FirstInv => GoldIsFirstSighting
  <2> SUFFICES ASSUME MedallionInv, FirstInv, HeadersTell, NEW g \in Grains
               PROVE  IsEarliest(gold[g].at, TimesOf(SightingsOf(mergedOf), g))
    BY DEF GoldIsFirstSighting, SightingsOf
  <2>1. offered = SightingsOf(mergedOf) /\ RowFor(gold[g], TimesOf(offered, g))
    BY DEF MedallionInv, GoldInv, FirstInv
  <2> QED
    BY <2>1, NoRowFact DEF RowFor, IsEarliest
<1> QED
  BY <1>1, MedallionInitInv, MedallionStepInv, FirstInit, FirstNext, PTL DEF MedallionSpec
=============================================================================
