----------------------------- MODULE Correction -----------------------------
(***************************************************************************)
(* The prediction-correction model: build_features pairs the archive's     *)
(* arrivals with the agency's forecasts of them, train fits a model on the *)
(* table and scores it against its baselines, and a Corrector serves it if *)
(* the report says that it won.                                            *)
(*                                                                         *)
(* The three meet in files: the feature table, the model's artifact, the   *)
(* report.  None is written atomically, and the artifact and the report    *)
(* are two files.                                                          *)
(***************************************************************************)
EXTENDS Integers, Sequences, FiniteSets, SequencesExt

CONSTANTS
  Visits,      \* stop visits of the agency
  Forecasts,   \* what TripUpdates may say: [visit, issued, predicted]
  Tick,        \* seconds between polls; a vehicle seen in the k-th is there at k * Tick
  MaxHorizon,  \* --max-horizon-s, 3600
  MinRows,     \* 1000 in the code
  Trainers,    \* processes that run train
  Correctors,  \* processes that serve corrections
  MaxPolls, MaxTrainings, MaxDeaths \* bounds

ASSUME CorrectionAssumption ==
  /\ Forecasts \subseteq [visit : Visits, issued : Nat, predicted : Nat]
  /\ Tick \in Nat \ {0} /\ MaxHorizon \in Nat /\ MinRows \in Nat \ {0}
  /\ MaxPolls \in Nat /\ MaxTrainings \in Nat /\ MaxDeaths \in Nat

FEEDS == {"vehicle_positions", "trip_updates"}

None == 0   \* no file, or no process
Torn == -1  \* a file truncated, or with part of its content
Written == "written"

Rows == [visit : Visits, issued : Nat, predicted : Nat, actual : Nat]
Trainings == 1..MaxTrainings

VARIABLES
  positions,  \* the archived positions, the visit of a stopped vehicle per poll
  updates,    \* the archived forecasts, from however many polls
  undecodable,\* the feeds with an archived payload that does not decode
  builder,    \* [pc, labels, rows] of build_features
  table,      \* features.csv
  trainer,    \* [pc, run] of each process
  models,     \* what each training made: [fitted, tested, won], and of, the rows
              \* the table it read was to have
  artifact,   \* the training whose model the joblib file holds
  report,     \* the training whose verdict the report holds
  inArtifact, \* while a process has the artifact open, the trainings that may have
              \* put bytes into it since it was last truncated
  inReport,   \* and into the report
  corrector   \* [pc, model, enabled]

\* History.
VARIABLES
  deaths,
  intended,   \* the rows the table was to have when it was last truncated
  dumping,    \* the last training that is through with the artifact and had it for
              \* itself, None while one is at it or after one was cut short
  reporting,  \* and the same for the report
  calm        \* calm[c]: neither file was touched while c loaded them

archiveVars == <<positions, updates, undecodable>>
buildVars == <<builder, table, intended>>
fileVars == <<artifact, inArtifact, dumping, report, inReport, reporting>>
trainVars == <<trainer, models, fileVars>>
serveVars == <<corrector, calm>>
vars == <<archiveVars, buildVars, trainVars, serveVars, deaths>>

NoBuild == [pc |-> "idle", labels |-> <<>>, rows |-> {}]
Unloaded == [pc |-> "idle", model |-> None, enabled |-> FALSE]

TypeOK ==
  /\ positions \in Seq(Visits) /\ updates \subseteq Forecasts
  /\ undecodable \subseteq FEEDS
  /\ builder.pc \in {"idle", "pairing", "writing"}
  /\ builder.rows \subseteq Rows /\ table \subseteq intended /\ intended \subseteq Rows
  /\ trainer \in [Trainers -> [pc : {"idle", "dump", "dumping", "report", "reporting"},
                               run : {None} \union Trainings]]
  /\ models \in Seq([fitted : SUBSET Rows, tested : SUBSET Rows, of : SUBSET Rows, won : BOOLEAN])
  /\ {artifact, report} \subseteq {None, Torn} \union Trainings
  /\ inArtifact \subseteq Trainings /\ inReport \subseteq Trainings
  /\ corrector \in [Correctors -> [pc : {"idle", "loaded", "ready"},
                                   model : {None} \union Trainings, enabled : BOOLEAN]]
  /\ deaths \in 0..MaxDeaths
  /\ {dumping, reporting} \subseteq {None} \union Trainings
  /\ calm \in [Correctors -> BOOLEAN]

Init ==
  /\ positions = <<>> /\ updates = {} /\ undecodable = {}
  /\ builder = NoBuild /\ table = {} /\ intended = {}
  /\ trainer = [t \in Trainers |-> [pc |-> "idle", run |-> None]]
  /\ models = <<>>
  /\ artifact = None /\ report = None /\ inArtifact = {} /\ inReport = {}
  /\ corrector = [c \in Correctors |-> Unloaded]
  /\ deaths = 0 /\ dumping = None /\ reporting = None
  /\ calm = [c \in Correctors |-> TRUE]

---------------------------------------------------------------------------
(* The poller goes on archiving.                                           *)

polls == Len(positions) + Cardinality(updates) + Cardinality(undecodable)

ArchivePosition(v) ==
  /\ polls < MaxPolls
  /\ positions' = Append(positions, v)
  /\ UNCHANGED <<updates, undecodable, buildVars, trainVars, serveVars, deaths>>

ArchiveUpdate(f) ==
  /\ polls < MaxPolls
  /\ updates' = updates \union {f}
  /\ UNCHANGED <<positions, undecodable, buildVars, trainVars, serveVars, deaths>>

\* What is quarantined is in the raw archive as well, archived first.
ArchiveUndecodable(feed) ==
  /\ polls < MaxPolls
  /\ undecodable' = undecodable \union {feed}
  /\ UNCHANGED <<positions, updates, buildVars, trainVars, serveVars, deaths>>

---------------------------------------------------------------------------
(* build_features.                                                         *)

\* Pass 1: one resolver over all polls in their order makes one arrival of a
\* visit, at its first sighting.
Labels(seen) ==
  [v \in Range(seen) |->
     Tick * CHOOSE k \in DOMAIN seen : seen[k] = v /\ \A j \in 1..(k - 1) : seen[j] # v]

\* Broken: a forecast issued after the arrival is kept.
RowOfAny(labels, f) ==
  IF f.visit \in DOMAIN labels /\ f.predicted > f.issued /\ f.predicted # 0 /\ f.issued # 0
    THEN {[visit |-> f.visit, issued |-> f.issued, predicted |-> f.predicted,
           actual |-> labels[f.visit]]}
    ELSE {}

\* Pass 2: the row of a forecast, if it is of an arrival and was made before it.
RowOf(labels, f) ==
  IF /\ f.visit \in DOMAIN labels
     /\ f.predicted # 0 /\ f.issued # 0
     /\ f.issued < labels[f.visit]
     /\ 0 < f.predicted - f.issued /\ f.predicted - f.issued <= MaxHorizon
    THEN {[visit |-> f.visit, issued |-> f.issued, predicted |-> f.predicted,
           actual |-> labels[f.visit]]}
    ELSE {}

\* Nothing is caught: an undecodable poll, of any day, ends the build.
BuildResolve ==
  /\ builder.pc = "idle"
  /\ "vehicle_positions" \notin undecodable
  /\ positions # <<>>
  /\ builder' = [pc |-> "pairing", labels |-> Labels(positions), rows |-> {}]
  /\ UNCHANGED <<archiveVars, table, intended, trainVars, serveVars, deaths>>

\* The polls are listed again: there may be more of them.  Without a row, or
\* after an exception, the table of the last build stays.
BuildPair ==
  LET rows == UNION {RowOf(builder.labels, f) : f \in updates}
  IN /\ builder.pc = "pairing"
     /\ IF "trip_updates" \in undecodable \/ rows = {}
          THEN builder' = NoBuild /\ UNCHANGED <<table, intended>>
          ELSE /\ builder' = [pc |-> "writing", labels |-> <<>>, rows |-> rows]
               /\ table' = {} /\ intended' = rows
     /\ UNCHANGED <<archiveVars, trainVars, serveVars, deaths>>

\* Broken: the rows are not sorted.
BuildFlushUnsorted ==
  /\ builder.pc = "writing"
  /\ \E r \in builder.rows \ table : table' = table \union {r}
  /\ builder' = IF table' = builder.rows THEN NoBuild ELSE builder
  /\ UNCHANGED <<archiveVars, intended, trainVars, serveVars, deaths>>

\* The rows are flushed in the order of issue, some before the others.
BuildFlush ==
  /\ builder.pc = "writing"
  /\ \E r \in builder.rows \ table :
       /\ \A q \in builder.rows \ table : r.issued <= q.issued
       /\ table' = table \union {r}
  /\ builder' = IF table' = builder.rows THEN NoBuild ELSE builder
  /\ UNCHANGED <<archiveVars, intended, trainVars, serveVars, deaths>>

BuildDie ==
  /\ builder.pc # "idle" /\ deaths < MaxDeaths
  /\ deaths' = deaths + 1
  /\ builder' = NoBuild
  /\ UNCHANGED <<archiveVars, table, intended, trainVars, serveVars>>

---------------------------------------------------------------------------
(* train.                                                                  *)

\* The instant of the split: that of the row, three quarters of the sorted
\* table down, that so many others come before.
UpTo(rows, instant) == Cardinality({r \in rows : r.issued <= instant})

CutEpoch(rows) ==
  LET Late == {r.issued : r \in {q \in rows : UpTo(rows, q.issued) > (3 * Cardinality(rows)) \div 4}}
  IN CHOOSE cut \in Late : \A instant \in Late : cut <= instant

Fitted(rows) == {r \in rows : r.issued < CutEpoch(rows)}

At(t, pc) == [trainer EXCEPT ![t].pc = pc]
Stop(t) == [trainer EXCEPT ![t] = [pc |-> "idle", run |-> None]]

\* The table is read, split, fitted and scored.  Too few rows, or none before
\* the cut, or no feature that varies, and there is no model.
Train(t) ==
  /\ trainer[t].pc = "idle"
  /\ Len(models) < MaxTrainings
  /\ Cardinality(table) >= MinRows
  /\ Fitted(table) # {}
  /\ \E won \in BOOLEAN :
       models' = Append(models, [fitted |-> Fitted(table), tested |-> table \ Fitted(table),
                                 of |-> intended, won |-> won])
  /\ trainer' = [trainer EXCEPT ![t] = [pc |-> "dump", run |-> Len(models) + 1]]
  /\ UNCHANGED <<archiveVars, buildVars, fileVars, serveVars, deaths>>

\* Both files are opened for writing, which truncates them, and each process
\* writes at an offset of its own: two that have one open leave a mixture.
Open(pc) == {t \in Trainers : trainer[t].pc = pc}
Runs(pc) == {trainer[t].run : t \in Open(pc)}

\* What one finds in a file: while it is open, and at the end of a mixture, what
\* any of those wrote, or what does not parse.
Found(file, runs, pc) == IF Open(pc) = {} THEN {file} ELSE runs \union {Torn}

\* What t leaves in it: the others go on writing, if there are any.
Left(t, runs, pc) == IF Open(pc) = {t} THEN runs \union {Torn} ELSE {Torn}
Still(t, runs, pc) == IF Open(pc) = {t} THEN {} ELSE runs

Alone(t, runs, pc) == Open(pc) = {t} /\ runs = {trainer[t].run}

DumpBegin(t) ==
  /\ trainer[t].pc = "dump"
  /\ artifact' = Torn /\ inArtifact' = Runs("dumping") \union {trainer[t].run}
  /\ dumping' = None
  /\ trainer' = At(t, "dumping")
  /\ UNCHANGED <<archiveVars, buildVars, models, report, inReport, reporting, serveVars, deaths>>

DumpEnd(t) ==
  /\ trainer[t].pc = "dumping"
  /\ IF Alone(t, inArtifact, "dumping")
       THEN artifact' = trainer[t].run /\ dumping' = trainer[t].run
       ELSE artifact' \in Left(t, inArtifact, "dumping") /\ dumping' = None
  /\ inArtifact' = Still(t, inArtifact, "dumping")
  /\ trainer' = At(t, "report")
  /\ UNCHANGED <<archiveVars, buildVars, models, report, inReport, reporting, serveVars, deaths>>

ReportBegin(t) ==
  /\ trainer[t].pc = "report"
  /\ report' = Torn /\ inReport' = Runs("reporting") \union {trainer[t].run}
  /\ reporting' = None
  /\ trainer' = At(t, "reporting")
  /\ UNCHANGED <<archiveVars, buildVars, models, artifact, inArtifact, dumping, serveVars, deaths>>

\* Broken: the report of a loser is not written, and the last one stays.
ReportEndIfWon(t) ==
  /\ trainer[t].pc = "reporting"
  /\ report' = IF models[trainer[t].run].won THEN trainer[t].run
               ELSE IF \E m \in DOMAIN models : models[m].won
                      THEN CHOOSE m \in DOMAIN models : models[m].won ELSE None
  /\ reporting' = IF Alone(t, inReport, "reporting") THEN trainer[t].run ELSE None
  /\ inReport' = Still(t, inReport, "reporting")
  /\ trainer' = Stop(t)
  /\ UNCHANGED <<archiveVars, buildVars, models, artifact, inArtifact, dumping, serveVars, deaths>>

ReportEnd(t) ==
  /\ trainer[t].pc = "reporting"
  /\ IF Alone(t, inReport, "reporting")
       THEN report' = trainer[t].run /\ reporting' = trainer[t].run
       ELSE report' \in Left(t, inReport, "reporting") /\ reporting' = None
  /\ inReport' = Still(t, inReport, "reporting")
  /\ trainer' = Stop(t)
  /\ UNCHANGED <<archiveVars, buildVars, models, artifact, inArtifact, dumping, serveVars, deaths>>

\* Some or all of the bytes may have reached the file it was writing.
TrainDie(t) ==
  /\ deaths < MaxDeaths
  /\ \/ /\ trainer[t].pc \in {"dump", "report"}
        /\ UNCHANGED fileVars
     \/ /\ trainer[t].pc = "dumping"
        /\ artifact' \in Left(t, inArtifact, "dumping")
        /\ inArtifact' = Still(t, inArtifact, "dumping")
        /\ UNCHANGED <<dumping, report, inReport, reporting>>
     \/ /\ trainer[t].pc = "reporting"
        /\ report' \in Left(t, inReport, "reporting")
        /\ inReport' = Still(t, inReport, "reporting")
        /\ UNCHANGED <<artifact, inArtifact, dumping, reporting>>
  /\ deaths' = deaths + 1
  /\ trainer' = Stop(t)
  /\ UNCHANGED <<archiveVars, buildVars, models, serveVars>>

---------------------------------------------------------------------------
(* Corrector.                                                              *)

\* The same training was the last to write each file, alone, and got through.
Settled == dumping = reporting

Serve(c, pc, model, enabled) ==
  corrector' = [corrector EXCEPT ![c] = [pc |-> pc, model |-> model, enabled |-> enabled]]

\* __init__: no artifact, or one that does not load, and nothing is corrected.
LoadArtifact(c) ==
  /\ corrector[c].pc = "idle"
  /\ \E found \in Found(artifact, inArtifact, "dumping") :
       IF found \in {None, Torn}
         THEN Serve(c, "ready", None, FALSE)
         ELSE Serve(c, "loaded", found, FALSE)
  /\ calm' = [calm EXCEPT ![c] = Settled]
  /\ UNCHANGED <<archiveVars, buildVars, trainVars, deaths>>

\* A report that says it lost disables the model.  No report, or one that does
\* not parse, does not.
ReadReport(c) ==
  /\ corrector[c].pc = "loaded"
  /\ \E found \in Found(report, inReport, "reporting") :
       Serve(c, "ready", corrector[c].model, found \in {None, Torn} \/ models[found].won)
  /\ calm' = [calm EXCEPT ![c] = @ /\ Settled /\ dumping = corrector[c].model]
  /\ UNCHANGED <<archiveVars, buildVars, trainVars, deaths>>

Restart(c) ==
  /\ corrector[c].pc = "ready"
  /\ corrector' = [corrector EXCEPT ![c] = Unloaded]
  /\ calm' = [calm EXCEPT ![c] = TRUE]
  /\ UNCHANGED <<archiveVars, buildVars, trainVars, deaths>>

MIN_HORIZON_S == 1
MAX_HORIZON_S == 3600

\* correct() applies the model to an ETA that far ahead.
Applies(c, horizon) ==
  corrector[c].enabled /\ MIN_HORIZON_S <= horizon /\ horizon <= MAX_HORIZON_S

Next ==
  \/ \E v \in Visits : ArchivePosition(v)
  \/ \E f \in Forecasts : ArchiveUpdate(f)
  \/ \E feed \in FEEDS : ArchiveUndecodable(feed)
  \/ BuildResolve \/ BuildPair \/ BuildFlush \/ BuildDie
  \/ \E t \in Trainers :
       \/ Train(t)
       \/ DumpBegin(t) \/ DumpEnd(t) \/ ReportBegin(t) \/ ReportEnd(t)
       \/ TrainDie(t)
  \/ \E c \in Correctors : LoadArtifact(c) \/ ReadReport(c) \/ Restart(c)

Spec == Init /\ [][Next]_vars

---------------------------------------------------------------------------
(* Properties.                                                             *)

\* A row of the table, finished or not, is a forecast of the archive made
\* before the first sighting of a vehicle at the stop, which is its label: the
\* target is not known when the features are ("hindsight, not forecast",
\* build_features.py:164).
RowsAreForecasts ==
  \A r \in table :
    /\ [visit |-> r.visit, issued |-> r.issued, predicted |-> r.predicted] \in updates
    /\ r.issued < r.actual /\ r.issued < r.predicted
    /\ \E k \in DOMAIN positions :
         r.actual = k * Tick /\ positions[k] = r.visit /\ \A j \in 1..(k - 1) : positions[j] # r.visit

\* "A strict time cut" (train.py:24): a model is scored on forecasts issued
\* after every one it was fitted on, "so no single instant straddles the
\* boundary" (train.py:131).  And on a table read while it was being written, or
\* left unfinished by a build that died, no older row is missing: what is cut
\* off is the newest part of the history, not a hole in it.
HoldoutFollowsThePast ==
  \A m \in DOMAIN models :
    \A q \in models[m].tested :
      /\ \A r \in models[m].fitted : r.issued < q.issued
      /\ \A r \in models[m].of : r.issued < q.issued =>
            r \in models[m].fitted \union models[m].tested

\* "Refuse to serve a model that did not beat its baseline" (predict.py:115):
\* what a Corrector applies has won, when both files were whole while it read
\* them, and of one training that had each to itself as it wrote it, whichever
\* trainings came before.
CalmlyLoadedModelWon ==
  \A c \in Correctors :
    (calm[c] /\ Applies(c, MIN_HORIZON_S)) => models[corrector[c].model].won
=============================================================================
