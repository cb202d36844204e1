--------------------------- MODULE CorrectionProofs ---------------------------
(***************************************************************************)
(* What the feature table holds and what a corrector that loads in calm    *)
(* applies, for any forecasts, polls, trainers, correctors and deaths.     *)
(***************************************************************************)
EXTENDS Correction, FiniteSetTheorems, SequenceTheorems, WellFoundedInduction, TLAPS

---------------------------------------------------------------------------
(* The invariant.                                                          *)

\* Inductive: what the first pass labelled is a first sighting, what the
\* second pass paired is a forecast before it, and a table being written holds
\* rows of the build that truncated it.
FirstSeen(v, time) ==
  \E k \in DOMAIN positions :
    time = k * Tick /\ positions[k] = v /\ \A j \in 1..(k - 1) : positions[j] # v

IsForecastRow(r) ==
  /\ r \in Rows
  /\ [visit |-> r.visit, issued |-> r.issued, predicted |-> r.predicted] \in updates
  /\ r.issued < r.actual /\ r.issued < r.predicted
  /\ FirstSeen(r.visit, r.actual)

BuildInv ==
  /\ positions \in Seq(Visits) /\ updates \subseteq Forecasts /\ undecodable \subseteq FEEDS
  /\ builder.pc \in {"idle", "pairing", "writing"}
  /\ builder.pc = "pairing" => \A v \in DOMAIN builder.labels : FirstSeen(v, builder.labels[v])
  /\ builder.pc = "writing" => builder.rows = intended
  /\ table \subseteq intended
  /\ \A r \in builder.rows \union intended : IsForecastRow(r)

\* Inductive: whoever names a training names one that was done; a report that a
\* training wrote alone is that training's, and nobody has it open, until the
\* next one begins; and what a corrector enabled in calm is a winner.
Done == 1..Len(models)

TrainInv ==
  /\ models \in Seq([fitted : SUBSET Rows, tested : SUBSET Rows, of : SUBSET Rows, won : BOOLEAN])
  /\ Len(models) <= MaxTrainings
  /\ trainer \in [Trainers -> [pc : {"idle", "dump", "dumping", "report", "reporting"},
                               run : {None} \union Done]]
  /\ {artifact, report} \subseteq {None, Torn} \union Done
  /\ {dumping, reporting} \subseteq {None} \union Done
  /\ inArtifact \subseteq Done /\ inReport \subseteq Done
  /\ \A t \in Trainers : trainer[t].pc # "idle" => trainer[t].run \in Done
  /\ reporting # None => report = reporting /\ Open("reporting") = {}
  /\ deaths \in 0..MaxDeaths

Won(c) == corrector[c].model \in Done /\ models[corrector[c].model].won

ServeInv ==
  /\ corrector \in [Correctors -> [pc : {"idle", "loaded", "ready"},
                                   model : {None} \union Done, enabled : BOOLEAN]]
  /\ calm \in [Correctors -> BOOLEAN]
  /\ \A c \in Correctors :
       /\ corrector[c].pc = "loaded" => corrector[c].model # None /\ ~corrector[c].enabled
       /\ calm[c] /\ corrector[c].enabled => Won(c)

CorrectionInv == BuildInv /\ TrainInv /\ ServeInv

---------------------------------------------------------------------------
(* The labels.                                                             *)

\* A set of naturals that is not empty has a least element.
LEMMA LeastNatural ==
  ASSUME NEW T \in SUBSET Nat, T # {}
  PROVE  \E m \in T : \A u \in T : m <= u
<1> DEFINE R == OpToRel(<, Nat)
<1>1. PICK m \in T : \A u \in T : <<u, m>> \notin R
  <2>1. IsWellFoundedOn(R, Nat)
    BY NatLessThanWellFounded
  <2> HIDE DEF R
  <2> QED
    BY <2>1, WFMin
<1>2. ASSUME NEW u \in T, u < m PROVE <<u, m>> \in R
  BY <1>2 DEF OpToRel
<1>3. \A u \in T : ~(u < m)
  BY <1>1, <1>2
<1> QED
  BY <1>3

\* The resolver's arrival is the first sighting.
LEMMA LabelsAreFirst ==
  ASSUME positions \in Seq(Visits), NEW v \in DOMAIN Labels(positions)
  PROVE  FirstSeen(v, Labels(positions)[v])
<1> DEFINE T == {k \in DOMAIN positions : positions[k] = v}
           IsFirst(k) == positions[k] = v /\ \A j \in 1..(k - 1) : positions[j] # v
<1>1. DOMAIN positions = 1..Len(positions) /\ Len(positions) \in Nat
  BY LenProperties
<1>2. v \in Range(positions)
  BY DEF Labels
<1>3. T \subseteq Nat /\ T # {}
  BY <1>1, <1>2 DEF Range
<1>4. PICK m \in T : \A u \in T : m <= u
  BY <1>3, LeastNatural
<1>5. \A j \in 1..(m - 1) : positions[j] # v
  <2> SUFFICES ASSUME NEW j \in 1..(m - 1), positions[j] = v PROVE FALSE
    OBVIOUS
  <2>1. m \in 1..Len(positions)
    BY <1>1
  <2>2. j \in 1..Len(positions) /\ ~(m <= j)
    BY <1>1, <2>1
  <2> QED
    BY <1>1, <1>4, <2>2
<1>6. \E k \in DOMAIN positions : IsFirst(k)
  BY <1>4, <1>5
<1> DEFINE k == CHOOSE n \in DOMAIN positions : IsFirst(n)
<1>7. k \in DOMAIN positions /\ IsFirst(k)
  BY <1>6
<1>8. Labels(positions)[v] = Tick * k
  BY <1>2 DEF Labels
<1>9. Tick * k = k * Tick
  BY <1>1, <1>7, CorrectionAssumption
<1> QED
  BY <1>7, <1>8, <1>9 DEF FirstSeen

\* The second pass makes rows of forecasts issued before what they foretell.
LEMMA RowsOfForecasts ==
  ASSUME positions \in Seq(Visits), updates \subseteq Forecasts, NEW labels,
         \A v \in DOMAIN labels : FirstSeen(v, labels[v]),
         NEW f \in updates, NEW r \in RowOf(labels, f)
  PROVE  IsForecastRow(r)
<1>1. f \in [visit : Visits, issued : Nat, predicted : Nat]
  BY CorrectionAssumption
<1>2. /\ f.visit \in DOMAIN labels
      /\ f.issued < labels[f.visit]
      /\ 0 < f.predicted - f.issued
      /\ r = [visit |-> f.visit, issued |-> f.issued, predicted |-> f.predicted,
              actual |-> labels[f.visit]]
  BY DEF RowOf
<1>3. FirstSeen(f.visit, labels[f.visit])
  BY <1>2
<1>4. labels[f.visit] \in Nat
  <2>1. PICK k \in DOMAIN positions : labels[f.visit] = k * Tick
    BY <1>3 DEF FirstSeen
  <2>2. k \in Nat
    BY <2>1, LenProperties
  <2> QED
    BY <2>1, <2>2, CorrectionAssumption
<1>5. r \in Rows
  BY <1>1, <1>2, <1>4 DEF Rows
<1>6. [visit |-> r.visit, issued |-> r.issued, predicted |-> r.predicted] = f
  BY <1>1, <1>2
<1>7. r.issued < r.actual /\ r.issued < r.predicted
  BY <1>1, <1>2
<1> QED
  BY <1>2, <1>3, <1>5, <1>6, <1>7 DEF IsForecastRow

\* What is archived later takes nothing back.
LEMMA ArchiveGrows ==
  ASSUME BuildInv,
         \/ \E v \in Visits : ArchivePosition(v)
         \/ \E f \in Forecasts : ArchiveUpdate(f)
         \/ \E feed \in FEEDS : ArchiveUndecodable(feed)
  PROVE  /\ positions' \in Seq(Visits) /\ updates' \subseteq Forecasts /\ undecodable' \subseteq FEEDS
         /\ \A v, time : FirstSeen(v, time) => FirstSeen(v, time)'
         /\ \A r : IsForecastRow(r) => IsForecastRow(r)'
<1>0. positions \in Seq(Visits) /\ updates \subseteq Forecasts /\ undecodable \subseteq FEEDS
  BY DEF BuildInv
<1>1. /\ positions' \in Seq(Visits) /\ updates' \subseteq Forecasts /\ undecodable' \subseteq FEEDS
      /\ DOMAIN positions \subseteq DOMAIN positions' /\ DOMAIN positions \subseteq Nat
      /\ \A k \in DOMAIN positions : positions'[k] = positions[k]
      /\ \A k \in DOMAIN positions : \A j \in 1..(k - 1) : j \in DOMAIN positions
      /\ updates \subseteq updates'
  <2>1. CASE \E v \in Visits : ArchivePosition(v)
    BY <1>0, <2>1, AppendProperties, LenProperties DEF ArchivePosition
  <2>2. CASE \E f \in Forecasts : ArchiveUpdate(f)
    BY <1>0, <2>2, LenProperties DEF ArchiveUpdate
  <2>3. CASE \E feed \in FEEDS : ArchiveUndecodable(feed)
    BY <1>0, <2>3, LenProperties DEF ArchiveUndecodable
  <2> QED
    BY <2>1, <2>2, <2>3
<1>2. ASSUME NEW v, NEW time, FirstSeen(v, time) PROVE FirstSeen(v, time)'
  BY <1>1, <1>2 DEF FirstSeen
<1>3. \A r : IsForecastRow(r) => IsForecastRow(r)'
  BY <1>1, <1>2 DEF IsForecastRow
<1> QED
  BY <1>1, <1>2, <1>3
---------------------------------------------------------------------------
(* The build.                                                              *)

LEMMA BuildStep ==
  ASSUME BuildInv, [Next]_vars
  PROVE  BuildInv'
<1>0. /\ positions \in Seq(Visits) /\ updates \subseteq Forecasts /\ undecodable \subseteq FEEDS
      /\ builder.pc \in {"idle", "pairing", "writing"}
      /\ builder.pc = "pairing" => \A v \in DOMAIN builder.labels : FirstSeen(v, builder.labels[v])
      /\ builder.pc = "writing" => builder.rows = intended
      /\ table \subseteq intended
      /\ \A r \in builder.rows \union intended : IsForecastRow(r)
  BY DEF BuildInv
<1>1. CASE \/ \E v \in Visits : ArchivePosition(v)
           \/ \E f \in Forecasts : ArchiveUpdate(f)
           \/ \E feed \in FEEDS : ArchiveUndecodable(feed)
  <2>1. UNCHANGED <<builder, table, intended>>
    BY <1>1 DEF ArchivePosition, ArchiveUpdate, ArchiveUndecodable, buildVars
  <2> QED
    BY <1>0, <1>1, <2>1, ArchiveGrows DEF BuildInv
<1>2. ASSUME UNCHANGED <<positions, updates>>
      PROVE  /\ \A v, time : FirstSeen(v, time)' <=> FirstSeen(v, time)
             /\ \A r : IsForecastRow(r)' <=> IsForecastRow(r)
  BY <1>2 DEF FirstSeen, IsForecastRow
<1>3. CASE BuildResolve
  <2>1. /\ UNCHANGED <<positions, updates, undecodable, table, intended>>
        /\ builder' = [pc |-> "pairing", labels |-> Labels(positions), rows |-> {}]
    BY <1>3 DEF BuildResolve, archiveVars
  <2>2. \A v \in DOMAIN Labels(positions) : FirstSeen(v, Labels(positions)[v])
    BY <1>0, LabelsAreFirst
  <2>3. \A v \in DOMAIN builder'.labels : FirstSeen(v, builder'.labels[v])
    BY <2>1, <2>2
  <2> QED
    BY <1>0, <1>2, <2>1, <2>3 DEF BuildInv
<1>4. CASE BuildPair
  <2> DEFINE rows == UNION {RowOf(builder.labels, f) : f \in updates}
  <2>1. /\ UNCHANGED <<positions, updates, undecodable>> /\ builder.pc = "pairing"
        /\ \/ builder' = NoBuild /\ UNCHANGED <<table, intended>>
           \/ /\ builder' = [pc |-> "writing", labels |-> <<>>, rows |-> rows]
              /\ table' = {} /\ intended' = rows
    BY <1>4 DEF BuildPair, archiveVars
  <2>2. \A r \in rows : IsForecastRow(r)
    BY <1>0, <2>1, RowsOfForecasts
  <2>3. CASE builder' = NoBuild /\ UNCHANGED <<table, intended>>
    BY <1>0, <1>2, <2>1, <2>3 DEF BuildInv, NoBuild
  <2>4. CASE /\ builder' = [pc |-> "writing", labels |-> <<>>, rows |-> rows]
             /\ table' = {} /\ intended' = rows
    <3> HIDE DEF rows
    <3>1. builder'.pc = "writing" /\ builder'.rows = rows
      BY <2>4
    <3> QED
      BY <1>0, <1>2, <2>1, <2>2, <2>4, <3>1 DEF BuildInv
  <2> QED
    BY <2>1, <2>3, <2>4
<1>5. CASE BuildFlush
  <2>1. /\ UNCHANGED <<positions, updates, undecodable, intended>> /\ builder.pc = "writing"
        /\ table' \subseteq table \union builder.rows
        /\ builder' \in {NoBuild, builder}
    BY <1>5 DEF BuildFlush, archiveVars
  <2> QED
    BY <1>0, <1>2, <2>1 DEF BuildInv, NoBuild
<1>6. CASE BuildDie
  <2>1. UNCHANGED <<positions, updates, undecodable, table, intended>> /\ builder' = NoBuild
    BY <1>6 DEF BuildDie, archiveVars
  <2> QED
    BY <1>0, <1>2, <2>1 DEF BuildInv, NoBuild
<1>7. CASE \/ \E t \in Trainers : \/ Train(t) \/ DumpBegin(t) \/ DumpEnd(t) \/ ReportBegin(t)
                                  \/ ReportEnd(t) \/ TrainDie(t)
           \/ \E c \in Correctors : LoadArtifact(c) \/ ReadReport(c) \/ Restart(c)
           \/ UNCHANGED vars
  <2>1. UNCHANGED <<positions, updates, undecodable, builder, table, intended>>
    BY <1>7 DEF Train, DumpBegin, DumpEnd, ReportBegin, ReportEnd, TrainDie, LoadArtifact, ReadReport,
       Restart, vars, archiveVars, buildVars
  <2> QED
    BY <1>0, <1>2, <2>1 DEF BuildInv
<1> QED
  BY <1>1, <1>3, <1>4, <1>5, <1>6, <1>7 DEF Next

---------------------------------------------------------------------------
(* Training and serving.                                                   *)

\* What is known of the trainings is not forgotten.
LEMMA ModelsGrow ==
  ASSUME TrainInv, ServeInv, models' \in Seq([fitted : SUBSET Rows, tested : SUBSET Rows,
                                              of : SUBSET Rows, won : BOOLEAN]),
         Len(models') >= Len(models), \A m \in Done : models'[m] = models[m],
         UNCHANGED <<corrector, calm>>
  PROVE  Done \subseteq Done' /\ ServeInv'
<1>1. Len(models) \in Nat /\ Len(models') \in Nat
  BY LenProperties DEF TrainInv
<1>2. Done \subseteq Done'
  BY <1>1 DEF Done
<1>3. \A c \in Correctors : Won(c) => Won(c)'
  BY <1>2 DEF Won
<1> QED
  BY <1>2, <1>3 DEF ServeInv

LEMMA TrainStep ==
  ASSUME BuildInv, TrainInv, ServeInv, NEW t \in Trainers, Train(t)
  PROVE  TrainInv' /\ ServeInv'
<1> DEFINE Model == [fitted : SUBSET Rows, tested : SUBSET Rows, of : SUBSET Rows, won : BOOLEAN]
<1>1. table \subseteq Rows /\ intended \subseteq Rows /\ Fitted(table) \subseteq table
  BY DEF BuildInv, IsForecastRow, Fitted
<1>2. /\ models \in Seq(Model) /\ Len(models) \in Nat /\ MaxTrainings \in Nat
      /\ Len(models) < MaxTrainings
  BY LenProperties, CorrectionAssumption DEF TrainInv, Train
<1>3. PICK m \in Model : models' = Append(models, m)
  BY <1>1 DEF Train
<1>4. /\ models' \in Seq(Model) /\ Len(models') = Len(models) + 1
      /\ \A n \in 1..Len(models) : models'[n] = models[n]
  BY <1>2, <1>3, AppendProperties
<1>5. UNCHANGED <<fileVars, corrector, calm, deaths>>
  BY DEF Train, serveVars
<1>6. Done \subseteq Done' /\ Len(models) + 1 \in Done' /\ ServeInv'
  BY <1>2, <1>4, <1>5, ModelsGrow DEF Done
<1>7. /\ trainer \in [Trainers -> [pc : {"idle", "dump", "dumping", "report", "reporting"},
                                     run : {None} \union Done]]
      /\ trainer' = [trainer EXCEPT ![t] = [pc |-> "dump", run |-> Len(models) + 1]]
  BY DEF Train, TrainInv
<1>8. trainer' \in [Trainers -> [pc : {"idle", "dump", "dumping", "report", "reporting"},
                                 run : {None} \union Done']]
  BY <1>6, <1>7
<1>9. /\ \A u \in Trainers : trainer'[u].pc # "idle" => trainer'[u].run \in Done'
      /\ Open("reporting")' \subseteq Open("reporting")
  <2>1. trainer'[t] = [pc |-> "dump", run |-> Len(models) + 1]
    BY <1>7
  <2>2. \A u \in Trainers : u # t => trainer'[u] = trainer[u]
    BY <1>7
  <2>3. \A u \in Trainers : trainer[u].pc # "idle" => trainer[u].run \in Done
    BY DEF TrainInv
  <2> QED
    BY <1>6, <2>1, <2>2, <2>3 DEF Open
<1>10. /\ {artifact', report'} \subseteq {None, Torn} \union Done'
       /\ {dumping', reporting'} \subseteq {None} \union Done'
       /\ inArtifact' \subseteq Done' /\ inReport' \subseteq Done'
       /\ reporting' # None => report' = reporting' /\ Open("reporting")' = {}
  BY <1>5, <1>6, <1>9 DEF TrainInv, fileVars
<1>11. Len(models') <= MaxTrainings /\ deaths' \in 0..MaxDeaths
  BY <1>2, <1>4, <1>5 DEF TrainInv
<1> QED
  BY <1>4, <1>6, <1>8, <1>9, <1>10, <1>11 DEF TrainInv

\* A trainer that writes a file, or is through with it, leaves in it what the
\* trainings that were at it wrote, and the file only when nobody is at it.
LEMMA FileStep ==
  ASSUME TrainInv, ServeInv, NEW t \in Trainers,
         DumpBegin(t) \/ DumpEnd(t) \/ ReportBegin(t) \/ ReportEnd(t) \/ TrainDie(t)
  PROVE  TrainInv' /\ ServeInv'
<1>1. UNCHANGED <<models, corrector, calm>>
  BY DEF DumpBegin, DumpEnd, ReportBegin, ReportEnd, TrainDie, serveVars
<1>2. Done' = Done /\ ServeInv'
  BY <1>1 DEF Done, ServeInv, Won
<1>3. /\ trainer[t].pc # "idle" => trainer[t].run \in Done
      /\ \A pc \in {"dumping", "reporting"} : Runs(pc) \subseteq Done
  BY DEF TrainInv, Runs, Open
<1>4. trainer' \in [Trainers -> [pc : {"idle", "dump", "dumping", "report", "reporting"},
                                 run : {None} \union Done]]
  <2> DEFINE PCs == {"idle", "dump", "dumping", "report", "reporting"}
  <2>1. trainer \in [Trainers -> [pc : PCs, run : {None} \union Done]]
    BY DEF TrainInv
  <2>2. \E p \in PCs : trainer' = At(t, p) \/ trainer' = Stop(t)
    BY DEF DumpBegin, DumpEnd, ReportBegin, ReportEnd, TrainDie
  <2>3. \A p \in PCs : At(t, p) \in [Trainers -> [pc : PCs, run : {None} \union Done]]
    BY <2>1 DEF At
  <2>4. Stop(t) \in [Trainers -> [pc : PCs, run : {None} \union Done]]
    BY <2>1 DEF Stop
  <2> QED
    BY <2>2, <2>3, <2>4
<1>5. /\ inArtifact \subseteq Done /\ inReport \subseteq Done
      /\ {artifact, report} \subseteq {None, Torn} \union Done
      /\ {dumping, reporting} \subseteq {None} \union Done
      /\ \A runs \in SUBSET Done, pc \in {"dumping", "reporting"} :
           /\ Left(t, runs, pc) \subseteq {Torn} \union Done
           /\ Still(t, runs, pc) \subseteq Done
  BY DEF TrainInv, Left, Still
<1>6. /\ {artifact', report'} \subseteq {None, Torn} \union Done
      /\ {dumping', reporting'} \subseteq {None} \union Done
      /\ inArtifact' \subseteq Done /\ inReport' \subseteq Done
  <2>1. CASE DumpBegin(t)
    BY <1>3, <1>5, <2>1 DEF DumpBegin
  <2>2. CASE DumpEnd(t)
    BY <1>3, <1>5, <2>2 DEF DumpEnd
  <2>3. CASE ReportBegin(t)
    BY <1>3, <1>5, <2>3 DEF ReportBegin
  <2>4. CASE ReportEnd(t)
    BY <1>3, <1>5, <2>4 DEF ReportEnd
  <2>5. CASE TrainDie(t)
    BY <1>5, <2>5 DEF TrainDie, fileVars
  <2> QED
    BY <2>1, <2>2, <2>3, <2>4, <2>5
<1>7. /\ \A u \in Trainers : trainer'[u].pc # "idle" => trainer'[u].run \in Done
      /\ ~ReportBegin(t) => Open("reporting")' = Open("reporting") \ {t}
  <2>1. trainer \in [Trainers -> [pc : {"idle", "dump", "dumping", "report", "reporting"},
                                  run : {None} \union Done]]
    BY DEF TrainInv
  <2>2. /\ \A u \in Trainers : u # t => trainer'[u] = trainer[u]
        /\ trainer'[t].pc = "idle" \/ (trainer'[t].run = trainer[t].run /\ trainer[t].pc # "idle")
        /\ ~ReportBegin(t) => trainer'[t].pc # "reporting"
    BY <2>1 DEF DumpBegin, DumpEnd, ReportBegin, ReportEnd, TrainDie, At, Stop
  <2>3. \A u \in Trainers : trainer[u].pc # "idle" => trainer[u].run \in Done
    BY DEF TrainInv
  <2> QED
    BY <2>2, <2>3 DEF Open
<1>9. reporting' # None => report' = reporting' /\ Open("reporting")' = {}
  <2>1. reporting # None => report = reporting /\ Open("reporting") = {}
    BY DEF TrainInv
  <2>2. CASE DumpBegin(t) \/ DumpEnd(t)
    <3>1. UNCHANGED <<report, reporting>> /\ ~ReportBegin(t)
      BY <2>2 DEF DumpBegin, DumpEnd, ReportBegin
    <3> QED
      BY <1>7, <2>1, <3>1
  <2>3. CASE ReportBegin(t)
    BY <2>3 DEF ReportBegin
  <2>4. CASE ReportEnd(t)
    <3>1. ~ReportBegin(t)
      BY <2>4 DEF ReportEnd, ReportBegin
    <3>2. reporting' # None => Open("reporting") = {t} /\ report' = reporting'
      BY <2>4 DEF ReportEnd, Alone
    <3> QED
      BY <1>7, <3>1, <3>2
  <2>5. CASE TrainDie(t)
    <3>1. reporting' = reporting /\ (trainer[t].pc = "reporting" \/ report' = report)
      BY <2>5 DEF TrainDie, fileVars
    <3>2. trainer[t].pc # "reporting" \/ t \in Open("reporting")
      BY DEF Open
    <3>3. CASE ReportBegin(t)
      BY <3>3 DEF ReportBegin
    <3>4. CASE ~ReportBegin(t)
      BY <1>7, <2>1, <3>1, <3>2, <3>4
    <3> QED
      BY <3>3, <3>4
  <2> QED
    BY <2>2, <2>3, <2>4, <2>5
<1>8. deaths' \in 0..MaxDeaths
  BY CorrectionAssumption DEF DumpBegin, DumpEnd, ReportBegin, ReportEnd, TrainDie, TrainInv
<1> QED
  BY <1>1, <1>2, <1>4, <1>6, <1>7, <1>8, <1>9 DEF TrainInv

\* A corrector that loads in calm reads the report of the training whose model
\* it holds: the two files were last written by one training, which had each of
\* them to itself and got through.
LEMMA ServeStep ==
  ASSUME TrainInv, ServeInv, NEW c \in Correctors, LoadArtifact(c) \/ ReadReport(c) \/ Restart(c)
  PROVE  TrainInv' /\ ServeInv'
<1>1. UNCHANGED <<trainer, models, fileVars, deaths>>
  BY DEF LoadArtifact, ReadReport, Restart, trainVars
<1>2. Done' = Done /\ TrainInv'
  BY <1>1 DEF Done, TrainInv, Open, fileVars
<1>3. /\ Found(artifact, inArtifact, "dumping") \subseteq {None, Torn} \union Done
      /\ Found(report, inReport, "reporting") \subseteq {None, Torn} \union Done
      /\ corrector[c] \in [pc : {"idle", "loaded", "ready"}, model : {None} \union Done, enabled : BOOLEAN]
      /\ None \notin Done /\ Torn \notin Done
  <2>1. Len(models) \in Nat
    BY LenProperties DEF TrainInv
  <2>2. None \notin Done /\ Torn \notin Done
    BY <2>1 DEF Done, None, Torn
  <2>3. /\ {artifact, report} \subseteq {None, Torn} \union Done
        /\ inArtifact \subseteq Done /\ inReport \subseteq Done
    BY DEF TrainInv
  <2> QED
    BY <2>2, <2>3 DEF ServeInv, Found
<1>4. \A m \in Done : models[m].won \in BOOLEAN
  <2>1. \A m \in Done : models[m] \in [fitted : SUBSET Rows, tested : SUBSET Rows,
                                      of : SUBSET Rows, won : BOOLEAN]
    BY ElementOfSeq DEF TrainInv, Done
  <2> QED
    BY <2>1
<1>5. corrector' \in [Correctors -> [pc : {"idle", "loaded", "ready"},
                                     model : {None} \union Done, enabled : BOOLEAN]]
  <2>1. CASE LoadArtifact(c)
    <3>1. \E p \in {"ready", "loaded"}, m \in {None} \union Done : Serve(c, p, m, FALSE)
      BY <1>3, <2>1 DEF LoadArtifact
    <3> QED
      BY <3>1 DEF Serve, ServeInv
  <2>2. CASE ReadReport(c)
    <3>1. PICK found \in Found(report, inReport, "reporting") :
            Serve(c, "ready", corrector[c].model, found \in {None, Torn} \/ models[found].won)
      BY <2>2 DEF ReadReport
    <3>2. (found \in {None, Torn} \/ models[found].won) \in BOOLEAN
      BY <1>3, <1>4
    <3> QED
      BY <1>3, <3>1, <3>2 DEF Serve, ServeInv
  <2>3. CASE Restart(c)
    BY <2>3 DEF Restart, Unloaded, ServeInv
  <2> QED
    BY <2>1, <2>2, <2>3
<1>6. calm' \in [Correctors -> BOOLEAN]
  BY DEF LoadArtifact, ReadReport, Restart, ServeInv, Settled
<1>7. \A d \in Correctors : d # c => corrector'[d] = corrector[d] /\ calm'[d] = calm[d]
  BY DEF LoadArtifact, ReadReport, Restart, Serve, ServeInv
<1>8. /\ corrector'[c].pc = "loaded" => corrector'[c].model # None /\ ~corrector'[c].enabled
      /\ calm'[c] /\ corrector'[c].enabled => Won(c)'
  <2>1. CASE LoadArtifact(c)
    <3>1. PICK found \in Found(artifact, inArtifact, "dumping") :
            \/ Serve(c, "ready", None, FALSE)
            \/ found \notin {None, Torn} /\ Serve(c, "loaded", found, FALSE)
      BY <2>1 DEF LoadArtifact
    <3>2. \/ corrector'[c] = [pc |-> "ready", model |-> None, enabled |-> FALSE]
          \/ found # None /\ corrector'[c] = [pc |-> "loaded", model |-> found, enabled |-> FALSE]
      BY <3>1 DEF Serve, ServeInv
    <3> QED
      BY <3>2
  <2>2. CASE ReadReport(c)
    <3>1. /\ corrector[c].pc = "loaded" /\ corrector[c].model \in Done
          /\ \E found \in Found(report, inReport, "reporting") :
               corrector'[c] = [pc |-> "ready", model |-> corrector[c].model,
                                enabled |-> found \in {None, Torn} \/ models[found].won]
          /\ calm'[c] => dumping = reporting /\ dumping = corrector[c].model
      BY <1>3, <2>2 DEF ReadReport, Serve, ServeInv, Settled
    <3>2. ASSUME calm'[c], corrector'[c].enabled PROVE Won(c)'
      <4>1. /\ report = corrector[c].model /\ report \notin {None, Torn}
            /\ Found(report, inReport, "reporting") = {report}
        <5>1. reporting = corrector[c].model /\ reporting # None
          BY <1>3, <3>1, <3>2
        <5>2. report = reporting /\ Found(report, inReport, "reporting") = {report}
          BY <5>1 DEF TrainInv, Found
        <5>3. corrector[c].model \in Done
          BY <3>1
        <5>4. corrector[c].model \notin {None, Torn}
          BY <1>3, <5>3
        <5> QED
          BY <5>1, <5>2, <5>4
      <4>2. models[corrector[c].model].won
        <5>1. corrector'[c].enabled = (report \in {None, Torn} \/ models[report].won)
          BY <3>1, <4>1
        <5>2. report \in {None, Torn} \/ models[report].won
          BY <3>2, <5>1, Zenon
        <5> QED
          BY <4>1, <5>2, Zenon
      <4> QED
        BY <1>1, <1>2, <3>1, <4>2 DEF Won
    <3> QED
      BY <3>1, <3>2
  <2>3. CASE Restart(c)
    <3>1. corrector'[c] = Unloaded
      BY <2>3 DEF Restart, ServeInv
    <3> QED
      BY <3>1 DEF Unloaded
  <2> QED
    BY <2>1, <2>2, <2>3
<1>9. \A d \in Correctors : d # c => (Won(d)' <=> Won(d))
  BY <1>1, <1>2, <1>7 DEF Won
<1> QED
  BY <1>2, <1>5, <1>6, <1>7, <1>8, <1>9 DEF ServeInv

---------------------------------------------------------------------------
LEMMA CorrectionInit == Init => CorrectionInv
<1> SUFFICES ASSUME Init PROVE CorrectionInv
  OBVIOUS
<1>1. BuildInv
  BY EmptySeq DEF Init, BuildInv, NoBuild
<1>2. TrainInv
  <2>1. Open("reporting") = {}
    BY DEF Init, Open
  <2> QED
    BY <2>1, EmptySeq, CorrectionAssumption DEF Init, TrainInv, None
<1>3. ServeInv
  BY DEF Init, ServeInv, Unloaded
<1> QED
  BY <1>1, <1>2, <1>3 DEF CorrectionInv

LEMMA CorrectionStep ==
  ASSUME CorrectionInv, [Next]_vars
  PROVE  CorrectionInv'
<1>0. BuildInv /\ TrainInv /\ ServeInv /\ BuildInv'
  BY BuildStep DEF CorrectionInv
<1>1. CASE \E t \in Trainers : \/ Train(t) \/ DumpBegin(t) \/ DumpEnd(t) \/ ReportBegin(t)
                               \/ ReportEnd(t) \/ TrainDie(t)
  BY <1>0, <1>1, TrainStep, FileStep DEF CorrectionInv
<1>2. CASE \E c \in Correctors : LoadArtifact(c) \/ ReadReport(c) \/ Restart(c)
  BY <1>0, <1>2, ServeStep DEF CorrectionInv
<1>3. CASE \/ \E v \in Visits : ArchivePosition(v)
           \/ \E f \in Forecasts : ArchiveUpdate(f)
           \/ \E feed \in FEEDS : ArchiveUndecodable(feed)
           \/ BuildResolve \/ BuildPair \/ BuildFlush \/ BuildDie \/ UNCHANGED vars
  <2>1. /\ UNCHANGED <<trainer, models, fileVars, corrector, calm>>
        /\ deaths' \in {deaths} \union (IF deaths < MaxDeaths THEN {deaths + 1} ELSE {})
    BY <1>3 DEF ArchivePosition, ArchiveUpdate, ArchiveUndecodable, BuildResolve, BuildPair,
       BuildFlush, BuildDie, vars, trainVars, serveVars
  <2>2. deaths' \in 0..MaxDeaths
    BY <1>0, <2>1, CorrectionAssumption DEF TrainInv
  <2>3. TrainInv' /\ ServeInv'
    BY <1>0, <2>1, <2>2 DEF TrainInv, ServeInv, Done, Won, Open, fileVars
  <2> QED
    BY <1>0, <2>3 DEF CorrectionInv
<1> QED
  BY <1>1, <1>2, <1>3 DEF Next

---------------------------------------------------------------------------
(* The holdout.                                                            *)

\* A finite table has a last row: one that the fewest rows come after.
LEMMA LastRow ==
  ASSUME NEW S \in SUBSET Rows, IsFiniteSet(S), S # {}
  PROVE  \E q \in S : \A r \in S : r.issued <= q.issued
<1> DEFINE After(q) == {r \in S : r.issued > q.issued}
           T == {Cardinality(After(q)) : q \in S}
<1>1. \A q \in S : q.issued \in Nat
  BY DEF Rows
<1>2. \A q \in S : IsFiniteSet(After(q)) /\ Cardinality(After(q)) \in Nat
  <2> SUFFICES ASSUME NEW q \in S PROVE IsFiniteSet(After(q)) /\ Cardinality(After(q)) \in Nat
    OBVIOUS
  <2>1. After(q) \in SUBSET S
    OBVIOUS
  <2>2. IsFiniteSet(After(q))
    BY <2>1, FS_Subset
  <2> QED
    BY <2>2, FS_CardinalityType
<1>3. T \subseteq Nat /\ T # {}
  BY <1>2
<1>4. PICK m \in T : \A u \in T : m <= u
  BY <1>3, LeastNatural
<1>5. PICK q \in S : Cardinality(After(q)) = m
  BY <1>4
<1>6. \A r \in S : r.issued <= q.issued
  <2> SUFFICES ASSUME NEW r \in S, r.issued > q.issued PROVE FALSE
    BY <1>1
  <2>1. After(r) \in SUBSET After(q) /\ r \in After(q) /\ r \notin After(r)
    BY <1>1
  <2>2. After(q) # After(r)
    BY <2>1
  <2>3. /\ IsFiniteSet(After(q))
        /\ Cardinality(After(q)) \in Nat /\ Cardinality(After(r)) \in Nat
    BY <1>2
  <2>4. Cardinality(After(q)) <= Cardinality(After(r))
    BY <1>4, <1>5
  <2>5. After(r) \in SUBSET After(q)
    BY <2>1
  <2> HIDE DEF After
  <2>6. /\ Cardinality(After(r)) <= Cardinality(After(q))
        /\ Cardinality(After(q)) = Cardinality(After(r)) => After(q) = After(r)
    BY <2>3, <2>5, FS_Subset
  <2> QED
    BY <2>2, <2>3, <2>4, <2>6
<1> QED
  BY <1>6

\* The cut falls on an instant of the table.
LEMMA CutIsInstant ==
  ASSUME NEW S \in SUBSET Rows, IsFiniteSet(S), S # {}
  PROVE  CutEpoch(S) \in Nat
<1> DEFINE N == Cardinality(S)
           Late == {r.issued : r \in {q \in S : UpTo(S, q.issued) > (3 * N) \div 4}}
<1>1. N \in Nat /\ N # 0
  BY FS_CardinalityType, FS_EmptySet
<1>2. PICK q \in S : \A r \in S : r.issued <= q.issued
  BY LastRow
<1>3. {r \in S : r.issued <= q.issued} = S
  BY <1>2
<1>4. UpTo(S, q.issued) = N
  BY <1>3 DEF UpTo
<1> HIDE DEF N
<1>5. N > (3 * N) \div 4
  BY <1>1
<1>6. Late \subseteq Nat
  BY DEF Rows
<1>7. q.issued \in Late
  BY <1>4, <1>5
<1>8. \E cut \in Late : \A instant \in Late : cut <= instant
  BY <1>6, <1>7, LeastNatural
<1>9. CutEpoch(S) = CHOOSE cut \in Late : \A instant \in Late : cut <= instant
  BY DEF CutEpoch, N
<1> HIDE DEF Late
<1> QED
  BY <1>6, <1>8, <1>9

\* Inductive: what is missing in the table is not older than what is there, and
\* what a training was given is split at an instant.
HoldoutInv ==
  /\ IsFiniteSet(table)
  /\ \A q \in table, r \in intended : r.issued < q.issued => r \in table
  /\ \A m \in Done : \A q \in models[m].tested :
       /\ \A r \in models[m].fitted : r.issued < q.issued
       /\ \A r \in models[m].of : r.issued < q.issued => r \in models[m].fitted \union models[m].tested

LEMMA TableStep ==
  ASSUME BuildInv, HoldoutInv, [Next]_vars
  PROVE  /\ IsFiniteSet(table')
         /\ \A q \in table', r \in intended' : r.issued < q.issued => r \in table'
<1>1. CASE BuildPair
  <2>1. table' = {} \/ UNCHANGED <<table, intended>>
    BY <1>1 DEF BuildPair
  <2> QED
    BY <2>1, FS_EmptySet DEF HoldoutInv
<1>2. CASE BuildFlush
  <2>1. builder.rows = intended /\ intended' = intended
    BY <1>2 DEF BuildFlush, BuildInv
  <2>2. PICK r \in intended \ table :
          /\ \A q \in intended \ table : r.issued <= q.issued
          /\ table' = table \union {r}
    BY <1>2, <2>1 DEF BuildFlush
  <2>3. IsFiniteSet(table')
    BY <2>2, FS_AddElement DEF HoldoutInv
  <2>4. \A q \in intended : q.issued \in Nat
    <3>1. \A q \in intended : q \in Rows
      BY DEF BuildInv, IsForecastRow
    <3> QED
      BY <3>1 DEF Rows
  <2>5. ASSUME NEW q \in table', NEW p \in intended, p.issued < q.issued PROVE p \in table'
    <3>1. CASE q \in table
      BY <2>2, <2>5, <3>1 DEF HoldoutInv
    <3>2. CASE q = r
      <4>1. ~(r.issued <= p.issued)
        BY <2>2, <2>4, <2>5, <3>2
      <4> QED
        BY <2>2, <4>1
    <3> QED
      BY <2>2, <3>1, <3>2
  <2> QED
    BY <2>1, <2>3, <2>5
<1>3. CASE ~BuildPair /\ ~BuildFlush
  <2>1. UNCHANGED <<table, intended>>
    BY <1>3 DEF Next, ArchivePosition, ArchiveUpdate, ArchiveUndecodable, BuildResolve, BuildDie,
       Train, DumpBegin, DumpEnd, ReportBegin, ReportEnd, TrainDie, LoadArtifact, ReadReport, Restart,
       buildVars, vars
  <2> QED
    BY <2>1 DEF HoldoutInv
<1> QED
  BY <1>1, <1>2, <1>3

\* The split of a table, finished or not.
LEMMA SplitOfTable ==
  ASSUME BuildInv, HoldoutInv, NEW q \in table \ Fitted(table), Fitted(table) # {}
  PROVE  /\ \A r \in Fitted(table) : r.issued < q.issued
         /\ \A r \in intended : r.issued < q.issued => r \in table
<1>1. \A r \in table : r \in Rows /\ r.issued \in Nat
  <2>1. \A r \in table : r \in Rows
    BY DEF BuildInv, IsForecastRow
  <2> QED
    BY <2>1 DEF Rows
<1>2. CutEpoch(table) \in Nat
  BY <1>1, CutIsInstant DEF HoldoutInv
<1>3. ~(q.issued < CutEpoch(table)) /\ \A r \in Fitted(table) : r \in table /\ r.issued < CutEpoch(table)
  BY DEF Fitted
<1> QED
  BY <1>1, <1>2, <1>3 DEF HoldoutInv

LEMMA HoldoutStep ==
  ASSUME CorrectionInv, HoldoutInv, [Next]_vars
  PROVE  HoldoutInv'
<1>0. /\ IsFiniteSet(table')
      /\ \A q \in table', r \in intended' : r.issued < q.issued => r \in table'
      /\ BuildInv
  BY TableStep DEF CorrectionInv
<1>1. ASSUME NEW t \in Trainers, Train(t) PROVE HoldoutInv'
  <2>1. PICK won \in BOOLEAN :
          models' = Append(models, [fitted |-> Fitted(table), tested |-> table \ Fitted(table),
                                    of |-> intended, won |-> won])
    BY <1>1 DEF Train
  <2>2. Fitted(table) # {} /\ Fitted(table) \subseteq table /\ table \subseteq Rows /\ intended \subseteq Rows
    BY <1>0, <1>1 DEF Train, Fitted, BuildInv, IsForecastRow
  <2>3. models \in Seq([fitted : SUBSET Rows, tested : SUBSET Rows, of : SUBSET Rows, won : BOOLEAN])
    BY DEF CorrectionInv, TrainInv
  <2>4. /\ Len(models) \in Nat /\ Len(models') = Len(models) + 1
        /\ \A m \in 1..Len(models) : models'[m] = models[m]
        /\ models'[Len(models) + 1] = [fitted |-> Fitted(table), tested |-> table \ Fitted(table),
                                       of |-> intended, won |-> won]
    BY <2>1, <2>2, <2>3, AppendProperties, LenProperties
  <2>5. \A m \in Done' : m \in Done \/ m = Len(models) + 1
    BY <2>4 DEF Done
  <2>6. ASSUME NEW m \in Done', NEW q \in models'[m].tested
        PROVE  /\ \A r \in models'[m].fitted : r.issued < q.issued
               /\ \A r \in models'[m].of : r.issued < q.issued
                                            => r \in models'[m].fitted \union models'[m].tested
    <3>1. CASE m \in Done
      <4>1. models'[m] = models[m]
        BY <2>4, <3>1 DEF Done
      <4> QED
        BY <2>6, <3>1, <4>1 DEF HoldoutInv
    <3>2. CASE m = Len(models) + 1
      <4>1. /\ models'[m].fitted = Fitted(table) /\ models'[m].of = intended
            /\ models'[m].tested = table \ Fitted(table)
        BY <2>4, <3>2
      <4>2. models'[m].fitted \union models'[m].tested = table
        BY <2>2, <4>1
      <4> QED
        BY <1>0, <2>2, <2>6, <4>1, <4>2, SplitOfTable
    <3> QED
      BY <2>5, <2>6, <3>1, <3>2
  <2> QED
    BY <1>0, <2>6 DEF HoldoutInv
<1>2. CASE \A t \in Trainers : ~Train(t)
  <2>1. models' = models
    BY <1>2 DEF Next, ArchivePosition, ArchiveUpdate, ArchiveUndecodable, BuildResolve, BuildPair,
       BuildFlush, BuildDie, DumpBegin, DumpEnd, ReportBegin, ReportEnd, TrainDie, LoadArtifact,
       ReadReport, Restart, trainVars, vars
  <2>2. Done' = Done
    BY <2>1 DEF Done
  <2> QED
    BY <1>0, <2>1, <2>2 DEF HoldoutInv
<1> QED
  BY <1>1, <1>2

LEMMA HoldoutInit == Init => HoldoutInv
<1> SUFFICES ASSUME Init PROVE HoldoutInv
  OBVIOUS
<1>1. Len(models) = 0 /\ table = {}
  BY EmptySeq DEF Init
<1> QED
  BY <1>1, FS_EmptySet DEF HoldoutInv, Done

---------------------------------------------------------------------------
(* The theorems.                                                           *)

\* Archive, table, trainings, files and correctors keep their types.
THEOREM CorrectionTypeCorrect == Spec => []TypeOK
<1>1. CorrectionInv => TypeOK
  <2> SUFFICES ASSUME CorrectionInv PROVE TypeOK
    OBVIOUS
  <2>1. Done \subseteq Trainings
    <3>1. Len(models) \in Nat /\ Len(models) <= MaxTrainings /\ MaxTrainings \in Nat
      BY LenProperties, CorrectionAssumption DEF CorrectionInv, TrainInv
    <3> QED
      BY <3>1 DEF Done, Trainings
  <2>2. builder.rows \subseteq Rows /\ intended \subseteq Rows
    BY DEF CorrectionInv, BuildInv, IsForecastRow
  <2>3. trainer \in [Trainers -> [pc : {"idle", "dump", "dumping", "report", "reporting"},
                                  run : {None} \union Trainings]]
    BY <2>1 DEF CorrectionInv, TrainInv
  <2>4. corrector \in [Correctors -> [pc : {"idle", "loaded", "ready"},
                                      model : {None} \union Trainings, enabled : BOOLEAN]]
    BY <2>1 DEF CorrectionInv, ServeInv
  <2> QED
    BY <2>1, <2>2, <2>3, <2>4 DEF CorrectionInv, BuildInv, TrainInv, ServeInv, TypeOK
<1> QED
  BY <1>1, CorrectionInit, CorrectionStep, PTL DEF Spec

\* A row of the feature table is a forecast made before the first sighting that
\* labels it, though the archive grows between the two passes, whenever the
\* table is read and whichever builds died writing it.
THEOREM RowsHold == Spec => []RowsAreForecasts
<1>1. CorrectionInv => RowsAreForecasts
  BY DEF CorrectionInv, BuildInv, IsForecastRow, FirstSeen, RowsAreForecasts
<1> QED
  BY <1>1, CorrectionInit, CorrectionStep, PTL DEF Spec

\* A corrector that read both files while they were whole, and of one training
\* that wrote each of them alone, applies a model only if it won: for any number
\* of trainers, overlapping or not, trainings and deaths.
THEOREM CalmHolds == Spec => []CalmlyLoadedModelWon
<1>1. CorrectionInv => CalmlyLoadedModelWon
  BY DEF CorrectionInv, ServeInv, Won, Applies, CalmlyLoadedModelWon
<1> QED
  BY <1>1, CorrectionInit, CorrectionStep, PTL DEF Spec

\* A model is scored on what was issued after all it was fitted on, and on a
\* table read half written, or left so, nothing older is missing.
THEOREM HoldoutHolds == Spec => []HoldoutFollowsThePast
<1>1. CorrectionInv /\ HoldoutInv => HoldoutFollowsThePast
  <2> SUFFICES ASSUME CorrectionInv, HoldoutInv PROVE HoldoutFollowsThePast
    OBVIOUS
  <2>1. DOMAIN models = Done
    BY LenProperties DEF CorrectionInv, TrainInv, Done
  <2> QED
    BY <2>1 DEF HoldoutInv, HoldoutFollowsThePast
<1> QED
  BY <1>1, CorrectionInit, CorrectionStep, HoldoutInit, HoldoutStep, PTL DEF Spec
===============================================================================
