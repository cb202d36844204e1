----------------------------- MODULE Medallion -----------------------------
(***************************************************************************)
(* From bronze to the arrival facts.  Silver (spark/silver.py) overwrites  *)
(* its table from a snapshot of all of bronze, keeping of the rows with    *)
(* one feed header and one entity the copy received first.  Gold           *)
(* (spark/gold.py) resolves the first sighting of every stop visit from a  *)
(* snapshot of silver and merges it: insert what is new, replace a row     *)
(* only by an earlier one.  The jobs are separate processes: bronze may    *)
(* grow between silver's read and its write, silver may be rewritten       *)
(* between gold's read and its merge.  Each write is one Delta commit, so  *)
(* a job that dies has either done it or not.                              *)
(***************************************************************************)
EXTENDS Bronze

CONSTANTS
  Vehicles,    \* entity ids
  Grains,      \* stop visits: (service_date, trip_id, stop_sequence)
  Times        \* the vehicles' own timestamps

\* A payload has a header timestamp (0 when the feed sets none) and says of
\* each vehicle it reports either that it is stopped at a visit, or, as the
\* empty set, something gold has no use for (moving, no visit, no timestamp).
Sightings == [grain : Grains, at : Times]
Reports == {{}} \union {{s} : s \in Sightings}

ASSUME MedallionAssumption ==
  /\ Times \subseteq Nat \ {0}
  /\ \A c \in Decodable :
       c.header \in Nat /\ c.report \in UNION {[V -> Reports] : V \in SUBSET Vehicles}

VARIABLES
  silverPc,   \* is silver between its read and its write?
  scanned,    \* the files whose rows that read found in bronze
  silverOf,   \* the files silver was last built from
  goldPc,     \* is gold between its read and its merge?
  arrivals,   \* what it resolved: visit -> row
  gold,       \* fct_stop_arrival: visit -> row
  resolvedOf, \* history: the files of the silver that gold read
  offering,   \* history: the sightings in it
  mergedOf,   \* history: the files behind all merges
  offered     \* history: the sightings behind all merges

silverVars == <<silverPc, scanned, silverOf>>
goldHistory == <<resolvedOf, offering, mergedOf, offered>>
goldVars == <<goldPc, arrivals, gold, goldHistory>>
medallionVars == <<bronzeVars, silverVars, goldVars>>

\* A gold row: the arrival, the file it was read from (its lineage) and all
\* the times the vehicle was seen stopped, which last_stopped_ts, the dwell
\* and n_stopped_observations summarise.
NoRow == [at |-> 0, from |-> 0, seen |-> {}]
GoldRows == [at : Times, from : Files, seen : SUBSET Times] \union {NoRow}

MedallionTypeOK ==
  /\ silverPc \in {"idle", "writing"}
  /\ scanned \in SUBSET Files
  /\ silverOf \in SUBSET Files
  /\ goldPc \in {"idle", "merging"}
  /\ arrivals \in [Grains -> GoldRows]
  /\ gold \in [Grains -> GoldRows]
  /\ resolvedOf \in SUBSET Files
  /\ offering \in SUBSET Sightings
  /\ mergedOf \in SUBSET Files
  /\ offered \in SUBSET Sightings

MedallionInit ==
  /\ BronzeInit
  /\ silverPc = "idle" /\ goldPc = "idle"
  /\ scanned = {} /\ silverOf = {}
  /\ arrivals = [g \in Grains |-> NoRow]
  /\ gold = [g \in Grains |-> NoRow]
  /\ resolvedOf = {} /\ offering = {}
  /\ mergedOf = {} /\ offered = {}

---------------------------------------------------------------------------
(* The tables as functions of the files they are computed from.  Copies of *)
(* a bronze row agree in everything, ingest_ts and source_path included,   *)
(* so a set of rows hides no choice.                                       *)

Loaded == {f \in 1..polls : rows[f] > 0}

BronzeRows(F) ==
  {r \in [file : F, vehicle : Vehicles] : r.vehicle \in DOMAIN content[r.file].report}

\* Broken: the header timestamp left out of the key.
SameKeyByVehicle(r, q) == r.vehicle = q.vehicle

\* DEDUP_KEYS.  Two missing headers are one key.
SameKey(r, q) ==
  r.vehicle = q.vehicle /\ content[r.file].header = content[q.file].header

\* row_number() = 1 by ingest_ts, source_path.
Deduplicated(R) == {r \in R : \A q \in R : SameKey(r, q) => r.file <= q.file}

SilverRows(F) == Deduplicated(BronzeRows(F))

SightingsIn(R) == UNION {content[r.file].report[r.vehicle] : r \in R}
TimesOf(S, g) == {s.at : s \in {x \in S : x.grain = g}}

---------------------------------------------------------------------------
(* Silver.                                                                 *)

\* Broken: silver is only built when there is none.
SilverReadOnce ==
  /\ silverPc = "idle"
  /\ target /\ silverOf = {}
  /\ scanned' = Loaded
  /\ silverPc' = "writing"
  /\ UNCHANGED <<bronzeVars, silverOf, goldVars>>

\* There must be a table; load() pins the version of it that the run will see.
SilverRead ==
  /\ silverPc = "idle"
  /\ target
  /\ scanned' = Loaded
  /\ silverPc' = "writing"
  /\ UNCHANGED <<bronzeVars, silverOf, goldVars>>

SilverWrite ==
  /\ silverPc = "writing"
  /\ silverOf' = scanned
  /\ silverPc' = "idle"
  /\ UNCHANGED <<bronzeVars, scanned, goldVars>>

---------------------------------------------------------------------------
(* Gold.                                                                   *)

\* The rows resolve_arrivals may make of a visit: row_number() = 1 by
\* vehicle_report_ts alone, so any of the rows tied for earliest.
Resolved(R, g) ==
  LET T == TimesOf(SightingsIn(R), g)
  IN IF T = {} THEN {NoRow}
     ELSE {row \in [at : T, from : {r.file : r \in R}, seen : {T}] :
             /\ \A t \in T : row.at <= t
             /\ \E r \in R : /\ r.file = row.from
                             /\ [grain |-> g, at |-> row.at] \in SightingsIn({r})}

GoldRead ==
  /\ goldPc = "idle"
  /\ silverOf # {}
  /\ LET R == SilverRows(silverOf)
     IN /\ arrivals' \in [Grains -> UNION {Resolved(R, g) : g \in Grains}]
        /\ \A g \in Grains : arrivals'[g] \in Resolved(R, g)
        /\ offering' = SightingsIn(R)
  /\ resolvedOf' = silverOf
  /\ goldPc' = "merging"
  /\ UNCHANGED <<bronzeVars, silverVars, gold, mergedOf, offered>>

\* Broken: inserts only; a blind overwrite; the lineage always overwritten.
MergeInserts(t, s) == IF t = NoRow THEN s ELSE t
MergeOverwrites(t, s) == IF s # NoRow THEN s ELSE t
MergeKeepsLineage(t, s) ==
  IF s # NoRow /\ (t = NoRow \/ s.at < t.at) THEN s ELSE [t EXCEPT !.from = s.from]

\* whenNotMatchedInsertAll, and whenMatchedUpdateAll on an earlier sighting.
Merge(t, s) == IF s # NoRow /\ (t = NoRow \/ s.at < t.at) THEN s ELSE t

GoldMerge ==
  /\ goldPc = "merging"
  /\ gold' = [g \in Grains |-> Merge(gold[g], arrivals[g])]
  /\ offered' = offered \union offering
  /\ mergedOf' = mergedOf \union resolvedOf
  /\ goldPc' = "idle"
  /\ UNCHANGED <<bronzeVars, silverVars, arrivals, resolvedOf, offering>>

---------------------------------------------------------------------------
\* Silver or gold dies between its read and its write.
RebuildCrash ==
  /\ crashes < MaxCrashes
  /\ crashes' = crashes + 1
  /\ \/ silverPc = "writing" /\ silverPc' = "idle" /\ UNCHANGED goldPc
     \/ goldPc = "merging" /\ goldPc' = "idle" /\ UNCHANGED silverPc
  /\ UNCHANGED <<archiveVars, tableVars, failed, jobVars, tornSeen,
                 scanned, silverOf, arrivals, gold, goldHistory>>

---------------------------------------------------------------------------
Silver == SilverRead \/ SilverWrite
Gold == GoldRead \/ GoldMerge

MedallionNext ==
  \/ (Poller \/ Batch \/ Stream \/ Crash) /\ UNCHANGED <<silverVars, goldVars>>
  \/ Silver
  \/ Gold
  \/ RebuildCrash

MedallionSpec == MedallionInit /\ [][MedallionNext]_medallionVars

\* Each job runs again and again (make lake, the daily schedule).
MedallionFairSpec ==
  /\ MedallionSpec
  /\ WF_medallionVars(Batch /\ UNCHANGED <<silverVars, goldVars>>)
  /\ WF_medallionVars(Stream /\ UNCHANGED <<silverVars, goldVars>>)
  /\ WF_medallionVars(Silver)
  /\ WF_medallionVars(Gold)

---------------------------------------------------------------------------
(* Properties.                                                             *)

IsEarliest(t, T) ==
  \/ T = {} /\ t = 0
  \/ t \in T /\ \A u \in T : t <= u

AF == INSTANCE ArrivalFacts WITH fact <- [g \in Grains |-> gold[g].at]

\* Gold implements ArrivalFacts: however the jobs interleave, die and run
\* again, a fact is the earliest of all sightings merged so far, so that
\* "reprocessing can never push a timestamp later" (gold.py:131).
GoldImplementsFacts == AF!FactsSpec

\* What DEDUP_KEYS takes for granted: one header timestamp, one payload.
HeadersTell ==
  \A e, f \in 1..polls :
    /\ {content[e], content[f]} \subseteq Decodable
    /\ content[e].header = content[f].header
    => content[e] = content[f]

\* "It does NOT drop rows" (silver.py:13): where headers tell payloads apart,
\* the dedup drops copies only, and no sighting in bronze is missing in silver.
SilverKeepsSightings ==
  HeadersTell => SightingsIn(SilverRows(silverOf)) = SightingsIn(BronzeRows(silverOf))

\* Gold is then a function of the files it has seen, whatever the order, the
\* batches, the repeats and the crashes that brought them, and the start of the
\* streaming job that took some away again: the arrival is the first sighting in
\* the files behind the merges.
GoldIsFirstSighting ==
  HeadersTell =>
    \A g \in Grains :
      IsEarliest(gold[g].at, TimesOf(SightingsIn(BronzeRows(mergedOf)), g))

\* Every sighting that reaches the archive whole becomes a fact, or is beaten
\* by an earlier one, in the end.
Archived(f, v, s) ==
  /\ f \in whole /\ content[f] \in Decodable
  /\ v \in DOMAIN content[f].report
  /\ s \in content[f].report[v]

SightingsBecomeFacts ==
  []HeadersTell =>
    \A f \in Files, v \in Vehicles, s \in Sightings :
      Archived(f, v, s) ~> (gold[s.grain] # NoRow /\ gold[s.grain].at <= s.at)
===========================================================================
