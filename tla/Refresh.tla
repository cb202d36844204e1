------------------------------- MODULE Refresh -------------------------------
(***************************************************************************)
(* daily_refresh: the asset graph from the raw archive and 511's timetable *)
(* to the served file.  Within a run the edges order the assets, and an    *)
(* asset with a failed one above it never starts; nothing orders the       *)
(* assets of two runs, and a run started by hand may overlap the scheduled *)
(* one.                                                                    *)
(*                                                                         *)
(* Tables carry what they were computed from: the number of polls for the  *)
(* arrivals, the name of a feed's directory for the schedule.  What the    *)
(* assets compute is in Bronze, Medallion and Schedule.                    *)
(***************************************************************************)
EXTENDS Serving, FiniteSets

CONSTANTS
  MaxChanges,\* bound: polls archived and feeds published
  MaxFaults, \* bound: assets that fail
  Beside     \* bound: the assets beside which another run may be launched

Runs == Exporters \* one export per run

ASSUME RefreshAssumption ==
  /\ MaxChanges \in Nat /\ MaxFaults \in Nat

\* Broken: an edge missing.
UpstreamWithoutDim ==
  [gtfs_static_snapshot |-> {},
   gtfs_stop_schedule_staging |-> {"gtfs_static_snapshot"},
   dim_stop_schedule |-> {"gtfs_stop_schedule_staging"},
   bronze_vehicle_positions |-> {},
   silver_vehicle_positions |-> {"bronze_vehicle_positions"},
   fct_stop_arrival |-> {"silver_vehicle_positions"},
   fct_stop_otp |-> {"fct_stop_arrival"},
   dbt_marts |-> {"fct_stop_otp"},
   serving_export |-> {"dbt_marts"}]
UpstreamWithoutMarts ==
  [UpstreamWithoutDim EXCEPT !["fct_stop_otp"] = {"fct_stop_arrival", "dim_stop_schedule"},
                             !["serving_export"] = {"fct_stop_otp"}]

\* deps=[...] of each asset.
Upstream ==
  [gtfs_static_snapshot |-> {},
   gtfs_stop_schedule_staging |-> {"gtfs_static_snapshot"},
   dim_stop_schedule |-> {"gtfs_stop_schedule_staging"},
   bronze_vehicle_positions |-> {},
   silver_vehicle_positions |-> {"bronze_vehicle_positions"},
   fct_stop_arrival |-> {"silver_vehicle_positions"},
   fct_stop_otp |-> {"fct_stop_arrival", "dim_stop_schedule"},
   dbt_marts |-> {"fct_stop_otp"},
   serving_export |-> {"dbt_marts"}]

Assets == DOMAIN Upstream
Statuses == {"none", "waiting", "running", "done", "failed"}

VARIABLES
  archive,   \* how many polls are archived
  feed,      \* the feed 511 serves
  extracted, \* data/static/extracted
  staging,   \* gtfs_stop_schedule
  dim,       \* the current versions of dim_stop_schedule
  bronze, silver, arrival,
  status,    \* status[r][a]
  input,     \* input[r][a]: what the asset read
  built      \* built[r]: how many marts dbt built

\* History.
VARIABLES
  began,     \* began[r]: how many polls were archived at its launch
  fetched,   \* fetched[r]: the feed it got
  overlapped,\* the runs that ran beside another
  faults, changes

sources == <<archive, feed, changes>>
tables == <<extracted, staging, dim, bronze, silver, arrival, otp, marts>>
history == <<began, fetched, overlapped, faults>>
runVars == <<status, input, built>>
refreshVars == <<sources, tables, runVars, history, servingVars>>

TablesTypeOK ==
  /\ archive \in Nat /\ feed \in Feeds
  /\ extracted \subseteq Feeds
  /\ staging \in Feeds \union {0} /\ dim \in Feeds \union {0}
  /\ bronze \in Nat /\ silver \in Nat /\ arrival \in Nat
  /\ otp \in Versions
  /\ marts \in [Marts -> Versions]
  /\ status \in [Runs -> [Assets -> Statuses]]
  /\ input \in [Runs -> [Assets -> Versions]]
  /\ built \in [Runs -> Nat]
  /\ began \in [Runs -> Nat]
  /\ fetched \in [Runs -> Feeds \union {0}]
  /\ overlapped \subseteq Runs
  /\ faults \in 0..MaxFaults /\ changes \in 0..MaxChanges

RefreshTypeOK == TablesTypeOK /\ ServingTypeOK

Nothing == [arrivals |-> 0, schedule |-> 0]

RefreshInit ==
  /\ archive = 0 /\ feed \in Feeds
  /\ extracted = {} /\ staging = 0 /\ dim = 0
  /\ bronze = 0 /\ silver = 0 /\ arrival = 0
  /\ otp = Nothing
  /\ marts = [m \in Marts |-> Nothing]
  /\ status = [r \in Runs |-> [a \in Assets |-> "none"]]
  /\ input = [r \in Runs |-> [a \in Assets |-> Nothing]]
  /\ built = [r \in Runs |-> 0]
  /\ began = [r \in Runs |-> 0]
  /\ fetched = [r \in Runs |-> 0]
  /\ overlapped = {} /\ faults = 0 /\ changes = 0
  /\ ServingInit

---------------------------------------------------------------------------
(* The world.                                                              *)

Change ==
  /\ changes < MaxChanges
  /\ changes' = changes + 1
  /\ UNCHANGED <<tables, runVars, history, servingVars>>

Poll == Change /\ archive' = archive + 1 /\ UNCHANGED feed
Republish == Change /\ (\E f \in Feeds : f # feed /\ feed' = f) /\ UNCHANGED archive

---------------------------------------------------------------------------
(* Runs.                                                                   *)

Ready(r, a) ==
  /\ status[r][a] = "waiting"
  /\ \A u \in Upstream[a] : status[r][u] = "done"

Active(r) ==
  \E a \in Assets : status[r][a] = "running" \/ Ready(r, a)

Unlaunched(r) == \A a \in Assets : status[r][a] = "none"

Mark(r, a, s) == status' = [status EXCEPT ![r][a] = s]

\* The schedule's tick, or a run by hand.
Launch(r) ==
  LET others == {q \in Runs : Active(q)}
  IN /\ \A q \in others : \E a \in Beside : status[q][a] = "running"
     /\ Unlaunched(r) /\ \A q \in Runs : q < r => ~Unlaunched(q)
     /\ status' = [status EXCEPT ![r] = [a \in Assets |-> "waiting"]]
     /\ began' = [began EXCEPT ![r] = archive]
     /\ overlapped' = IF others = {} THEN overlapped
                      ELSE overlapped \union others \union {r}
     /\ UNCHANGED <<sources, tables, input, built, fetched, faults, servingVars>>

Later(m, n) == IF m <= n THEN n ELSE m

OfSchedule(f) == [arrivals |-> 0, schedule |-> f]
OfArrivals(n) == [arrivals |-> n, schedule |-> 0]

\* What the asset reads when it starts.  The staging job takes the last
\* directory by name, whichever feed was fetched.
Readings(a) ==
  CASE a = "gtfs_static_snapshot"        -> {OfSchedule(feed)}
    [] a = "gtfs_stop_schedule_staging"  ->
         {OfSchedule(f) : f \in {d \in extracted : \A e \in extracted : e <= d}}
    [] a = "dim_stop_schedule"           -> {OfSchedule(staging)}
    [] a = "bronze_vehicle_positions"    -> {OfArrivals(archive)}
    [] a = "silver_vehicle_positions"    -> {OfArrivals(bronze)}
    [] a = "fct_stop_arrival"            -> {OfArrivals(silver)}
    [] OTHER -> {[arrivals |-> arrival, schedule |-> dim]}

Start(r, a) ==
  /\ Ready(r, a)
  /\ a # "serving_export"
  /\ Mark(r, a, "running")
  /\ \E read \in Readings(a) : input' = [input EXCEPT ![r][a] = read]
  /\ UNCHANGED <<sources, tables, built, history, servingVars>>

\* The commit of the asset's table: appended or merged into what is there, or
\* written over it.
Commit(r, a) ==
  LET read == input[r][a]
  IN /\ extracted' = IF a = "gtfs_static_snapshot"
                       THEN extracted \union {read.schedule} ELSE extracted
     /\ fetched' = IF a = "gtfs_static_snapshot"
                     THEN [fetched EXCEPT ![r] = read.schedule] ELSE fetched
     /\ staging' = IF a = "gtfs_stop_schedule_staging" THEN read.schedule ELSE staging
     /\ dim' = CASE a = "dim_stop_schedule" -> read.schedule
                 [] a = "dbt_marts" -> staging
                 [] OTHER -> dim
     /\ bronze' = IF a = "bronze_vehicle_positions" THEN Later(bronze, read.arrivals) ELSE bronze
     /\ silver' = IF a = "silver_vehicle_positions" THEN read.arrivals ELSE silver
     /\ arrival' = IF a = "fct_stop_arrival" THEN Later(arrival, read.arrivals) ELSE arrival
     /\ otp' = IF a = "fct_stop_otp" THEN read ELSE otp

\* The asset materialises; or its process dies after the commit, or a dbt
\* test fails, and it does not.
Materialise(r, a, outcome) ==
  /\ status[r][a] = "running"
  /\ a # "serving_export"
  /\ a = "dbt_marts" => built[r] = Len(MARTS)
  /\ Mark(r, a, outcome)
  /\ Commit(r, a)
  /\ input' = [input EXCEPT ![r][a] = Nothing]
  /\ UNCHANGED <<sources, marts, built, began, overlapped, servingVars>>

\* dbt build rebuilds a mart as a table, from fct_stop_otp as it is.
BuildMart(r) ==
  /\ status[r]["dbt_marts"] = "running"
  /\ built[r] < Len(MARTS)
  /\ built' = [built EXCEPT ![r] = @ + 1]
  /\ marts' = [marts EXCEPT ![MARTS[built[r] + 1]] = otp]
  /\ UNCHANGED <<sources, extracted, staging, dim, bronze, silver, arrival, otp,
                 status, input, history, servingVars>>

\* export_marts, its first step to its last.
ExportStep(r) ==
  /\ \/ Ready(r, "serving_export")
     \/ status[r]["serving_export"] = "running"
  /\ Export(r)
  /\ Mark(r, "serving_export",
          CASE exporter'[r].pc = "exported" -> "done"
            [] exporter'[r].pc = "died"     -> "failed"
            [] OTHER                        -> "running")
  /\ UNCHANGED <<sources, tables, input, built, history>>

RunStep(r) ==
  \/ \E a \in Assets : Start(r, a)
  \/ /\ \E a \in Assets : Materialise(r, a, "done")
     /\ UNCHANGED faults
  \/ BuildMart(r)
  \/ ExportStep(r)

\* An asset raises, or its process is killed.
Fault(r) ==
  /\ faults < MaxFaults
  /\ faults' = faults + 1
  /\ \/ \E a \in Assets : Materialise(r, a, "failed")
     \/ \E a \in Assets :
          /\ status[r][a] = "running"
          /\ Mark(r, a, "failed")
          /\ input' = [input EXCEPT ![r][a] = Nothing]
          /\ IF a = "serving_export" THEN ExportDie(r) ELSE UNCHANGED servingVars
          /\ UNCHANGED <<sources, tables, built, began, fetched, overlapped>>

ApiStep(c) ==
  /\ \/ \E e \in Endpoints : Ask(c, e)
     \/ Open(c) \/ Select(c)
  /\ UNCHANGED <<sources, tables, runVars, history>>

RefreshNext ==
  \/ Poll \/ Republish
  \/ \E r \in Runs : Launch(r) \/ RunStep(r) \/ Fault(r)
  \/ \E c \in Clients : ApiStep(c)

RefreshSpec == RefreshInit /\ [][RefreshNext]_refreshVars

---------------------------------------------------------------------------
(* Properties.                                                             *)

Exported(r) == status[r]["serving_export"] = "done"

\* A request that was answered from a file and read a freshness other than
\* "unparseable window".
Fresh(r) == r.answer = "200" /\ r.got["meta"] \in Versions

\* "a client cannot label what the server does not tell it" (api.py:7): an
\* answer that carries a data window also carries all the rows of the export
\* that measured the window, whichever exports and requests ran beside it.  The
\* agencies endpoint reads its rows before the window and may get those of a
\* table just created; the others read the window first, and it is written last.
FreshAnswersAreWhole ==
  \A c \in Clients :
    Fresh(request[c]) =>
      \A t \in MartsOf(request[c]) :
        \/ request[c].got[t] \in Versions
        \/ request[c].endpoint = "agencies"

\* A file whose window is written never changes again, whatever exports run: an
\* answer's tables, read one by one from one connection, are of one moment.
PublishedFileIsFinal ==
  [][\A i \in DOMAIN files :
       files[i].table["meta"] \in Versions => files'[i] = files[i]]_files

\* The window is not only written after the rows, it is theirs: unless
\* the export belongs to a run that overlapped another, the fact table it was
\* read from is the one the marts in the same file were built from.
WindowIsOfTheRows ==
  \A i \in DOMAIN files :
    (files[i].table["meta"] \in Versions /\ files[i].by \notin overlapped) =>
      \A m \in Marts : files[i].table[m] = files[i].table["meta"]

\* "Modelling the relationship as an asset edge removes the race entirely"
\* (definitions.py:9), for runs that do not overlap: a run that exported
\* serves every poll archived when it was launched, and the schedule it staged
\* after its own fetch, not one an earlier run left.
RefreshCoversItsStart ==
  \A i \in DOMAIN files :
    LET r == files[i].by
    IN (Exported(r) /\ r \notin overlapped) =>
         /\ files[i].table["meta"] \in Versions
         /\ files[i].table["meta"].arrivals >= began[r]
         /\ files[i].table["meta"].schedule >= fetched[r]

\* check_join_conservation and the facts: while a run that overlaps no other
\* has its fct_stop_otp and has not ended, the table still has one row per row
\* of fct_stop_arrival, so the check that runs after it raises no false alarm.
JoinCheckHolds ==
  \A r \in Runs :
    (status[r]["fct_stop_otp"] = "done" /\ Active(r) /\ r \notin overlapped) =>
      otp.arrivals = arrival

\* A run comes to rest with its export in place: when it has nothing left to
\* start, no asset of it failed and none ran beside it, the path names the whole
\* file it wrote, until another run is launched.
RestingRunServes ==
  \A r \in Runs :
    (/\ status[r]["serving_export"] # "none"
     /\ ~Active(r) /\ r \notin overlapped
     /\ \A a \in Assets : status[r][a] # "failed"
     /\ \A q \in Runs : r < q => Unlaunched(q))
      => /\ path # Nobody
         /\ files[path].by = r
         /\ files[path].table["meta"] \in Versions
=============================================================================
