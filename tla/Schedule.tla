------------------------------ MODULE Schedule ------------------------------
(***************************************************************************)
(* The published timetable, from the fetch to on-time performance.         *)
(* fetch_static archives the zip under its hash and the day, and extracts  *)
(* it file by file; stage_gtfs overwrites a staging table from one         *)
(* extracted directory; dbt snapshot versions the staging table;           *)
(* fct_otp joins the arrivals of a service day to the version in force     *)
(* when that day began.  dim_schedule is the older, hand-rolled dimension, *)
(* fed from the same directories; the two share nothing else, and a        *)
(* behaviour has one of them.                                              *)
(*                                                                         *)
(* Time is a clock of instants.  A feed is known by its hash, a number:    *)
(* directories are named after it, so numbers are sorted as names are.     *)
(***************************************************************************)
EXTENDS Naturals, Integers, FiniteSets

CONSTANTS
  Feeds,       \* the hashes of the feeds 511 may serve
  Keys,        \* (trip_id, stop_sequence)
  Attrs,       \* what the change detection looks at, routed trips
  Unrouted(_), \* the same with the trip's columns NULL
  Timetable,   \* Timetable[f]: key -> attribute, for the keys f schedules
  Malformed,   \* the feeds without trips.txt or stop_times.txt
  Days,        \* the instants at which service days begin
  DayLength,   \* instants per calendar day
  MaxTime,     \* bound: the clock stops here
  MaxOdd       \* bound: fetches cut short and jobs given --extracted

AllAttrs == Attrs \union {Unrouted(a) : a \in Attrs}

ASSUME ScheduleAssumption ==
  /\ Feeds \subseteq Nat
  /\ DOMAIN Timetable = Feeds
  /\ \A f \in Feeds :
       /\ DOMAIN Timetable[f] \in (SUBSET Keys) \ {{}}
       /\ \A k \in DOMAIN Timetable[f] : Timetable[f][k] \in Attrs
  /\ Malformed \subseteq Feeds
  /\ Days \subseteq Nat \ {0}
  /\ DayLength \in Nat \ {0}
  /\ MaxTime \in Nat \ {0}
  /\ MaxOdd \in Nat

NoFeed == -1
Open == -1      \* valid_to of a current version: NULL, or the year 2999
Beginning == 0  \* BEGINNING, 1970

Schedules == UNION {[K -> AllAttrs] : K \in SUBSET Keys}
NoSchedule == [k \in {} |-> k]
Versions == [key : Keys, attr : AllAttrs, from : Nat, to : Nat \union {Open}]
Facts == [day : Days, key : Keys]
Unmatched == "unmatched"

VARIABLES
  now,       \* the clock
  keeper,    \* who keeps the versions here, dbt or dim_schedule
  pc,        \* where fetch_static is
  body,      \* the feed it fetched, while it runs
  at,        \* fetched_at
  zips,      \* the archived zips: feed, day, and whether its bytes are all there
  metas,     \* their .meta.json: feed and fetched_at
  extracted, \* extracted[f]: how far data/static/extracted/<f> is
  unrouted,  \* unrouted[f]: the keys its trips.txt does not reach yet
  staged,    \* the feed behind the staging table
  staging,   \* staging/gtfs_stop_schedule
  snapshot,  \* the versions of dbt's dim_stop_schedule
  dim,       \* the versions of the hand-rolled dim_stop_schedule
  otp        \* fct_stop_otp: arrival -> attribute of the version it was joined to

\* History.
VARIABLE
  odd        \* how many fetches were cut short and jobs given --extracted

fetchVars == <<pc, body, at, zips, metas, extracted, unrouted>>
stagingVars == <<staged, staging>>
vars == <<now, keeper, fetchVars, stagingVars, snapshot, dim, otp, odd>>

TypeOK ==
  /\ now \in 1..MaxTime
  /\ keeper \in {"dbt", "dim_schedule"}
  /\ pc \in {"idle", "zip", "meta", "extract", "unzip"}
  /\ body \in IF pc = "idle" THEN {NoFeed} ELSE Feeds
  /\ at \in Nat
  /\ zips \in SUBSET [feed : Feeds, day : Nat, whole : BOOLEAN]
  /\ metas \in SUBSET [feed : Feeds, at : Nat]
  /\ extracted \in [Feeds -> {"none", "empty", "partial", "readable"}]
  /\ unrouted \in [Feeds -> SUBSET Keys]
  /\ staged \in Feeds \union {NoFeed}
  /\ staging \in Schedules
  /\ snapshot \in SUBSET Versions
  /\ dim \in SUBSET Versions
  /\ \E F \in SUBSET Facts : otp \in [F -> AllAttrs \union {Unmatched}]
  /\ odd \in 0..MaxOdd

Init ==
  /\ now = 1
  /\ keeper \in {"dbt", "dim_schedule"}
  /\ pc = "idle" /\ body = NoFeed /\ at = 0
  /\ zips = {} /\ metas = {}
  /\ extracted = [f \in Feeds |-> "none"]
  /\ unrouted = [f \in Feeds |-> {}]
  /\ staged = NoFeed /\ staging = NoSchedule
  /\ snapshot = {} /\ dim = {}
  /\ otp = [x \in {} |-> x]
  /\ odd = 0

---------------------------------------------------------------------------
Tick ==
  /\ now < MaxTime
  /\ now' = now + 1
  /\ UNCHANGED <<keeper, fetchVars, stagingVars, snapshot, dim, otp, odd>>

---------------------------------------------------------------------------
(* fetch_static.                                                           *)

Day(t) == t \div DayLength
ZipToday(f, t) == {z \in zips : z.feed = f /\ z.day = Day(t)}

Finish == pc' = "idle" /\ body' = NoFeed /\ at' = 0

\* fetch of whatever 511 serves, an earlier feed included, and archive as far as the zip: a path that exists is left alone,
\* whatever is in it.
Fetch(f) ==
  /\ pc = "idle"
  /\ body' = f
  /\ at' = now
  /\ IF ZipToday(f, now) # {}
       THEN pc' = "extract" /\ UNCHANGED zips
       ELSE /\ pc' = "zip"
            /\ zips' = zips \union {[feed |-> f, day |-> Day(now), whole |-> FALSE]}
  /\ UNCHANGED <<now, keeper, metas, extracted, unrouted,
                 stagingVars, snapshot, dim, otp, odd>>

WriteZip ==
  /\ pc = "zip"
  /\ zips' = (zips \ ZipToday(body, at))
               \union {[feed |-> body, day |-> Day(at), whole |-> TRUE]}
  /\ pc' = "meta"
  /\ UNCHANGED <<now, keeper, body, at, metas, extracted, unrouted,
                 stagingVars, snapshot, dim, otp, odd>>

WriteMeta ==
  /\ pc = "meta"
  /\ metas' = metas \union {[feed |-> body, at |-> at]}
  /\ pc' = "extract"
  /\ UNCHANGED <<now, keeper, body, at, zips, extracted, unrouted,
                 stagingVars, snapshot, dim, otp, odd>>

\* A directory with anything in it counts as extracted.  A zip that is torn or
\* lacks a required table raises, after the directory was made.
Extract ==
  /\ pc = "extract"
  /\ LET torn == \A z \in ZipToday(body, at) : ~z.whole
     IN \/ /\ extracted[body] \in {"partial", "readable"}
           /\ Finish
           /\ UNCHANGED extracted
        \/ /\ extracted[body] \in {"none", "empty"}
           /\ torn \/ body \in Malformed
           /\ extracted' = [extracted EXCEPT ![body] = "empty"]
           /\ Finish
        \/ /\ extracted[body] \in {"none", "empty"}
           /\ ~torn /\ body \notin Malformed
           /\ extracted' = [extracted EXCEPT ![body] = "partial"]
           /\ pc' = "unzip"
           /\ UNCHANGED <<body, at>>
  /\ UNCHANGED <<now, keeper, zips, metas, unrouted,
                 stagingVars, snapshot, dim, otp, odd>>

\* The files come in name order, trips.txt last and not at once.
Unzip ==
  /\ pc = "unzip"
  /\ extracted' = [extracted EXCEPT ![body] = "readable"]
  /\ \E K \in SUBSET DOMAIN Timetable[body] :
       /\ extracted[body] = "readable" => K # unrouted[body] /\ K \subseteq unrouted[body]
       /\ unrouted' = [unrouted EXCEPT ![body] = K]
       /\ IF K = {} THEN Finish ELSE UNCHANGED <<pc, body, at>>
  /\ UNCHANGED <<now, keeper, zips, metas,
                 stagingVars, snapshot, dim, otp, odd>>

\* The fetch dies, or ends after the archive (--no-extract).
CutShort ==
  /\ pc # "idle"
  /\ Finish
  /\ odd < MaxOdd
  /\ odd' = odd + 1
  /\ UNCHANGED <<now, keeper, zips, metas, extracted, unrouted,
                 stagingVars, snapshot, dim, otp>>

---------------------------------------------------------------------------
(* Which directory a job reads, and what it finds there.                   *)

Directories == {f \in Feeds : extracted[f] # "none"}

\* Broken: no order, any directory.
AnyDirectory(f) == f \in Directories

\* Broken: the first directory, not the last.
FirstDirectory(f) == f \in Directories /\ \A g \in Directories : f <= g

\* sorted(glob("*"))[-1].
LastDirectory(f) == f \in Directories /\ \A g \in Directories : g <= f

\* The left join with trips.txt.
Read(f) ==
  [k \in DOMAIN Timetable[f] |->
     IF k \in unrouted[f] THEN Unrouted(Timetable[f][k]) ELSE Timetable[f][k]]

\* By default the last directory; --extracted names another one.
Chosen(f) ==
  /\ \/ LastDirectory(f) /\ odd' = odd
     \/ f \in Directories /\ ~LastDirectory(f) /\ odd < MaxOdd /\ odd' = odd + 1
  /\ extracted[f] = "readable"

\* hits[0] of an unordered glob, or the clock when there is no meta.
ObservedAt(f) ==
  LET hits == {m.at : m \in {x \in metas : x.feed = f}}
  IN IF hits = {} THEN {now} ELSE hits

---------------------------------------------------------------------------
(* stage_gtfs.                                                             *)

Stage(f) ==
  /\ keeper = "dbt"
  /\ Chosen(f)
  /\ staged' = f
  /\ staging' = Read(f)
  /\ UNCHANGED <<now, keeper, fetchVars, snapshot, dim, otp>>

---------------------------------------------------------------------------
(* dbt snapshot, strategy check, invalidate_hard_deletes: one merge.  A    *)
(* snapshot that changes something has the instant for itself.             *)

CurrentOf(D) == {v \in D : v.to = Open}
Version(k, a, t) == [key |-> k, attr |-> a, from |-> t, to |-> Open]

Unchanged(v) == v.key \in DOMAIN staging /\ staging[v.key] = v.attr

Superseded(D) == {v \in CurrentOf(D) : ~Unchanged(v)}

\* Broken: every key is opened again.
AllStaged(D) == DOMAIN staging

\* The keys without a current version that says what staging says.
NewOrChanged(D) ==
  {k \in DOMAIN staging : \A v \in CurrentOf(D) : v.key = k => ~Unchanged(v)}

Close(D, S, t) == (D \ S) \union {[v EXCEPT !.to = t] : v \in S}

Snapshot ==
  /\ staged # NoFeed
  /\ now < MaxTime
  /\ Superseded(snapshot) # {} \/ NewOrChanged(snapshot) # {}
  /\ snapshot' = Close(snapshot, Superseded(snapshot), now)
                   \union {Version(k, staging[k], now) : k \in NewOrChanged(snapshot)}
  /\ now' = now + 1
  /\ UNCHANGED <<keeper, fetchVars, stagingVars, dim, otp, odd>>

---------------------------------------------------------------------------
(* dim_schedule: the first load seeds every key from the beginning; later  *)
(* ones close what changed and open what changed or is new.  A key that is *)
(* gone from the feed stays current.                                       *)

Upsert(f) ==
  /\ keeper = "dim_schedule"
  /\ Chosen(f)
  /\ \E t \in ObservedAt(f) :
       LET s == Read(f)
           current == CurrentOf(dim)
           changed == {v \in current : v.key \in DOMAIN s /\ s[v.key] # v.attr}
           brandNew == {k \in DOMAIN s : \A v \in current : v.key # k}
           opened == {v.key : v \in changed} \union brandNew
       IN dim' = IF dim = {}
                   THEN {Version(k, s[k], Beginning) : k \in DOMAIN s}
                   ELSE Close(dim, changed, t) \union {Version(k, s[k], t) : k \in opened}
  /\ UNCHANGED <<now, keeper, fetchVars, stagingVars, snapshot, otp>>

---------------------------------------------------------------------------
(* fct_otp.                                                                *)

InForce(v, t) == v.from <= t /\ (v.to = Open \/ t < v.to)

\* The first version of a key counts from the beginning.
IsFirst(D, v) == \A w \in D : w.key = v.key => v.from <= w.from
Backdated(D) == {IF IsFirst(D, v) THEN [v EXCEPT !.from = Beginning] ELSE v : v \in D}

\* Broken: the join to is_current.
CurrentVersion(D, k, t) == {v \in D : v.key = k /\ v.to = Open}

AsOf(D, k, t) == {v \in Backdated(D) : v.key = k /\ InForce(v, t)}

\* Arrivals of the service days that have begun, joined left; a join that
\* multiplies rows stops the job before it writes.
BuildOtp ==
  /\ snapshot # {}
  /\ LET facts == {x \in Facts : x.day < now}
         matches == [x \in facts |-> AsOf(snapshot, x.key, x.day)]
     IN /\ facts # {}
        /\ \A x \in facts : Cardinality(matches[x]) <= 1
        /\ otp' = [x \in facts |->
                     IF matches[x] = {} THEN Unmatched ELSE (CHOOSE v \in matches[x] : TRUE).attr]
  /\ UNCHANGED <<now, keeper, fetchVars, stagingVars, snapshot, dim, odd>>

---------------------------------------------------------------------------
Fetcher == (\E f \in Feeds : Fetch(f)) \/ WriteZip \/ WriteMeta \/ Extract \/ Unzip
Staging == \E f \in Feeds : LastDirectory(f) /\ Stage(f)

Next ==
  \/ Tick
  \/ \E f \in Feeds : Stage(f) \/ Upsert(f)
  \/ Fetcher
  \/ CutShort
  \/ Snapshot
  \/ BuildOtp

Spec == Init /\ [][Next]_vars

\* The schedule runs the jobs again and again (definitions.py:319-323), without
\* --extracted.
FairSpec ==
  /\ Spec
  /\ WF_vars(Fetcher)
  /\ WF_vars(Staging)

---------------------------------------------------------------------------
(* Properties.                                                             *)

\* Join conservation (fct_otp.py:98-104, 198-204): at any instant at most one
\* version of a key is in force, however often it was staged, dropped from
\* the feed and brought back; the join cannot multiply an arrival.
JoinConserved ==
  \A v, w \in Backdated(snapshot) : \A t \in 0..now :
    (v.key = w.key /\ InForce(v, t) /\ InForce(w, t)) => v = w

\* "last month's OTP changes without anyone touching last month's data"
\* (fct_otp.py:9-12) does not happen: an arrival once joined to a version
\* keeps it, whatever is fetched, staged and snapshot later.
OtpIsFinal ==
  [][\A x \in DOMAIN otp :
       otp[x] # Unmatched => x \in DOMAIN otp' /\ otp'[x] = otp[x]]_otp

\* A feed that changes nothing for a key opens no version of it
\* (dim_stop_schedule.sql:9-13): versions that meet differ.
VersionsDiffer ==
  \A v, w \in snapshot : (v.key = w.key /\ v.to = w.from) => v.attr # w.attr

\* "Exactly one current version per key" (definitions.py:282): none is doubled
\* in either dimension, and the hand-rolled one never loses a key's.
OneCurrentVersion ==
  /\ \A D \in {snapshot, dim} : \A v, w \in CurrentOf(D) : v.key = w.key => v = w
  /\ \A v \in dim : \E w \in CurrentOf(dim) : w.key = v.key

\* "Windows must TILE" (test_scd2.py:126): where every fetch runs to its end and
\* the jobs take the last directory, the versions of a key in the hand-rolled
\* dimension cover every instant since the key is known exactly once, although
\* observed_at is that of some earlier fetch of the feed.
DimWindowsTile ==
  odd = 0 =>
    \A v \in dim :
      /\ v.to = Open \/ (v.from <= v.to /\ \E w \in dim : w.key = v.key /\ w.from = v.to)
      /\ \A w \in dim : (w.key = v.key /\ w # v) =>
           \/ v.to # Open /\ v.to <= w.from
           \/ w.to # Open /\ w.to <= v.from

\* A sound feed that every fetch brings from some time on is staged in the end,
\* and whole, if its name sorts after those of all feeds extracted and no fetch
\* is cut short.
LatestFeedIsStaged ==
  \A f \in Feeds \ Malformed :
    (/\ <>[](body \in {f, NoFeed})
     /\ [](odd = 0)
     /\ [](\A g \in Directories : g <= f))
      => <>[](keeper = "dbt" => staging = Timetable[f])
=============================================================================
