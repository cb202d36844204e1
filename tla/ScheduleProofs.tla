--------------------------- MODULE ScheduleProofs ---------------------------
(***************************************************************************)
(* Theorems about Schedule: types, the windows of the two dimensions, the  *)
(* conservation of the as-of join and the finality of its answers.         *)
(***************************************************************************)
EXTENDS Schedule, ServiceDay, TLAPS

(* The constant operator Unrouted takes attributes to attributes by the     *)
(* definition of AllAttrs.                                                   *)

LEMMA ReadType ==
  ASSUME TypeOK, NEW f \in Feeds
  PROVE  /\ Read(f) \in Schedules
         /\ DOMAIN Read(f) = DOMAIN Timetable[f]
         /\ DOMAIN Timetable[f] \subseteq Keys
         /\ DOMAIN Timetable[f] # {}
         /\ \A k \in DOMAIN Timetable[f] : Read(f)[k] \in AllAttrs
<1> DEFINE K == DOMAIN Timetable[f]
<1>1. K \in (SUBSET Keys) \ {{}} /\ \A k \in K : Timetable[f][k] \in Attrs
  BY ScheduleAssumption
<1>2. \A k \in K : (IF k \in unrouted[f] THEN Unrouted(Timetable[f][k]) ELSE Timetable[f][k]) \in AllAttrs
  BY <1>1 DEF AllAttrs
<1>3. Read(f) \in [K -> AllAttrs]
  BY <1>2 DEF Read
<1>4. Read(f) \in Schedules
  BY <1>1, <1>3 DEF Schedules
<1> QED
  BY <1>1, <1>3, <1>4

\* The staging table schedules keys.
LEMMA StagingType ==
  ASSUME TypeOK
  PROVE  DOMAIN staging \subseteq Keys /\ \A k \in DOMAIN staging : staging[k] \in AllAttrs
<1>1. PICK K \in SUBSET Keys : staging \in [K -> AllAttrs]
  BY DEF TypeOK, Schedules
<1> QED
  BY <1>1

LEMMA CloseType ==
  ASSUME NEW D \in SUBSET Versions, NEW S \in SUBSET D, NEW t \in Nat
  PROVE  Close(D, S, t) \in SUBSET Versions
BY DEF Close, Versions

LEMMA VersionType ==
  ASSUME NEW k \in Keys, NEW a \in AllAttrs, NEW t \in Nat
  PROVE  Version(k, a, t) \in Versions
BY DEF Version, Versions

---------------------------------------------------------------------------
(* Types.                                                                  *)

LEMMA InitType == Init => TypeOK
<1> SUFFICES ASSUME Init PROVE TypeOK
  OBVIOUS
<1>1. staging \in [{} -> AllAttrs]
  BY DEF Init, NoSchedule
<1>2. staging \in Schedules
  BY <1>1 DEF Schedules
<1>3. {} \in SUBSET Facts /\ otp \in [{} -> AllAttrs \union {Unmatched}]
  BY DEF Init
<1>4. now \in 1..MaxTime
  BY ScheduleAssumption DEF Init
<1>5. odd \in 0..MaxOdd
  BY ScheduleAssumption DEF Init
<1> QED
  BY <1>2, <1>3, <1>4, <1>5 DEF Init, TypeOK

LEMMA FetcherType ==
  ASSUME TypeOK, Fetcher
  PROVE  TypeOK'
<1>0. \A t \in Nat : Day(t) \in Nat
  BY ScheduleAssumption DEF Day
<1> DEFINE OtpOK == \E F \in SUBSET Facts : otp \in [F -> AllAttrs \union {Unmatched}]
           Zips == [feed : Feeds, day : Nat, whole : BOOLEAN]
<1>1. OtpOK /\ (pc # "idle" => body \in Feeds)
  BY DEF TypeOK
<1>2. UNCHANGED <<now, keeper, staged, staging, snapshot, dim, otp, odd>>
  BY DEF Fetcher, Fetch, WriteZip, WriteMeta, Extract, Unzip, stagingVars
<1>3. OtpOK'
  BY <1>1, <1>2
<1> HIDE DEF OtpOK, Zips
<1>4. CASE \E f \in Feeds : Fetch(f)
  <2>1. PICK f \in Feeds : Fetch(f)
    BY <1>4
  <2>2. Day(now) \in Nat /\ now \in Nat
    BY <1>0 DEF TypeOK
  <2>3. zips' \in SUBSET Zips
    <3>1. [feed |-> f, day |-> Day(now), whole |-> FALSE] \in Zips
      BY <2>2 DEF Zips
    <3>2. zips' = zips \/ zips' = zips \union {[feed |-> f, day |-> Day(now), whole |-> FALSE]}
      BY <2>1 DEF Fetch
    <3>3. zips \in SUBSET Zips
      BY DEF TypeOK, Zips
    <3> QED
      BY <3>1, <3>2, <3>3
  <2>4. pc' \in {"zip", "extract"} /\ body' \in Feeds /\ at' \in Nat
    BY <2>1, <2>2 DEF Fetch
  <2>5. UNCHANGED <<metas, extracted, unrouted>>
    BY <2>1 DEF Fetch
  <2> QED
    BY <1>2, <1>3, <2>3, <2>4, <2>5 DEF TypeOK, OtpOK, Zips
<1>5. CASE WriteZip
  <2>1. body \in Feeds /\ Day(at) \in Nat
    BY <1>0, <1>1, <1>5 DEF WriteZip, TypeOK
  <2>2. zips' \in SUBSET Zips
    <3>1. [feed |-> body, day |-> Day(at), whole |-> TRUE] \in Zips
      BY <2>1 DEF Zips
    <3>2. zips' \subseteq zips \union {[feed |-> body, day |-> Day(at), whole |-> TRUE]}
      BY <1>5 DEF WriteZip
    <3>3. zips \in SUBSET Zips
      BY DEF TypeOK, Zips
    <3> QED
      BY <3>1, <3>2, <3>3
  <2>3. pc' = "meta" /\ UNCHANGED <<body, at, metas, extracted, unrouted>>
    BY <1>5 DEF WriteZip
  <2> QED
    BY <1>2, <1>3, <2>1, <2>2, <2>3 DEF TypeOK, OtpOK, Zips
<1>6. CASE WriteMeta
  <2>1. body \in Feeds
    BY <1>1, <1>6 DEF WriteMeta
  <2>2. metas' \in SUBSET [feed : Feeds, at : Nat]
    BY <1>6, <2>1 DEF WriteMeta, TypeOK
  <2> QED
    BY <1>2, <1>3, <1>6, <2>1, <2>2 DEF WriteMeta, TypeOK, OtpOK
<1>7. CASE Extract
  <2>1. body \in Feeds
    BY <1>1, <1>7 DEF Extract
  <2>2. extracted' \in [Feeds -> {"none", "empty", "partial", "readable"}]
    BY <1>7, <2>1 DEF Extract, TypeOK
  <2>3. \/ pc' = "idle" /\ body' = NoFeed /\ at' = 0
        \/ pc' = "unzip" /\ UNCHANGED <<body, at>>
    BY <1>7 DEF Extract, Finish
  <2>4. UNCHANGED <<zips, metas, unrouted>>
    BY <1>7 DEF Extract
  <2> QED
    BY <1>2, <1>3, <2>1, <2>2, <2>3, <2>4 DEF TypeOK, OtpOK
<1>8. CASE Unzip
  <2>1. body \in Feeds
    BY <1>1, <1>8 DEF Unzip
  <2>2. DOMAIN Timetable[body] \subseteq Keys
    BY <2>1, ScheduleAssumption
  <2>3. extracted' \in [Feeds -> {"none", "empty", "partial", "readable"}]
    BY <1>8, <2>1 DEF Unzip, TypeOK
  <2>4. PICK K \in SUBSET DOMAIN Timetable[body] :
          /\ unrouted' = [unrouted EXCEPT ![body] = K]
          /\ IF K = {} THEN Finish ELSE UNCHANGED <<pc, body, at>>
    BY <1>8 DEF Unzip
  <2>5. unrouted' \in [Feeds -> SUBSET Keys]
    BY <2>1, <2>2, <2>4 DEF TypeOK
  <2>6. \/ pc' = "idle" /\ body' = NoFeed /\ at' = 0
        \/ pc' = "unzip" /\ UNCHANGED <<body, at>>
    BY <1>8, <2>4 DEF Unzip, Finish
  <2>7. UNCHANGED <<zips, metas>>
    BY <1>8 DEF Unzip
  <2> QED
    BY <1>2, <1>3, <2>1, <2>3, <2>5, <2>6, <2>7 DEF TypeOK, OtpOK
<1> QED
  BY <1>4, <1>5, <1>6, <1>7, <1>8 DEF Fetcher

\* What a job may find as observed_at is a time.
LEMMA ObservedType ==
  ASSUME TypeOK, NEW f \in Feeds
  PROVE  ObservedAt(f) \subseteq Nat
BY DEF ObservedAt, TypeOK

\* How the hand-rolled dimension moves: seeded from the beginning, or closed and
\* opened at one time.
OneCurrent(D) == \A v, w \in CurrentOf(D) : v.key = w.key => v = w

LEMMA UpsertStep ==
  ASSUME TypeOK, NEW f \in Feeds, Upsert(f)
  PROVE  \/ /\ dim = {}
            /\ dim' = {Version(k, Read(f)[k], Beginning) : k \in DOMAIN Timetable[f]}
         \/ \E t \in Nat : \E C \in SUBSET CurrentOf(dim) : \E O \in SUBSET DOMAIN Timetable[f] :
              /\ dim' = Close(dim, C, t) \union {Version(k, Read(f)[k], t) : k \in O}
              /\ OneCurrent(dim) => \A v \in CurrentOf(dim) : v.key \in O => v \in C
              /\ \A v \in C : v.key \in O
<1> DEFINE s == Read(f)
           current == CurrentOf(dim)
           C == {v \in current : v.key \in DOMAIN s /\ s[v.key] # v.attr}
           N == {k \in DOMAIN s : \A v \in current : v.key # k}
           O == {v.key : v \in C} \union N
<1>1. PICK t \in ObservedAt(f) :
        dim' = IF dim = {} THEN {Version(k, s[k], Beginning) : k \in DOMAIN s}
               ELSE Close(dim, C, t) \union {Version(k, s[k], t) : k \in O}
  BY DEF Upsert
<1>2. t \in Nat /\ DOMAIN s = DOMAIN Timetable[f]
  BY ObservedType, ReadType
<1>3. C \in SUBSET CurrentOf(dim) /\ O \in SUBSET DOMAIN Timetable[f]
  BY <1>2
<1>4. \A v \in C : v.key \in O
  OBVIOUS
<1>5. OneCurrent(dim) => \A v \in current : v.key \in O => v \in C
  BY DEF OneCurrent
<1> HIDE DEF C, O
<1>6. CASE dim = {}
  <2>1. dim' = {Version(k, s[k], Beginning) : k \in DOMAIN s}
    BY <1>1, <1>6
  <2> QED
    BY <1>2, <1>6, <2>1
<1>7. CASE dim # {}
  <2>1. dim' = Close(dim, C, t) \union {Version(k, s[k], t) : k \in O}
    BY <1>1, <1>7
  <2> QED
    BY <1>2, <1>3, <1>4, <1>5, <2>1
<1> QED
  BY <1>6, <1>7

LEMMA SnapshotStep ==
  ASSUME TypeOK, Snapshot
  PROVE  \E O \in SUBSET (Keys \intersect DOMAIN staging) :
           /\ snapshot' = Close(snapshot, Superseded(snapshot), now)
                            \union {Version(k, staging[k], now) : k \in O}
           /\ \A v \in CurrentOf(snapshot) : v.key \in O => v \in Superseded(snapshot)
           /\ \A k \in O : staging[k] \in AllAttrs
<1>1. NewOrChanged(snapshot) \in SUBSET (Keys \intersect DOMAIN staging)
  BY StagingType DEF NewOrChanged
<1>2. \A v \in CurrentOf(snapshot) : v.key \in NewOrChanged(snapshot) => v \in Superseded(snapshot)
  BY DEF NewOrChanged, Superseded
<1> QED
  BY <1>1, <1>2, StagingType DEF Snapshot

LEMMA SupersededCurrent == Superseded(snapshot) \subseteq CurrentOf(snapshot)
BY DEF Superseded

LEMMA BuildType ==
  ASSUME TypeOK, BuildOtp
  PROVE  \E F \in SUBSET Facts : otp' \in [F -> AllAttrs \union {Unmatched}]
<1> DEFINE F == {x \in Facts : x.day < now}
           matches == [x \in F |-> AsOf(snapshot, x.key, x.day)]
           val(x) == IF matches[x] = {} THEN Unmatched ELSE (CHOOSE v \in matches[x] : TRUE).attr
<1>1. otp' = [x \in F |-> val(x)]
  BY DEF BuildOtp
<1>2. ASSUME NEW x \in F PROVE val(x) \in AllAttrs \union {Unmatched}
  <2>1. CASE matches[x] = {}
    BY <2>1
  <2>2. CASE matches[x] # {}
    <3>1. (CHOOSE v \in matches[x] : TRUE) \in matches[x]
      BY <2>2
    <3>2. matches[x] \subseteq Versions
      BY DEF AsOf, Backdated, TypeOK, Versions, Beginning
    <3>3. \A v \in Versions : v.attr \in AllAttrs
      BY DEF Versions
    <3> QED
      BY <2>2, <3>1, <3>2, <3>3
  <2> QED
    BY <2>1, <2>2
<1> HIDE DEF val
<1>3. otp' \in [F -> AllAttrs \union {Unmatched}]
  BY <1>1, <1>2
<1> QED
  BY <1>3

LEMMA StepType ==
  ASSUME TypeOK, [Next]_vars
  PROVE  TypeOK'
<1> DEFINE OtpOK == \E F \in SUBSET Facts : otp \in [F -> AllAttrs \union {Unmatched}]
           FilesOK == /\ pc \in {"idle", "zip", "meta", "extract", "unzip"}
                      /\ body \in IF pc = "idle" THEN {NoFeed} ELSE Feeds
                      /\ at \in Nat
                      /\ zips \in SUBSET [feed : Feeds, day : Nat, whole : BOOLEAN]
                      /\ metas \in SUBSET [feed : Feeds, at : Nat]
                      /\ extracted \in [Feeds -> {"none", "empty", "partial", "readable"}]
                      /\ unrouted \in [Feeds -> SUBSET Keys]
<1>1. OtpOK /\ FilesOK
  BY DEF TypeOK
<1>2. UNCHANGED fetchVars => FilesOK'
  BY <1>1 DEF fetchVars
<1>3. UNCHANGED otp => OtpOK'
  BY <1>1
<1>4. SUFFICES ASSUME ~Fetcher
               PROVE  /\ FilesOK' /\ OtpOK'
                      /\ now' \in 1..MaxTime
                      /\ keeper' \in {"dbt", "dim_schedule"}
                      /\ staged' \in Feeds \union {NoFeed}
                      /\ staging' \in Schedules
                      /\ snapshot' \in SUBSET Versions
                      /\ dim' \in SUBSET Versions
                      /\ odd' \in 0..MaxOdd
  <2>1. CASE Fetcher
    BY <2>1, FetcherType
  <2>2. CASE ~Fetcher
    BY <1>4, <2>2 DEF TypeOK
  <2> QED
    BY <2>1, <2>2
<1> HIDE DEF OtpOK, FilesOK
<1>5. CASE UNCHANGED vars
  BY <1>2, <1>3, <1>5 DEF vars, stagingVars, TypeOK
<1>6. CASE Tick
  BY <1>2, <1>3, <1>6, ScheduleAssumption DEF Tick, stagingVars, TypeOK
<1>7. CASE \E f \in Feeds : Stage(f)
  <2>1. PICK f \in Feeds : Stage(f)
    BY <1>7
  <2>2. staging' \in Schedules
    BY <2>1, ReadType DEF Stage
  <2>3. odd' \in 0..MaxOdd
    BY <2>1, ScheduleAssumption DEF Stage, Chosen, TypeOK
  <2> QED
    BY <1>2, <1>3, <2>1, <2>2, <2>3 DEF Stage, TypeOK
<1>8. CASE \E f \in Feeds : Upsert(f)
  <2>1. PICK f \in Feeds : Upsert(f)
    BY <1>8
  <2>2. dim' \in SUBSET Versions
    <3>1. \A k \in DOMAIN Timetable[f] : k \in Keys /\ Read(f)[k] \in AllAttrs
      BY ReadType
    <3>2. \A t \in Nat : \A k \in DOMAIN Timetable[f] : Version(k, Read(f)[k], t) \in Versions
      BY <3>1, VersionType
    <3>3. Beginning \in Nat /\ dim \in SUBSET Versions /\ CurrentOf(dim) \subseteq dim
      BY DEF Beginning, TypeOK, CurrentOf
    <3>4. \A t \in Nat : \A C \in SUBSET CurrentOf(dim) : Close(dim, C, t) \in SUBSET Versions
      BY <3>3, CloseType
    <3> QED
      BY <2>1, <3>2, <3>3, <3>4, UpsertStep
  <2>3. odd' \in 0..MaxOdd
    BY <2>1, ScheduleAssumption DEF Upsert, Chosen, TypeOK
  <2> QED
    BY <1>2, <1>3, <2>1, <2>2, <2>3 DEF Upsert, stagingVars, TypeOK
<1>9. CASE CutShort
  <2>1. FilesOK'
    BY <1>1, <1>9 DEF CutShort, Finish, FilesOK
  <2>2. odd' \in 0..MaxOdd
    BY <1>9, ScheduleAssumption DEF CutShort, TypeOK
  <2> QED
    BY <1>3, <1>9, <2>1, <2>2 DEF CutShort, stagingVars, TypeOK
<1>10. CASE Snapshot
  <2>1. now \in Nat /\ now' \in 1..MaxTime
    BY <1>10, ScheduleAssumption DEF Snapshot, TypeOK
  <2>2. snapshot' \in SUBSET Versions
    <3>1. PICK O \in SUBSET (Keys \intersect DOMAIN staging) :
            /\ snapshot' = Close(snapshot, Superseded(snapshot), now)
                             \union {Version(k, staging[k], now) : k \in O}
            /\ \A k \in O : staging[k] \in AllAttrs
      BY <1>10, SnapshotStep
    <3>2. \A k \in O : Version(k, staging[k], now) \in Versions
      BY <2>1, <3>1, VersionType
    <3>3. Close(snapshot, Superseded(snapshot), now) \in SUBSET Versions
      <4>1. snapshot \in SUBSET Versions /\ Superseded(snapshot) \in SUBSET snapshot
        BY SupersededCurrent DEF TypeOK, CurrentOf
      <4> QED
        BY <2>1, <4>1, CloseType
    <3> QED
      BY <3>1, <3>2, <3>3
  <2> QED
    BY <1>2, <1>3, <1>10, <2>1, <2>2 DEF Snapshot, stagingVars, TypeOK
<1>11. CASE BuildOtp
  <2>1. OtpOK'
    BY <1>11, BuildType DEF OtpOK
  <2> QED
    BY <1>2, <1>11, <2>1 DEF BuildOtp, stagingVars, TypeOK
<1> QED
  BY <1>4, <1>5, <1>6, <1>7, <1>8, <1>9, <1>10, <1>11 DEF Next

\* The fetcher, the jobs and the tables keep their types, whatever is fetched,
\* cut short, read half extracted or chosen by --extracted.
THEOREM TypeCorrect == Spec => []TypeOK
BY InitType, StepType, PTL DEF Spec

---------------------------------------------------------------------------
(* The windows of dbt's dimension.                                         *)

Apart(v, w) ==
  \/ v.to # Open /\ v.to <= w.from
  \/ w.to # Open /\ w.to <= v.from

\* Inductive: a window is stamped with instants that are over, it is not empty,
\* and two of one key do not meet.  A version opened now then begins after every
\* window that is not current, and the current ones of its key are closed now.
Windows ==
  /\ \A v \in snapshot : v.from < now /\ (v.to # Open => v.from < v.to /\ v.to < now)
  /\ \A v, w \in snapshot : (v.key = w.key /\ v # w) => Apart(v, w)

\* One snapshot step, element by element.
LEMMA SnapshotElements ==
  ASSUME TypeOK, Snapshot
  PROVE  /\ now \in Nat /\ now' = now + 1
         /\ \A v \in snapshot' :
              \/ v \in snapshot /\ v \notin Superseded(snapshot)
              \/ \E u \in Superseded(snapshot) : v = [u EXCEPT !.to = now]
              \/ /\ v.from = now /\ v.to = Open
                 /\ v.key \in DOMAIN staging /\ v.attr = staging[v.key]
                 /\ v = Version(v.key, v.attr, now)
                 /\ \A u \in CurrentOf(snapshot) : u.key = v.key => u \in Superseded(snapshot)
         /\ \A v \in snapshot :
              \/ v \in snapshot'
              \/ v.to = Open /\ [v EXCEPT !.to = now] \in snapshot'
<1>1. PICK O \in SUBSET (Keys \intersect DOMAIN staging) :
        /\ snapshot' = Close(snapshot, Superseded(snapshot), now)
                         \union {Version(k, staging[k], now) : k \in O}
        /\ \A v \in CurrentOf(snapshot) : v.key \in O => v \in Superseded(snapshot)
  BY SnapshotStep
<1>2. now \in Nat /\ now' = now + 1
  BY DEF TypeOK, Snapshot
<1>3. ASSUME NEW v \in snapshot'
      PROVE  \/ v \in snapshot /\ v \notin Superseded(snapshot)
             \/ \E u \in Superseded(snapshot) : v = [u EXCEPT !.to = now]
             \/ /\ v.from = now /\ v.to = Open
                /\ v.key \in DOMAIN staging /\ v.attr = staging[v.key]
                /\ v = Version(v.key, v.attr, now)
                /\ \A u \in CurrentOf(snapshot) : u.key = v.key => u \in Superseded(snapshot)
  <2>1. CASE v \in Close(snapshot, Superseded(snapshot), now)
    BY <2>1 DEF Close
  <2>2. CASE v \in {Version(k, staging[k], now) : k \in O}
    BY <1>1, <2>2 DEF Version
  <2> QED
    BY <1>1, <1>3, <2>1, <2>2
<1>4. ASSUME NEW v \in snapshot
      PROVE  \/ v \in snapshot'
             \/ v.to = Open /\ [v EXCEPT !.to = now] \in snapshot'
  BY <1>1 DEF Close, Superseded, CurrentOf
<1> QED
  BY <1>2, <1>3, <1>4

\* What any other step does.
LEMMA OtherStep ==
  ASSUME TypeOK, [Next]_vars, ~Snapshot
  PROVE  UNCHANGED snapshot /\ now \in Nat /\ now' \in Nat /\ now <= now'
<1>1. now \in Nat
  BY DEF TypeOK
<1>2. CASE UNCHANGED vars
  BY <1>1, <1>2 DEF vars
<1>3. CASE Tick
  BY <1>1, <1>3 DEF Tick
<1>4. CASE \E f \in Feeds : Stage(f) \/ Upsert(f)
  BY <1>1, <1>4 DEF Stage, Upsert
<1>5. CASE Fetcher
  BY <1>1, <1>5 DEF Fetcher, Fetch, WriteZip, WriteMeta, Extract, Unzip
<1>6. CASE CutShort
  BY <1>1, <1>6 DEF CutShort
<1>7. CASE BuildOtp
  BY <1>1, <1>7 DEF BuildOtp
<1> QED
  BY <1>2, <1>3, <1>4, <1>5, <1>6, <1>7 DEF Next

LEMMA WindowsStep ==
  ASSUME TypeOK, Windows, [Next]_vars
  PROVE  Windows'
<1>0. snapshot \subseteq Versions
  BY DEF TypeOK
<1>1. CASE ~Snapshot
  <2>1. \A v \in snapshot : v.from \in Nat /\ v.to \in Nat \union {Open}
    BY <1>0 DEF Versions
  <2>2. UNCHANGED snapshot /\ now \in Nat /\ now' \in Nat /\ now <= now'
    BY <1>1, OtherStep
  <2> QED
    BY <2>1, <2>2 DEF Windows, Open, Apart
<1>2. CASE Snapshot
  <2>0. now \in Nat /\ now' = now + 1 /\ Superseded(snapshot) \subseteq CurrentOf(snapshot)
    BY <1>2, SnapshotElements, SupersededCurrent
  \* A version, with what it was before the step.
  <2>1. ASSUME NEW v \in snapshot'
        PROVE  \/ v \in snapshot /\ v \notin Superseded(snapshot)
               \/ \E u \in snapshot : /\ u \in Superseded(snapshot)
                                      /\ u.to = Open /\ u.key = v.key /\ u.from = v.from
                                      /\ v = [u EXCEPT !.to = now] /\ v.to = now
               \/ /\ v.from = now /\ v.to = Open /\ v = Version(v.key, staging[v.key], now)
                  /\ \A u \in CurrentOf(snapshot) : u.key = v.key => u \in Superseded(snapshot)
    <3>1. ASSUME NEW u \in Superseded(snapshot), v = [u EXCEPT !.to = now]
          PROVE  u \in snapshot /\ u.to = Open /\ u.key = v.key /\ u.from = v.from /\ v.to = now
      BY <1>0, <2>0, <3>1 DEF CurrentOf, Versions
    <3> QED
      BY <1>2, <3>1, SnapshotElements
  <2>2. \A v \in snapshot : v.from \in Nat /\ v.to \in Nat \union {Open} /\ v.from < now
                           /\ (v.to # Open => v.from < v.to /\ v.to < now)
    BY <1>0 DEF Versions, Windows
  <2>3. ASSUME NEW v \in snapshot'
        PROVE  v.from < now' /\ (v.to # Open => v.from < v.to /\ v.to < now')
    BY <2>0, <2>1, <2>2 DEF Open
  <2>4. ASSUME NEW v \in snapshot', NEW w \in snapshot', v.key = w.key, v # w
        PROVE  Apart(v, w)
    <3> DEFINE Kept(x) == x \in snapshot /\ x \notin Superseded(snapshot)
               Closed(x) == \E u \in snapshot : /\ u \in Superseded(snapshot)
                                                /\ u.to = Open /\ u.key = x.key /\ u.from = x.from
                                                /\ x = [u EXCEPT !.to = now] /\ x.to = now
               Opened(x) == /\ x.from = now /\ x.to = Open /\ x = Version(x.key, staging[x.key], now)
                            /\ \A u \in CurrentOf(snapshot) : u.key = x.key => u \in Superseded(snapshot)
    <3>1. \A x \in {v, w} : Kept(x) \/ Closed(x) \/ Opened(x)
      BY <2>1
    <3>2. ASSUME Kept(v), Kept(w) PROVE Apart(v, w)
      BY <2>4, <3>2 DEF Windows
    <3>3. ASSUME NEW x \in {v, w}, NEW y \in {v, w}, x.key = y.key, x # y, Kept(x), Closed(y)
          PROVE  Apart(x, y)
      <4>1. PICK u \in snapshot : /\ u \in Superseded(snapshot)
                                  /\ u.to = Open /\ u.key = y.key /\ u.from = y.from
                                  /\ y = [u EXCEPT !.to = now] /\ y.to = now
        BY <3>3
      <4>2. CASE x = u
        BY <3>3, <4>1, <4>2
      <4>3. CASE x # u
        <5>1. Apart(x, u)
          BY <3>3, <4>1, <4>3 DEF Windows
        <5> QED
          BY <2>2, <3>3, <4>1, <5>1 DEF Apart, Open
      <4> QED
        BY <4>2, <4>3
    <3>4. ASSUME NEW x \in {v, w}, NEW y \in {v, w}, x.key = y.key, Kept(x), Opened(y)
          PROVE  Apart(x, y)
      <4>1. x.to # Open
        BY <3>4 DEF CurrentOf
      <4> QED
        BY <2>0, <2>2, <3>4, <4>1 DEF Apart, Open
    <3>5. ASSUME Closed(v), Closed(w) PROVE Apart(v, w)
      <4>1. PICK a \in snapshot : a.to = Open /\ a.key = v.key /\ v = [a EXCEPT !.to = now]
        BY <3>5
      <4>2. PICK b \in snapshot : b.to = Open /\ b.key = w.key /\ w = [b EXCEPT !.to = now]
        BY <3>5
      <4>3. a # b
        BY <2>4, <4>1, <4>2
      <4>4. Apart(a, b)
        BY <2>4, <4>1, <4>2, <4>3 DEF Windows
      <4>5. a.to = Open /\ b.to = Open
        BY <4>1, <4>2
      <4>6. ~Apart(a, b)
        BY <4>5 DEF Apart
      <4> QED
        BY <4>4, <4>6
    <3>6. ASSUME NEW x \in {v, w}, NEW y \in {v, w}, Closed(x), Opened(y)
          PROVE  Apart(x, y)
      BY <2>0, <3>6 DEF Apart, Open
    <3>7. ASSUME Opened(v), Opened(w) PROVE FALSE
      BY <2>4, <3>7
    <3>8. \A x, y : Apart(x, y) <=> Apart(y, x)
      BY DEF Apart
    <3> HIDE DEF Kept, Closed, Opened
    <3> QED
      BY <2>4, <3>1, <3>2, <3>3, <3>4, <3>5, <3>6, <3>7, <3>8
  <2> QED
    BY <2>3, <2>4 DEF Windows
<1> QED
  BY <1>1, <1>2

LEMMA WindowsInvariant == Spec => [](TypeOK /\ Windows)
<1>1. Init => Windows
  BY DEF Init, Windows
<1>2. TypeOK /\ Windows /\ [Next]_vars => Windows'
  BY WindowsStep
<1> QED
  BY TypeCorrect, <1>1, <1>2, PTL DEF Spec

---------------------------------------------------------------------------
(* The join of fct_otp.                                                    *)

\* A version that counts from the beginning is the first of its key, and the
\* others of its key begin where it has ended, or later.
LEMMA WindowsJoin ==
  ASSUME TypeOK, Windows
  PROVE  JoinConserved
<1> SUFFICES ASSUME NEW p \in Backdated(snapshot), NEW q \in Backdated(snapshot),
                    NEW t \in 0..now, p.key = q.key, InForce(p, t), InForce(q, t)
             PROVE  p = q
  BY DEF JoinConserved
<1> DEFINE Shown(v) == IF IsFirst(snapshot, v) THEN [v EXCEPT !.from = Beginning] ELSE v
<1>1. PICK v \in snapshot : p = Shown(v)
  BY DEF Backdated
<1>2. PICK w \in snapshot : q = Shown(w)
  BY DEF Backdated
<1>3. \A u \in snapshot : u \in Versions /\ u.from \in Nat /\ u.to \in Nat \union {Open}
  BY DEF TypeOK, Versions
<1>4. \A u \in snapshot : Shown(u).key = u.key /\ Shown(u).to = u.to
  BY <1>3 DEF Versions
<1>5. t \in Nat
  BY DEF TypeOK
<1>6. ASSUME NEW a \in snapshot, NEW b \in snapshot, a.key = b.key,
             a.to # Open, a.to <= b.from, InForce(Shown(a), t), InForce(Shown(b), t)
      PROVE  FALSE
  <2>1. a.from < b.from
    BY <1>3, <1>6 DEF Windows, Open
  <2>2. ~IsFirst(snapshot, b)
    BY <1>3, <1>6, <2>1 DEF IsFirst
  <2>3. b.from <= t
    BY <1>6, <2>2 DEF InForce
  <2>4. t < a.to
    BY <1>4, <1>6 DEF InForce
  <2> QED
    BY <1>3, <1>5, <1>6, <2>3, <2>4 DEF Open
<1>7. v.key = w.key
  BY <1>1, <1>2, <1>4
<1> HIDE DEF Shown
<1>8. CASE v = w
  BY <1>1, <1>2, <1>8
<1>9. CASE v # w
  <2>1. Apart(v, w)
    BY <1>7, <1>9 DEF Windows
  <2> QED
    BY <1>1, <1>2, <1>6, <1>7, <2>1 DEF Apart
<1> QED
  BY <1>8, <1>9

\* The join of the arrivals to the version in force never multiplies a row: not
\* after any sequence of feeds staged, dropped, brought back and snapshot.
THEOREM JoinHolds == Spec => []JoinConserved
BY WindowsInvariant, WindowsJoin, PTL

\* Inductive: what an arrival was joined to is still in force on its day.
Joined ==
  \A x \in DOMAIN otp : otp[x] # Unmatched =>
    /\ x \in Facts /\ x.day < now
    /\ \E v \in AsOf(snapshot, x.key, x.day) : v.attr = otp[x]

\* A snapshot takes no version away from a day that has begun: it closes at
\* the instant it runs, and what it opens is never first.
LEMMA AsOfKept ==
  ASSUME TypeOK, Windows, Snapshot, NEW k \in Keys, NEW t \in Nat, t < now,
         NEW p \in AsOf(snapshot, k, t)
  PROVE  \E q \in AsOf(snapshot', k, t) : q.attr = p.attr
<1>1. PICK v \in snapshot :
        p = IF IsFirst(snapshot, v) THEN [v EXCEPT !.from = Beginning] ELSE v
  BY DEF AsOf, Backdated
<1>2. \A u \in snapshot : u \in Versions /\ u.from \in Nat /\ u.from < now
  BY DEF TypeOK, Versions, Windows
<1>3. p.key = k /\ InForce(p, t) /\ now \in Nat
  BY DEF AsOf, TypeOK
<1>4. v.key = k /\ p.to = v.to /\ p.attr = v.attr
  BY <1>1, <1>2, <1>3 DEF Versions
\* Every version of the key begins where one did, or now.
<1>5. ASSUME NEW w \in snapshot', w.key = k, IsFirst(snapshot, v) PROVE v.from <= w.from
  <2>1. \/ w.from = now
        \/ \E u \in snapshot : u.key = w.key /\ u.from = w.from
    BY <1>2, <1>5, SnapshotElements, SupersededCurrent DEF CurrentOf, Versions
  <2> QED
    BY <1>2, <1>3, <1>4, <1>5, <2>1 DEF IsFirst
<1>6. ASSUME NEW c \in snapshot', c.key = k, c.from = v.from, c.attr = v.attr, c \in Versions,
             c.to = Open \/ t < c.to
      PROVE  \E q \in AsOf(snapshot', k, t) : q.attr = p.attr
  <2> DEFINE q == IF IsFirst(snapshot', c) THEN [c EXCEPT !.from = Beginning] ELSE c
  <2>1. q \in Backdated(snapshot')
    BY DEF Backdated
  <2>2. q.key = k /\ q.attr = p.attr /\ q.to = c.to
    BY <1>4, <1>6 DEF Versions
  <2>3. q.from <= t
    <3>1. CASE IsFirst(snapshot', c)
      BY <1>6, <3>1 DEF Versions, Beginning
    <3>2. CASE ~IsFirst(snapshot', c)
      <4>1. ~IsFirst(snapshot, v)
        BY <1>5, <1>6, <3>2 DEF IsFirst
      <4> QED
        BY <1>1, <1>3, <1>6, <3>2, <4>1 DEF InForce
    <3> QED
      BY <3>1, <3>2
  <2> HIDE DEF q
  <2> QED
    BY <1>6, <2>1, <2>2, <2>3 DEF AsOf, InForce
<1>7. CASE v \in snapshot'
  BY <1>2, <1>3, <1>4, <1>6, <1>7 DEF InForce
<1>8. CASE v \notin snapshot'
  <2> DEFINE c == [v EXCEPT !.to = now]
  <2>1. c \in snapshot'
    BY <1>8, SnapshotElements
  <2>2. c.key = v.key /\ c.from = v.from /\ c.attr = v.attr /\ c.to = now /\ c \in Versions
    BY <1>2, <1>3 DEF Versions
  <2> HIDE DEF c
  <2> QED
    BY <1>4, <1>6, <2>1, <2>2
<1> QED
  BY <1>7, <1>8

\* What fct_otp writes for an arrival.
LEMMA OtpRow ==
  ASSUME TypeOK, BuildOtp, NEW x \in DOMAIN otp'
  PROVE  /\ x \in Facts /\ x.day < now
         /\ otp'[x] # Unmatched => \E v \in AsOf(snapshot, x.key, x.day) : v.attr = otp'[x]
         /\ AsOf(snapshot, x.key, x.day) # {} =>
              \E v \in AsOf(snapshot, x.key, x.day) : v.attr = otp'[x]
<1> DEFINE F == {y \in Facts : y.day < now}
           matches == [y \in F |-> AsOf(snapshot, y.key, y.day)]
           val(y) == IF matches[y] = {} THEN Unmatched ELSE (CHOOSE v \in matches[y] : TRUE).attr
<1>1. otp' = [y \in F |-> val(y)]
  BY DEF BuildOtp
<1> HIDE DEF val
<1>2. x \in F /\ otp'[x] = val(x)
  BY <1>1
<1>3. matches[x] = AsOf(snapshot, x.key, x.day)
  BY <1>2
<1>4. CASE matches[x] = {}
  BY <1>2, <1>3, <1>4 DEF val
<1>5. CASE matches[x] # {}
  <2>1. (CHOOSE v \in matches[x] : TRUE) \in matches[x]
    BY <1>5
  <2>2. otp'[x] = (CHOOSE v \in matches[x] : TRUE).attr
    BY <1>2, <1>5 DEF val
  <2> HIDE DEF matches
  <2> QED
    BY <1>2, <1>3, <2>1, <2>2
<1> QED
  BY <1>4, <1>5

LEMMA OtpOtherStep ==
  ASSUME TypeOK, [Next]_vars, ~BuildOtp
  PROVE  UNCHANGED otp
BY DEF Next, vars, Tick, Stage, Upsert, Fetcher, Fetch, WriteZip, WriteMeta, Extract, Unzip,
       CutShort, Snapshot

LEMMA JoinedStep ==
  ASSUME TypeOK, Windows, Joined, [Next]_vars
  PROVE  Joined'
<1>0. now \in Nat
  BY DEF TypeOK
<1>1. CASE BuildOtp
  <2>1. UNCHANGED <<snapshot, now>>
    BY <1>1 DEF BuildOtp
  <2> QED
    BY <1>1, <2>1, OtpRow DEF Joined, AsOf, Backdated, IsFirst
<1>2. CASE Snapshot
  <2>1. UNCHANGED otp /\ now' = now + 1
    BY <1>2, SnapshotElements DEF Snapshot
  <2>2. ASSUME NEW x \in DOMAIN otp, otp[x] # Unmatched
        PROVE  /\ x \in Facts /\ x.day < now'
               /\ \E v \in AsOf(snapshot', x.key, x.day) : v.attr = otp[x]
    <3>1. x \in Facts /\ x.day < now /\ \E v \in AsOf(snapshot, x.key, x.day) : v.attr = otp[x]
      BY <2>2 DEF Joined
    <3>2. x.key \in Keys /\ x.day \in Nat
      BY <3>1, ScheduleAssumption DEF Facts
    <3> QED
      BY <1>0, <1>2, <2>1, <3>1, <3>2, AsOfKept
  <2> QED
    BY <2>1, <2>2 DEF Joined, AsOf, Backdated, IsFirst
<1>3. CASE ~BuildOtp /\ ~Snapshot
  <2>1. UNCHANGED <<otp, snapshot>> /\ now' \in Nat /\ now <= now'
    BY <1>3, OtherStep, OtpOtherStep
  <2>2. \A x \in Facts : x.day \in Nat
    BY ScheduleAssumption DEF Facts
  <2> QED
    BY <1>0, <2>1, <2>2 DEF Joined, AsOf, Backdated, IsFirst
<1> QED
  BY <1>1, <1>2, <1>3

LEMMA FinalStep ==
  ASSUME TypeOK, Windows, Joined, [Next]_vars,
         NEW x \in DOMAIN otp, otp[x] # Unmatched
  PROVE  x \in DOMAIN otp' /\ otp'[x] = otp[x]
<1>1. CASE BuildOtp
  <2>1. x \in Facts /\ x.day < now
    BY DEF Joined
  <2>2. PICK v \in AsOf(snapshot, x.key, x.day) : v.attr = otp[x]
    BY DEF Joined
  <2>3. x \in DOMAIN otp'
    BY <1>1, <2>1 DEF BuildOtp
  <2>4. PICK w \in AsOf(snapshot, x.key, x.day) : w.attr = otp'[x]
    BY <1>1, <2>2, <2>3, OtpRow
  <2>5. x.day \in 0..now
    <3>1. x.day \in Nat
      BY <2>1, ScheduleAssumption DEF Facts
    <3>2. now \in Nat
      BY DEF TypeOK
    <3> QED
      BY <2>1, <3>1, <3>2
  <2>6. v = w
    BY <2>5, WindowsJoin DEF AsOf, JoinConserved
  <2> QED
    BY <2>2, <2>3, <2>4, <2>6
<1>2. CASE ~BuildOtp
  BY <1>2, OtpOtherStep
<1> QED
  BY <1>1, <1>2

\* An arrival once joined keeps its version: a row of last month's OTP does not
\* change with what is fetched, staged and snapshot since.
THEOREM OtpFinal == Spec => OtpIsFinal
<1>1. Init => Joined
  BY DEF Init, Joined
<1>2. TypeOK /\ Windows /\ Joined /\ [Next]_vars => Joined'
  BY JoinedStep
<1>3. TypeOK /\ Windows /\ Joined /\ [Next]_vars =>
        [\A x \in DOMAIN otp : otp[x] # Unmatched => x \in DOMAIN otp' /\ otp'[x] = otp[x]]_otp
  BY FinalStep
<1> QED
  BY WindowsInvariant, <1>1, <1>2, <1>3, PTL DEF Spec, OtpIsFinal

---------------------------------------------------------------------------
(* Change detection, and the current versions.                             *)

LEMMA DifferStep ==
  ASSUME TypeOK, Windows, VersionsDiffer, [Next]_vars
  PROVE  VersionsDiffer'
<1>1. CASE ~Snapshot
  BY <1>1, OtherStep DEF VersionsDiffer
<1>2. CASE Snapshot
  <2>1. \A v \in snapshot : /\ v \in Versions /\ v.from \in Nat /\ v.from < now
                           /\ v.to \in Nat \union {Open} /\ (v.to # Open => v.to < now)
    BY DEF TypeOK, Versions, Windows
  <2>2. now \in Nat
    BY DEF TypeOK
  <2> SUFFICES ASSUME NEW v \in snapshot', NEW w \in snapshot', v.key = w.key, v.to = w.from
               PROVE  v.attr # w.attr
    BY DEF VersionsDiffer
  <2>3. ASSUME NEW x \in snapshot'
        PROVE  \/ x \in snapshot
               \/ /\ x.to = now
                  /\ \E u \in Superseded(snapshot) :
                       u.key = x.key /\ u.from = x.from /\ u.attr = x.attr
               \/ /\ x.from = now /\ x.to = Open
                  /\ x.key \in DOMAIN staging /\ x.attr = staging[x.key]
    BY <2>1, SupersededCurrent, <1>2, SnapshotElements DEF CurrentOf, Versions
  <2>7. ASSUME NEW x \in snapshot'
        PROVE  /\ x.from \in Nat
               /\ x.from = now => x.key \in DOMAIN staging /\ x.attr = staging[x.key]
    <3>1. CASE \E u \in snapshot : u.from = x.from
      BY <2>1, <2>2, <3>1
    <3>2. CASE ~(\E u \in snapshot : u.from = x.from)
      BY <2>2, <2>3, <3>2, SupersededCurrent DEF CurrentOf
    <3> QED
      BY <3>1, <3>2
  <2>4. CASE v \in snapshot
    <3>1. v.to # Open
      BY <2>1, <2>2, <2>3, SupersededCurrent DEF Open, CurrentOf
    <3>2. w.from # now
      BY <2>1, <2>2, <2>4, <3>1
    <3>3. PICK u \in snapshot : u.key = w.key /\ u.from = w.from /\ u.attr = w.attr
      BY <2>3, <3>2, SupersededCurrent DEF CurrentOf
    <3> QED
      BY <2>4, <3>3 DEF VersionsDiffer
  <2>5. CASE v.to = now
    <3>1. w.key \in DOMAIN staging /\ w.attr = staging[w.key]
      BY <2>5, <2>7
    <3>2. PICK u \in Superseded(snapshot) : u.key = v.key /\ u.attr = v.attr
      BY <2>1, <2>2, <2>3, <2>5 DEF Open
    <3> QED
      BY <3>1, <3>2 DEF Superseded, Unchanged
  <2>6. CASE v.to = Open
    <3>1. w.from \in Nat
      BY <2>7
    <3>2. w.from = -1
      BY <2>6 DEF Open
    <3> QED
      BY <3>1, <3>2
  <2> QED
    BY <2>3, <2>4, <2>5, <2>6
<1> QED
  BY <1>1, <1>2

\* Versions of a key that meet differ: a feed that changes nothing for a key
\* opens no version of it, and one that changes it back and forth opens one
\* each time.
THEOREM ChangeDetected == Spec => []VersionsDiffer
<1>1. Init => VersionsDiffer
  BY DEF Init, VersionsDiffer
<1>2. TypeOK /\ Windows /\ VersionsDiffer /\ [Next]_vars => VersionsDiffer'
  BY DifferStep
<1> QED
  BY WindowsInvariant, <1>1, <1>2, PTL DEF Spec

\* Inductive: what OneCurrentVersion says of the hand-rolled dimension.
DimCurrent ==
  OneCurrent(dim) /\ \A v \in dim : \E w \in CurrentOf(dim) : w.key = v.key

LEMMA DimOtherStep ==
  ASSUME [Next]_vars, ~(\E f \in Feeds : Upsert(f))
  PROVE  UNCHANGED dim
BY DEF Next, vars, Tick, Stage, Fetcher, Fetch, WriteZip, WriteMeta, Extract, Unzip,
       CutShort, Snapshot, BuildOtp

LEMMA DimCurrentStep ==
  ASSUME TypeOK, DimCurrent, [Next]_vars
  PROVE  DimCurrent'
<1>0. \A v \in dim : v \in Versions
  BY DEF TypeOK
<1>1. CASE ~(\E f \in Feeds : Upsert(f))
  BY <1>1, DimOtherStep DEF DimCurrent, OneCurrent, CurrentOf
<1>2. ASSUME NEW f \in Feeds, Upsert(f) PROVE DimCurrent'
  <2>1. ASSUME dim' = {Version(k, Read(f)[k], Beginning) : k \in DOMAIN Timetable[f]}
        PROVE  DimCurrent'
    BY <2>1 DEF DimCurrent, OneCurrent, CurrentOf, Version
  <2>2. ASSUME NEW t \in Nat, NEW C \in SUBSET CurrentOf(dim),
               NEW O \in SUBSET DOMAIN Timetable[f],
               dim' = Close(dim, C, t) \union {Version(k, Read(f)[k], t) : k \in O},
               \A v \in CurrentOf(dim) : v.key \in O => v \in C,
               \A v \in C : v.key \in O
        PROVE  DimCurrent'
    <3>1. \A v \in dim' : \/ v \in dim /\ v \notin C
                          \/ v.to = t /\ v.key \in O
                          \/ v = Version(v.key, Read(f)[v.key], t) /\ v.key \in O
      BY <1>0, <2>2 DEF Close, Version, CurrentOf, Versions
    <3>2. \A v \in CurrentOf(dim') :
            \/ v \in CurrentOf(dim) /\ v.key \notin O
            \/ v = Version(v.key, Read(f)[v.key], t) /\ v.key \in O
      BY <2>2, <3>1 DEF CurrentOf, Open
    <3>3. OneCurrent(dim')
      BY <3>2 DEF DimCurrent, OneCurrent
    <3>4. \A k \in O : Version(k, Read(f)[k], t) \in CurrentOf(dim')
      BY <2>2 DEF CurrentOf, Version
    <3>5. \A k \in O : \E w \in CurrentOf(dim') : w.key = k
      BY <3>4 DEF Version
    <3>6. \A v \in CurrentOf(dim) : v \notin C => v \in CurrentOf(dim')
      BY <2>2 DEF CurrentOf, Close
    <3>7. ASSUME NEW v \in dim' PROVE \E w \in CurrentOf(dim') : w.key = v.key
      <4>1. CASE v.key \in O
        BY <3>5, <4>1
      <4>2. CASE v.key \notin O
        <5>1. PICK w \in CurrentOf(dim) : w.key = v.key
          BY <3>1, <4>2 DEF DimCurrent
        <5> QED
          BY <2>2, <3>6, <4>2, <5>1
      <4> QED
        BY <4>1, <4>2
    <3> QED
      BY <3>3, <3>7 DEF DimCurrent, OneCurrent, CurrentOf
  <2> QED
    BY <1>2, <2>1, <2>2, UpsertStep DEF DimCurrent
<1> QED
  BY <1>1, <1>2

\* Neither dimension ever shows two current versions of a key, and the
\* hand-rolled one always shows one of every key it has seen.
THEOREM CurrentIsOne == Spec => []OneCurrentVersion
<1>1. Init => DimCurrent
  BY DEF Init, DimCurrent, OneCurrent, CurrentOf
<1>2. TypeOK /\ DimCurrent /\ [Next]_vars => DimCurrent'
  BY DimCurrentStep
<1>3. TypeOK /\ Windows /\ DimCurrent => OneCurrentVersion
  <2>1. Windows => OneCurrent(snapshot)
    BY DEF Windows, OneCurrent, CurrentOf, Apart
  <2> QED
    BY <2>1 DEF DimCurrent, OneCurrent, OneCurrentVersion
<1> QED
  BY WindowsInvariant, <1>1, <1>2, <1>3, PTL DEF Spec
---------------------------------------------------------------------------
(* The windows of the hand-rolled dimension.  Nothing orders the stamps of *)
(* a job by itself: hits[0] is any fetch of the feed.  What orders them is *)
(* that a directory appears with the feed's first meta, after all metas    *)
(* there are, that jobs only ever move on to a directory that sorts later, *)
(* and that a directory read whole changes nothing a second time.          *)

MetasOf(f) == {m \in metas : m.feed = f}

FetchedInOrder ==
  /\ \A m \in metas : m.at <= now /\ (pc # "idle" => m.at <= at)
  /\ pc # "idle" => at <= now

ZipsWhole ==
  /\ pc \in {"zip", "meta", "extract"} => ZipToday(body, at) # {}
  /\ \A z \in zips :
       /\ z.whole \/ (pc = "zip" /\ z.feed = body /\ z.day = Day(at))
       /\ MetasOf(z.feed) # {} \/ (pc \in {"zip", "meta"} /\ z.feed = body)
  /\ pc \in {"extract", "unzip"} => MetasOf(body) # {}

\* All metas of the feed are of the fetch that runs.
FirstFetch(f) == \A m \in MetasOf(f) : body = f /\ m.at = at

DirectoriesWhole ==
  \A f \in Feeds :
    /\ extracted[f] # "none" => MetasOf(f) # {}
    /\ (extracted[f] = "none" /\ MetasOf(f) # {}) => pc = "extract" /\ FirstFetch(f)
    /\ extracted[f] = "empty" => f \in Malformed
    /\ (extracted[f] = "partial" \/ unrouted[f] # {}) => pc = "unzip" /\ body = f
    /\ (pc = "unzip" /\ body = f) => FirstFetch(f)

FetchInv == FetchedInOrder /\ ZipsWhole /\ DirectoriesWhole

LEMMA FetchStarts ==
  ASSUME Init
  PROVE  FetchInv
BY DEF Init, FetchInv, FetchedInOrder, ZipsWhole, DirectoriesWhole, MetasOf

LEMMA FetchOtherStep ==
  ASSUME TypeOK, [Next]_vars, odd' = odd, ~Fetcher
  PROVE  UNCHANGED fetchVars /\ now \in Nat /\ now' \in Nat /\ now <= now'
<1>1. now \in Nat /\ odd \in Nat
  BY ScheduleAssumption DEF TypeOK
<1>2. CASE UNCHANGED vars
  BY <1>1, <1>2 DEF vars
<1>3. CASE Tick
  BY <1>1, <1>3 DEF Tick
<1>4. CASE \E f \in Feeds : Stage(f) \/ Upsert(f)
  BY <1>1, <1>4 DEF Stage, Upsert
<1>5. CASE CutShort
  BY <1>1, <1>5 DEF CutShort
<1>6. CASE Snapshot
  BY <1>1, <1>6 DEF Snapshot
<1>7. CASE BuildOtp
  BY <1>1, <1>7 DEF BuildOtp
<1> QED
  BY <1>2, <1>3, <1>4, <1>5, <1>6, <1>7 DEF Next

LEMMA FetchKeeps ==
  ASSUME TypeOK, FetchInv, [Next]_vars, odd' = odd
  PROVE  FetchInv'
<1>1. /\ now \in Nat /\ at \in Nat /\ \A m \in metas : m.at \in Nat
      /\ pc # "idle" => body \in Feeds
  BY DEF TypeOK
<1>2. FetchedInOrder /\ ZipsWhole /\ DirectoriesWhole
  BY DEF FetchInv
<1>3. metas' = metas => \A f : MetasOf(f)' = MetasOf(f)
  BY DEF MetasOf
<1>4. CASE ~Fetcher
  <2>1. UNCHANGED fetchVars /\ now' \in Nat /\ now <= now'
    BY <1>4, FetchOtherStep
  <2>2. FetchedInOrder'
    BY <1>1, <1>2, <2>1 DEF FetchedInOrder, fetchVars
  <2>3. ZipsWhole' /\ DirectoriesWhole'
    BY <1>2, <2>1 DEF fetchVars, ZipsWhole, DirectoriesWhole, FirstFetch, MetasOf, ZipToday, Day
  <2> QED
    BY <2>2, <2>3 DEF FetchInv
<1>5. ASSUME NEW f \in Feeds, Fetch(f)
      PROVE  FetchInv'
  <2>1. /\ pc = "idle" /\ body' = f /\ at' = now /\ now' = now
        /\ UNCHANGED <<metas, extracted, unrouted>>
        /\ \/ ZipToday(f, now) # {} /\ pc' = "extract" /\ zips' = zips
           \/ pc' = "zip" /\ zips' = zips \union {[feed |-> f, day |-> Day(now), whole |-> FALSE]}
    BY <1>5 DEF Fetch
  <2>2. FetchedInOrder'
    BY <1>1, <1>2, <2>1 DEF FetchedInOrder
  <2>3. DirectoriesWhole'
    BY <1>2, <1>3, <2>1 DEF DirectoriesWhole
  <2>4. \A z \in zips : z.whole /\ MetasOf(z.feed) # {}
    BY <1>2, <2>1 DEF ZipsWhole
  <2>5. CASE ZipToday(f, now) # {} /\ pc' = "extract" /\ zips' = zips
    <3>1. ZipToday(body, at)' # {}
      BY <2>1, <2>5 DEF ZipToday, Day
    <3>2. MetasOf(f) # {}
      BY <2>4, <2>5 DEF ZipToday
    <3> QED
      BY <1>3, <2>1, <2>2, <2>3, <2>4, <2>5, <3>1, <3>2 DEF FetchInv, ZipsWhole
  <2>6. CASE pc' = "zip" /\ zips' = zips \union {[feed |-> f, day |-> Day(now), whole |-> FALSE]}
    <3> DEFINE new == [feed |-> f, day |-> Day(now), whole |-> FALSE]
    <3>1. new.feed = f /\ new.day = Day(now)
      OBVIOUS
    <3>2. Day(at)' = Day(now)
      BY <2>1 DEF Day
    <3>3. zips' = zips \union {new}
      BY <2>6
    <3> HIDE DEF new
    <3>4. ZipToday(body, at)' # {}
      BY <2>1, <3>1, <3>2, <3>3 DEF ZipToday, Day
    <3>5. \A z \in zips' : z \in zips \/ (z.feed = body' /\ z.day = Day(at)')
      BY <2>1, <3>1, <3>2, <3>3
    <3>6. ZipsWhole'
      BY <1>3, <2>1, <2>4, <2>6, <3>4, <3>5 DEF ZipsWhole
    <3> QED
      BY <2>2, <2>3, <3>6 DEF FetchInv
  <2> QED
    BY <2>1, <2>5, <2>6
<1>6. CASE WriteZip
  <2> DEFINE new == [feed |-> body, day |-> Day(at), whole |-> TRUE]
  <2>1. /\ pc = "zip" /\ pc' = "meta" /\ UNCHANGED <<now, body, at, metas, extracted, unrouted>>
        /\ zips' = (zips \ ZipToday(body, at)) \union {new}
    BY <1>6 DEF WriteZip
  <2>2. new.feed = body /\ new.day = Day(at) /\ new.whole
    OBVIOUS
  <2> HIDE DEF new
  <2>3. FetchedInOrder' /\ DirectoriesWhole'
    BY <1>2, <1>3, <2>1 DEF FetchedInOrder, DirectoriesWhole
  <2>4. ZipToday(body, at)' # {}
    BY <2>1, <2>2 DEF ZipToday, Day
  <2>5. \A z \in zips' : z = new \/ (z \in zips /\ ~(z.feed = body /\ z.day = Day(at)))
    BY <2>1 DEF ZipToday
  <2>6. \A z \in zips' : z.whole /\ (MetasOf(z.feed) # {} \/ z.feed = body)
    BY <1>2, <2>1, <2>2, <2>5 DEF ZipsWhole
  <2>7. ZipsWhole'
    BY <1>3, <2>1, <2>4, <2>6 DEF ZipsWhole
  <2> QED
    BY <2>3, <2>7 DEF FetchInv
<1>7. CASE WriteMeta
  <2> DEFINE new == [feed |-> body, at |-> at]
  <2>1. /\ pc = "meta" /\ pc' = "extract" /\ UNCHANGED <<now, body, at, zips, extracted, unrouted>>
        /\ metas' = metas \union {new}
    BY <1>7 DEF WriteMeta
  <2>2. new.feed = body /\ new.at = at
    OBVIOUS
  <2> HIDE DEF new
  <2>3. \A f : MetasOf(f)' = IF f = body THEN MetasOf(f) \union {new} ELSE MetasOf(f)
    BY <2>1, <2>2 DEF MetasOf
  <2>4. FetchedInOrder'
    BY <1>1, <1>2, <2>1, <2>2 DEF FetchedInOrder
  <2>5. ZipToday(body, at)' = ZipToday(body, at)
    BY <2>1 DEF ZipToday, Day
  <2>6. ZipsWhole'
    BY <1>2, <2>1, <2>3, <2>5 DEF ZipsWhole
  <2>7. ASSUME NEW f \in Feeds
        PROVE  /\ extracted[f] # "none" => MetasOf(f)' # {}
               /\ (extracted[f] = "none" /\ MetasOf(f)' # {}) => FirstFetch(f)'
    <3>1. (extracted[f] = "none" /\ MetasOf(f)' # {}) => f = body /\ MetasOf(f)' = {new}
      BY <1>2, <2>1, <2>3 DEF DirectoriesWhole
    <3> QED
      BY <1>2, <2>1, <2>2, <2>3, <3>1 DEF DirectoriesWhole, FirstFetch
  <2>8. DirectoriesWhole'
    BY <1>2, <2>1, <2>7 DEF DirectoriesWhole
  <2> QED
    BY <2>4, <2>6, <2>8 DEF FetchInv
<1>8. CASE Extract
  <2>1. /\ pc = "extract" /\ UNCHANGED <<now, zips, metas, unrouted>>
        /\ \/ pc' = "idle" /\ extracted' = extracted
           \/ pc' = "idle" /\ extracted' = [extracted EXCEPT ![body] = "empty"] /\ body \in Malformed
           \/ /\ pc' = "unzip" /\ extracted' = [extracted EXCEPT ![body] = "partial"]
              /\ UNCHANGED <<body, at>> /\ extracted[body] \in {"none", "empty"}
              /\ body \notin Malformed
    <3>1. ~(\A z \in ZipToday(body, at) : ~z.whole)
      BY <1>2, <1>8 DEF Extract, ZipsWhole, ZipToday
    <3> QED
      BY <1>8, <3>1 DEF Extract, Finish
  <2>2. /\ MetasOf(body) # {} /\ body \in Feeds
        /\ \A z \in zips : z.whole /\ MetasOf(z.feed) # {}
    BY <1>1, <1>2, <2>1 DEF ZipsWhole
  <2>3. ZipsWhole'
    BY <1>3, <2>1, <2>2 DEF ZipsWhole
  <2>4. \A f \in Feeds : extracted'[f] = IF f = body /\ extracted' # extracted
                                          THEN extracted'[body] ELSE extracted[f]
    BY <2>1 DEF TypeOK
  <2>5. extracted' # extracted =>
          \/ extracted'[body] = "empty" /\ body \in Malformed
          \/ extracted'[body] = "partial" /\ pc' = "unzip"
    BY <2>1, <2>2 DEF TypeOK
  <2>6. pc' = "unzip" => FirstFetch(body)'
    BY <1>2, <1>3, <2>1, <2>2 DEF DirectoriesWhole, FirstFetch
  <2>7. \A f \in Feeds : (extracted'[f] = "none" /\ MetasOf(f) # {}) => FALSE
    <3> SUFFICES ASSUME NEW f \in Feeds, extracted'[f] = "none", MetasOf(f) # {}
                 PROVE  FALSE
      OBVIOUS
    <3>1. extracted[f] = "none"
      BY <2>4, <2>5
    <3>2. body = f
      BY <1>2, <3>1 DEF DirectoriesWhole, FirstFetch
    <3>3. extracted' = extracted
      BY <2>5, <3>2
    <3> QED
      BY <1>8, <2>1, <2>2, <3>1, <3>2, <3>3 DEF Extract, TypeOK
  <2>8. \A f \in Feeds : unrouted[f] = {} /\ extracted[f] # "partial"
    BY <1>2, <2>1 DEF DirectoriesWhole
  <2>9. DirectoriesWhole'
    <3> SUFFICES ASSUME NEW f \in Feeds
                 PROVE  /\ extracted'[f] # "none" => MetasOf(f)' # {}
                        /\ (extracted'[f] = "none" /\ MetasOf(f)' # {}) => pc' = "extract" /\ FirstFetch(f)'
                        /\ extracted'[f] = "empty" => f \in Malformed
                        /\ (extracted'[f] = "partial" \/ unrouted'[f] # {}) => pc' = "unzip" /\ body' = f
                        /\ (pc' = "unzip" /\ body' = f) => FirstFetch(f)'
      BY DEF DirectoriesWhole
    <3>1. extracted'[f] # "none" => MetasOf(f)' # {}
      BY <1>2, <1>3, <2>1, <2>2, <2>4 DEF DirectoriesWhole
    <3>2. extracted'[f] = "empty" => f \in Malformed
      BY <1>2, <2>4, <2>5 DEF DirectoriesWhole
    <3>3. (extracted'[f] = "partial" \/ unrouted'[f] # {}) => pc' = "unzip" /\ body' = f
      BY <2>1, <2>4, <2>5, <2>8
    <3> QED
      BY <1>3, <2>1, <2>6, <2>7, <3>1, <3>2, <3>3
  <2>10. FetchedInOrder'
    BY <1>2, <2>1 DEF FetchedInOrder
  <2> QED
    BY <2>3, <2>9, <2>10 DEF FetchInv
<1>9. CASE Unzip
  <2>1. PICK K \in SUBSET DOMAIN Timetable[body] :
          /\ unrouted' = [unrouted EXCEPT ![body] = K]
          /\ IF K = {} THEN Finish ELSE UNCHANGED <<pc, body, at>>
    BY <1>9 DEF Unzip
  <2>2. /\ pc = "unzip" /\ UNCHANGED <<now, zips, metas>> /\ body \in Feeds
        /\ extracted' = [extracted EXCEPT ![body] = "readable"]
        /\ \/ K = {} /\ pc' = "idle"
           \/ pc' = "unzip" /\ UNCHANGED <<body, at>>
    BY <1>1, <1>9, <2>1 DEF Unzip, Finish
  <2>3. \A f \in Feeds : /\ extracted'[f] = IF f = body THEN "readable" ELSE extracted[f]
                         /\ unrouted'[f] = IF f = body THEN K ELSE unrouted[f]
    BY <2>1, <2>2 DEF TypeOK
  <2>4. ZipsWhole'
    BY <1>2, <1>3, <2>2 DEF ZipsWhole
  <2>5. FetchedInOrder'
    BY <1>2, <2>2 DEF FetchedInOrder
  <2>6. MetasOf(body) # {}
    BY <1>2, <2>2 DEF ZipsWhole
  <2>7. DirectoriesWhole'
    BY <1>2, <1>3, <2>2, <2>3, <2>6 DEF DirectoriesWhole, FirstFetch
  <2> QED
    BY <2>4, <2>5, <2>7 DEF FetchInv
<1> QED
  BY <1>4, <1>5, <1>6, <1>7, <1>8, <1>9 DEF Fetcher

\* When a version was opened and closed.
Stamps(v) == {v.from} \union ({v.to} \ {Open})

\* A job that reads f again changes nothing.
Settled(f) ==
  /\ unrouted[f] = {}
  /\ \A k \in DOMAIN Timetable[f] :
       \E v \in CurrentOf(dim) : v.key = k /\ v.attr = Timetable[f][k]

StampsSeen ==
  \A v \in dim : \A s \in Stamps(v) : s = Beginning \/ \E m \in metas : s <= m.at

\* Whichever fetch of f a job takes the time of, the dimension is not past it.
Behind(f) == \A v \in dim : \A s \in Stamps(v) : \A m \in MetasOf(f) : s <= m.at

DimFollows == \A f \in Feeds : LastDirectory(f) => Behind(f) \/ Settled(f)

Tiled(D) ==
  \A v \in D :
    /\ v.to = Open \/ (v.from <= v.to /\ \E w \in D : w.key = v.key /\ w.from = v.to)
    /\ \A w \in D : (w.key = v.key /\ w # v) => Apart(v, w)

TileInv == StampsSeen /\ DimFollows /\ Tiled(dim)

\* Windows that end now, for windows that begin now, keep the tiling.
LEMMA TiledKept ==
  ASSUME NEW D \in SUBSET Versions, Tiled(D), NEW t \in Nat, NEW s,
         NEW C \in SUBSET CurrentOf(D), NEW O,
         \A v \in D : \A x \in Stamps(v) : x <= t,
         \A v \in C : v.key \in O,
         \A v \in CurrentOf(D) : v.key \in O => v \in C
  PROVE  Tiled(Close(D, C, t) \union {Version(k, s[k], t) : k \in O})
<1> DEFINE E == Close(D, C, t) \union {Version(k, s[k], t) : k \in O}
<1>1. \A v \in D : v.from \in Nat /\ v.to \in Nat \union {Open} /\ v.from <= t
                   /\ (v.to # Open => v.to <= t)
  BY DEF Versions, Stamps
<1>2. \A v \in C : LET c == [v EXCEPT !.to = t]
                   IN v \in D /\ v.to = Open /\ c.key = v.key /\ c.from = v.from /\ c.to = t
  BY DEF CurrentOf, Versions
<1>3. \A k \in O : LET n == Version(k, s[k], t) IN n.key = k /\ n.from = t /\ n.to = Open
  BY DEF Version
<1>4. t # Open
  BY DEF Open
<1> DEFINE Kept(x) == x \in D /\ x \notin C
           Closed(x) == \E u \in C : x = [u EXCEPT !.to = t]
           Opened(x) == \E k \in O : x = Version(k, s[k], t)
<1>5. \A x \in E : Kept(x) \/ Closed(x) \/ Opened(x)
  BY DEF Close
<1>6. \A v \in D : v \notin C => v \in E
  BY DEF Close
<1>7. \A v \in C : [v EXCEPT !.to = t] \in E
  BY DEF Close
<1>8. \A k \in O : Version(k, s[k], t) \in E
  OBVIOUS
<1>9. \A v \in D : \E w \in E : w.key = v.key /\ w.from = v.from
  BY <1>2, <1>6, <1>7
<1>10. ASSUME NEW v \in E, v.to # Open
       PROVE  v.from <= v.to /\ \E w \in E : w.key = v.key /\ w.from = v.to
  <2>1. CASE Kept(v)
    <3>1. v.from <= v.to /\ \E w \in D : w.key = v.key /\ w.from = v.to
      BY <1>10, <2>1 DEF Tiled
    <3> QED
      BY <1>9, <3>1
  <2>2. CASE Closed(v)
    <3>1. PICK u \in C : v = [u EXCEPT !.to = t]
      BY <2>2
    <3> HIDE DEF Closed
    <3>2. u \in D /\ v.key = u.key /\ v.from = u.from /\ v.to = t /\ u.key \in O
      BY <1>2, <3>1
    <3>3. v.from <= v.to
      BY <1>1, <3>2
    <3> QED
      BY <1>3, <1>8, <3>2, <3>3
  <2>3. CASE Opened(v)
    BY <1>3, <1>10, <2>3
  <2> QED
    BY <1>5, <2>1, <2>2, <2>3
<1>11. ASSUME NEW v \in E, NEW w \in E, w.key = v.key, w # v
       PROVE  Apart(v, w)
  <2>1. ASSUME NEW x, NEW y, Kept(x), Kept(y), x.key = y.key, x # y
        PROVE  Apart(x, y)
    BY <2>1 DEF Tiled
  <2>2. ASSUME NEW x, NEW y, Kept(x), Closed(y), x.key = y.key
        PROVE  Apart(x, y)
    <3>1. PICK u \in C : y = [u EXCEPT !.to = t]
      BY <2>2
    <3> HIDE DEF Closed
    <3>2. u \in D /\ u.to = Open /\ y.key = u.key /\ y.from = u.from
      BY <1>2, <3>1
    <3>3. Apart(x, u)
      BY <2>2, <3>2 DEF Tiled
    <3> QED
      BY <3>2, <3>3 DEF Apart
  <2>3. ASSUME NEW x, NEW y, Closed(x), Closed(y), x.key = y.key
        PROVE  x = y
    <3>1. PICK u \in C : x = [u EXCEPT !.to = t]
      BY <2>3
    <3>2. PICK z \in C : y = [z EXCEPT !.to = t]
      BY <2>3
    <3> HIDE DEF Closed
    <3>3. u \in D /\ z \in D /\ u.to = Open /\ z.to = Open /\ u.key = z.key
      BY <1>2, <2>3, <3>1, <3>2
    <3>4. u = z
      BY <3>3 DEF Tiled, Apart
    <3> QED
      BY <3>1, <3>2, <3>4
  <2>4. ASSUME NEW x, NEW y, Kept(x), Opened(y), x.key = y.key
        PROVE  Apart(x, y)
    <3>1. y.key \in O /\ y.from = t
      BY <1>3, <2>4
    <3>2. x.to # Open
      BY <2>4, <3>1 DEF CurrentOf
    <3> QED
      BY <1>1, <2>4, <3>1, <3>2 DEF Apart
  <2>5. ASSUME NEW x, NEW y, Closed(x), Opened(y)
        PROVE  Apart(x, y)
    <3>1. y.from = t
      BY <1>3, <2>5
    <3>2. x.to = t
      BY <1>2, <2>5
    <3> QED
      BY <1>4, <3>1, <3>2 DEF Apart
  <2>6. ASSUME NEW x, NEW y, Opened(x), Opened(y), x.key = y.key
        PROVE  x = y
    BY <1>3, <2>6
  <2> HIDE DEF Kept, Closed, Opened
  <2>7. \A x, y : Apart(x, y) => Apart(y, x)
    BY DEF Apart
  <2> QED
    BY <1>5, <1>11, <2>1, <2>2, <2>3, <2>4, <2>5, <2>6, <2>7
<1> HIDE DEF Kept, Closed, Opened, E
<1>12. Tiled(E)
  BY <1>10, <1>11 DEF Tiled
<1> QED
  BY <1>12 DEF E

LEMMA UpsertChanges ==
  ASSUME TypeOK, NEW f \in Feeds, Upsert(f), dim # {}
  PROVE  \E t \in ObservedAt(f) : \E C \in SUBSET CurrentOf(dim) : \E O \in SUBSET DOMAIN Timetable[f] :
           /\ dim' = Close(dim, C, t) \union {Version(k, Read(f)[k], t) : k \in O}
           /\ C = {v \in CurrentOf(dim) :
                     v.key \in DOMAIN Timetable[f] /\ Read(f)[v.key] # v.attr}
           /\ O = {v.key : v \in C}
                    \union {k \in DOMAIN Timetable[f] : \A v \in CurrentOf(dim) : v.key # k}
<1> DEFINE s == Read(f)
           current == CurrentOf(dim)
           C == {v \in current : v.key \in DOMAIN s /\ s[v.key] # v.attr}
           N == {k \in DOMAIN s : \A v \in current : v.key # k}
           O == {v.key : v \in C} \union N
<1>1. PICK t \in ObservedAt(f) :
        dim' = IF dim = {} THEN {Version(k, s[k], Beginning) : k \in DOMAIN s}
               ELSE Close(dim, C, t) \union {Version(k, s[k], t) : k \in O}
  BY DEF Upsert
<1>2. DOMAIN s = DOMAIN Timetable[f]
  BY ReadType
<1>3. C \in SUBSET current /\ O \in SUBSET DOMAIN Timetable[f]
  BY <1>2
<1>4. /\ C = {v \in current : v.key \in DOMAIN Timetable[f] /\ Read(f)[v.key] # v.attr}
      /\ O = {v.key : v \in C} \union {k \in DOMAIN Timetable[f] : \A v \in current : v.key # k}
  BY <1>2
<1>5. dim' = Close(dim, C, t) \union {Version(k, s[k], t) : k \in O}
  BY <1>1
<1> HIDE DEF C, O
<1> QED
  BY <1>3, <1>4, <1>5

\* While a fetch runs, no stamp is after it.
LEMMA NothingAfter ==
  ASSUME TypeOK, FetchInv, StampsSeen, pc # "idle"
  PROVE  \A v \in dim : \A s \in Stamps(v) : s <= at
<1>1. at \in Nat /\ (\A m \in metas : m.at \in Nat /\ m.at <= at)
  BY DEF TypeOK, FetchInv, FetchedInOrder
<1>2. \A v \in dim : \A s \in Stamps(v) : s \in Nat
  BY DEF TypeOK, Versions, Stamps
<1> QED
  BY <1>1, <1>2 DEF StampsSeen, Beginning

LEMMA LastIsOne ==
  ASSUME NEW f \in Feeds, NEW g \in Feeds, LastDirectory(f), LastDirectory(g)
  PROVE  f = g
BY ScheduleAssumption DEF LastDirectory, Directories

\* The fetcher moves the last directory on, or adds to its metas.
LEMMA FollowsFetcher ==
  ASSUME TypeOK, FetchInv, StampsSeen, DimFollows, Fetcher
  PROVE  DimFollows'
<1>1. dim' = dim
  BY DEF Fetcher, Fetch, WriteZip, WriteMeta, Extract, Unzip
<1>2. pc # "idle" => \A f \in Feeds : FirstFetch(f) => Behind(f)
  BY NothingAfter DEF Behind, FirstFetch
<1>3. DirectoriesWhole /\ ZipsWhole /\ (pc # "idle" => body \in Feeds)
  BY DEF FetchInv, TypeOK
<1>4. metas' = metas => \A f \in Feeds : (Behind(f)' <=> Behind(f))
  BY <1>1 DEF Behind, MetasOf
<1>5. ASSUME NEW f \in Feeds, unrouted'[f] = unrouted[f]
      PROVE  Settled(f)' <=> Settled(f)
  BY <1>1, <1>5 DEF Settled, CurrentOf
<1>6. ASSUME NEW f \in Feeds, Directories' = Directories
      PROVE  LastDirectory(f)' => LastDirectory(f)
  BY <1>6 DEF LastDirectory
<1>7. CASE (\E f \in Feeds : Fetch(f)) \/ WriteZip
  <2>1. UNCHANGED <<metas, extracted, unrouted>>
    BY <1>7 DEF Fetch, WriteZip
  <2>2. Directories' = Directories
    BY <2>1 DEF Directories
  <2> QED
    BY <1>4, <1>5, <1>6, <2>1, <2>2 DEF DimFollows
<1>8. CASE WriteMeta
  <2>1. /\ pc = "meta" /\ UNCHANGED <<extracted, unrouted>>
        /\ metas' = metas \union {[feed |-> body, at |-> at]}
    BY <1>8 DEF WriteMeta
  <2>2. Directories' = Directories
    BY <2>1 DEF Directories
  <2>3. \A f \in Feeds : \A m \in MetasOf(f)' : m \in MetasOf(f) \/ m.at = at
    BY <2>1 DEF MetasOf
  <2>4. \A f \in Feeds : Behind(f) => Behind(f)'
    BY <1>1, <2>1, <2>3, NothingAfter DEF Behind
  <2> QED
    BY <1>5, <1>6, <2>1, <2>2, <2>4 DEF DimFollows
<1>9. CASE Extract
  <2>1. pc = "extract" /\ UNCHANGED <<metas, unrouted>> /\ body \in Feeds
    BY <1>3, <1>9 DEF Extract
  <2>2. /\ \A f \in Feeds : f # body => extracted'[f] = extracted[f]
        /\ extracted[body] # "none" => extracted'[body] # "none"
    BY <1>9, <2>1 DEF Extract, TypeOK
  <2>3. CASE extracted[body] # "none"
    <3>1. Directories' = Directories
      BY <2>2, <2>3 DEF Directories
    <3> QED
      BY <1>4, <1>5, <1>6, <2>1, <3>1 DEF DimFollows
  <2>4. CASE extracted[body] = "none"
    <3>1. FirstFetch(body)
      BY <1>3, <2>1, <2>4 DEF DirectoriesWhole, ZipsWhole
    <3>2. \A f \in Feeds : f = body => Behind(f)'
      BY <1>2, <1>4, <2>1, <3>1
    <3>3. \A f \in Feeds : f # body /\ LastDirectory(f)' => LastDirectory(f)
      BY <2>2, <2>4 DEF LastDirectory, Directories
    <3> QED
      BY <1>4, <1>5, <2>1, <3>2, <3>3 DEF DimFollows
  <2> QED
    BY <2>3, <2>4
<1>10. CASE Unzip
  <2>1. pc = "unzip" /\ metas' = metas /\ body \in Feeds
    BY <1>3, <1>10 DEF Unzip
  <2>2. /\ \A f \in Feeds : f # body => extracted'[f] = extracted[f] /\ unrouted'[f] = unrouted[f]
        /\ extracted'[body] = "readable"
    BY <1>10, <2>1 DEF Unzip, TypeOK
  <2>3. extracted[body] # "none" /\ FirstFetch(body)
    BY <1>3, <2>1 DEF DirectoriesWhole, ZipsWhole
  <2>4. Directories' = Directories
    BY <2>2, <2>3 DEF Directories
  <2>5. \A f \in Feeds : f = body => Behind(f)'
    BY <1>2, <1>4, <2>1, <2>3
  <2> QED
    BY <1>4, <1>5, <1>6, <2>1, <2>2, <2>4, <2>5 DEF DimFollows
<1> QED
  BY <1>7, <1>8, <1>9, <1>10 DEF Fetcher

LEMMA TileUpsert ==
  ASSUME TypeOK, FetchInv, DimCurrent, TileInv, NEW f \in Feeds, Upsert(f), odd' = odd
  PROVE  TileInv'
<1>1. /\ UNCHANGED <<metas, extracted, unrouted, pc, body, at>>
      /\ LastDirectory(f) /\ extracted[f] = "readable"
  <2>1. Chosen(f) /\ odd \in Nat
    BY ScheduleAssumption DEF Upsert, TypeOK
  <2>2. LastDirectory(f) /\ extracted[f] = "readable"
    BY <2>1 DEF Chosen
  <2> QED
    BY <2>2 DEF Upsert, fetchVars
<1>2. /\ \A m \in metas : m.at \in Nat
      /\ dim \in SUBSET Versions
      /\ \A v \in dim : \A s \in Stamps(v) : s \in Nat
  BY DEF TypeOK, Versions, Stamps
<1>3. MetasOf(f) # {} /\ (unrouted[f] # {} => FirstFetch(f))
  BY <1>1 DEF FetchInv, DirectoriesWhole
<1>4. \A g : MetasOf(g)' = MetasOf(g)
  BY <1>1 DEF MetasOf
<1>5. SUFFICES StampsSeen' /\ (Behind(f)' \/ Settled(f)') /\ Tiled(dim)'
  <2>1. \A g \in Feeds : LastDirectory(g)' => g = f
    BY <1>1, LastIsOne DEF LastDirectory, Directories
  <2> QED
    BY <1>5, <2>1 DEF TileInv, DimFollows
<1>6. CASE dim = {}
  <2>1. dim' = {Version(k, Read(f)[k], Beginning) : k \in DOMAIN Read(f)}
    BY <1>6 DEF Upsert
  <2>2. \A v \in dim' : v = Version(v.key, Read(f)[v.key], Beginning)
    BY <2>1 DEF Version
  <2>3. \A v \in dim' : v.from = Beginning /\ v.to = Open
    BY <2>2 DEF Version
  <2>4. \A v \in dim' : Stamps(v) = {Beginning}
    BY <2>3 DEF Stamps
  <2>5. Tiled(dim)'
    BY <2>2, <2>3 DEF Tiled
  <2>6. StampsSeen'
    BY <2>4 DEF StampsSeen
  <2>7. Behind(f)'
    BY <1>2, <1>4, <2>4 DEF Behind, Beginning, MetasOf
  <2> QED
    BY <2>5, <2>6, <2>7
<1>7. CASE dim # {}
  <2>1. PICK t \in ObservedAt(f), C \in SUBSET CurrentOf(dim), O \in SUBSET DOMAIN Timetable[f] :
           /\ dim' = Close(dim, C, t) \union {Version(k, Read(f)[k], t) : k \in O}
           /\ C = {v \in CurrentOf(dim) :
                     v.key \in DOMAIN Timetable[f] /\ Read(f)[v.key] # v.attr}
           /\ O = {v.key : v \in C}
                    \union {k \in DOMAIN Timetable[f] : \A v \in CurrentOf(dim) : v.key # k}
    BY <1>7, UpsertChanges
  <2>2. PICK m \in MetasOf(f) : t = m.at
    BY <1>3 DEF ObservedAt, MetasOf
  <2>3. m \in metas /\ t \in Nat
    BY <1>2, <2>2 DEF MetasOf
  <2>4. unrouted[f] = {} => \A k \in DOMAIN Timetable[f] : Read(f)[k] = Timetable[f][k]
    BY DEF Read
  <2>5. OneCurrent(dim)
    BY DEF DimCurrent
  <2>6. CASE Settled(f)
    <3>1. \A k \in DOMAIN Timetable[f] : \A v \in CurrentOf(dim) : v.key = k => v.attr = Read(f)[k]
      BY <2>4, <2>5, <2>6 DEF Settled, OneCurrent
    <3>2. C = {} /\ O = {}
      BY <2>1, <2>6, <3>1 DEF Settled
    <3>3. dim' = dim
      BY <2>1, <3>2 DEF Close
    <3> QED
      BY <1>1, <2>6, <3>3 DEF TileInv, StampsSeen, Settled
  <2>7. CASE Behind(f)
    <3>1. \A v \in dim : \A s \in Stamps(v) : s <= t
      BY <2>2, <2>7 DEF Behind
    <3>2. /\ \A v \in C : v.key \in O
          /\ \A v \in CurrentOf(dim) : v.key \in O => v \in C
      BY <2>1, <2>5 DEF OneCurrent
    <3>3. Tiled(dim)'
      <4> DEFINE s == Read(f)
      <4>2. dim' = Close(dim, C, t) \union {Version(k, s[k], t) : k \in O}
        BY <2>1
      <4>3. Tiled(dim)
        BY DEF TileInv
      <4> HIDE DEF s
      <4>4. Tiled(Close(dim, C, t) \union {Version(k, s[k], t) : k \in O})
        BY <1>2, <2>3, <3>1, <3>2, <4>3, TiledKept
      <4>1. Tiled(dim')
        BY <4>2, <4>4
      <4> QED
        BY <4>1 DEF Tiled
    <3>4. \A v \in dim' : \A s \in Stamps(v) : s = t \/ \E u \in dim : s \in Stamps(u)
      <4> SUFFICES ASSUME NEW v \in dim'
                   PROVE  \A s \in Stamps(v) : s = t \/ \E u \in dim : s \in Stamps(u)
        OBVIOUS
      <4>1. \/ v \in dim
            \/ \E u \in C : v = [u EXCEPT !.to = t]
            \/ \E k \in O : v = Version(k, Read(f)[k], t)
        BY <2>1 DEF Close
      <4>2. CASE \E u \in C : v = [u EXCEPT !.to = t]
        <5>1. PICK u \in C : v = [u EXCEPT !.to = t]
          BY <4>2
        <5>2. u \in dim /\ v.from = u.from /\ v.to = t
          BY <1>2, <5>1 DEF CurrentOf, Versions
        <5> QED
          BY <5>2 DEF Stamps
      <4>3. CASE \E k \in O : v = Version(k, Read(f)[k], t)
        BY <4>3 DEF Stamps, Version
      <4> QED
        BY <4>1, <4>2, <4>3
    <3>5. StampsSeen'
      <4> SUFFICES ASSUME NEW v \in dim', NEW s \in Stamps(v)
                   PROVE  s = Beginning \/ \E x \in metas : s <= x.at
        BY <1>1 DEF StampsSeen, Stamps
      <4>1. CASE s = t
        BY <2>2, <2>3, <4>1
      <4>2. CASE \E u \in dim : s \in Stamps(u)
        BY <4>2 DEF TileInv, StampsSeen
      <4> QED
        BY <3>4, <4>1, <4>2
    <3>6. CASE unrouted[f] # {}
      <4>1. \A x \in MetasOf(f) : x.at = t
        BY <1>3, <2>2, <3>6 DEF FirstFetch
      <4>2. \A v \in dim' : \A s \in Stamps(v) : s <= t
        BY <2>3, <3>1, <3>4
      <4> QED
        BY <1>4, <3>3, <3>5, <4>1, <4>2 DEF Behind, Stamps
    <3>7. CASE unrouted[f] = {}
      <4>1. ASSUME NEW k \in DOMAIN Timetable[f]
            PROVE  \E v \in CurrentOf(dim') : v.key = k /\ v.attr = Timetable[f][k]
        <5>1. CASE k \in O
          <6>1. Version(k, Read(f)[k], t) \in CurrentOf(dim')
            BY <2>1, <5>1 DEF CurrentOf, Version
          <6> QED
            BY <2>4, <3>7, <6>1 DEF Version
        <5>2. CASE k \notin O
          <6>1. PICK v \in CurrentOf(dim) : v.key = k
            BY <2>1, <5>2
          <6>2. v \notin C
            BY <3>2, <5>2, <6>1
          <6>3. v \in CurrentOf(dim')
            BY <2>1, <6>2 DEF CurrentOf, Close
          <6> QED
            BY <2>1, <2>4, <3>7, <6>1, <6>2, <6>3
        <5> QED
          BY <5>1, <5>2
      <4>2. Settled(f)'
        BY <1>1, <3>7, <4>1 DEF Settled, CurrentOf
      <4> QED
        BY <3>3, <3>5, <4>2
    <3> QED
      BY <3>6, <3>7
  <2> QED
    BY <1>1, <2>6, <2>7 DEF TileInv, DimFollows
<1> QED
  BY <1>6, <1>7

LEMMA TileStep ==
  ASSUME TypeOK, FetchInv, DimCurrent, TileInv, [Next]_vars, odd' = odd
  PROVE  TileInv'
<1>1. CASE \E f \in Feeds : Upsert(f)
  BY <1>1, TileUpsert
<1>2. CASE ~(\E f \in Feeds : Upsert(f))
  <2>1. dim' = dim
    BY <1>2, DimOtherStep
  <2>2. metas \subseteq metas'
    <3>1. CASE Fetcher
      BY <3>1 DEF Fetcher, Fetch, WriteZip, WriteMeta, Extract, Unzip
    <3>2. CASE ~Fetcher
      BY <3>2, FetchOtherStep DEF fetchVars
    <3> QED
      BY <3>1, <3>2
  <2>3. StampsSeen' /\ Tiled(dim)'
    BY <2>1, <2>2 DEF TileInv, StampsSeen, Tiled
  <2>4. DimFollows'
    <3>1. CASE Fetcher
      BY <3>1, FollowsFetcher DEF TileInv
    <3>2. CASE ~Fetcher
      BY <2>1, <3>2, FetchOtherStep
         DEF fetchVars, TileInv, DimFollows, LastDirectory, Directories, Behind, MetasOf, Settled, CurrentOf
    <3> QED
      BY <3>1, <3>2
  <2> QED
    BY <2>3, <2>4 DEF TileInv
<1> QED
  BY <1>1, <1>2

\* Where no fetch was cut short and no job given a directory.
Ordinary == odd = 0 => FetchInv /\ TileInv

LEMMA OddGrows ==
  ASSUME TypeOK, [Next]_vars, odd' = 0
  PROVE  odd' = odd
<1>1. odd \in Nat
  BY ScheduleAssumption DEF TypeOK
<1> QED
  BY <1>1 DEF Next, vars, Tick, Stage, Upsert, Chosen, Fetcher, Fetch, WriteZip, WriteMeta, Extract,
     Unzip, CutShort, Snapshot, BuildOtp

LEMMA OrdinaryStep ==
  ASSUME TypeOK, DimCurrent, Ordinary, [Next]_vars
  PROVE  Ordinary'
BY OddGrows, FetchKeeps, TileStep DEF Ordinary

\* Where every fetch runs to its end and jobs take the last directory, the
\* versions of a key in the hand-rolled dimension cover every instant since the
\* key is known once, though each job stamps with any fetch of its feed.
THEOREM WindowsTile == Spec => []DimWindowsTile
<1>1. Init => DimCurrent /\ Ordinary
  <2> SUFFICES ASSUME Init
               PROVE  DimCurrent /\ Ordinary
    OBVIOUS
  <2>1. dim = {} /\ \A f \in Feeds : ~LastDirectory(f)
    BY DEF Init, LastDirectory, Directories
  <2> QED
    BY <2>1, FetchStarts
       DEF DimCurrent, OneCurrent, CurrentOf, Ordinary, TileInv, StampsSeen, DimFollows, Tiled
<1>2. TypeOK /\ DimCurrent /\ Ordinary /\ [Next]_vars => DimCurrent' /\ Ordinary'
  BY DimCurrentStep, OrdinaryStep
<1>3. Ordinary => DimWindowsTile
  BY DEF Ordinary, TileInv, Tiled, Apart, DimWindowsTile
<1> QED
  BY TypeCorrect, <1>1, <1>2, <1>3, PTL DEF Spec

---------------------------------------------------------------------------
(* Scheduled times.                                                        *)

\* The instant of noon is an instant, and the wall shows noon then.
LEMMA NoonShown ==
  ASSUME NEW d \in ServiceDates
  PROVE  /\ d \in Int
         /\ AsUtc(Noon(d)) \in Int
         /\ UtcOffset(AsUtc(Noon(d))) \in Int
         /\ AsUtc(Noon(d)) + UtcOffset(AsUtc(Noon(d))) = d * DAY + 12 * HOUR
<1>1. d \in Int
  BY ServiceDayAssumption
<1>2. Noon(d) \in Int /\ Noon(d) = d * DAY + 12 * HOUR
  BY <1>1 DEF Noon, DAY, HOUR
<1>3. PICK t \in Around(Noon(d)) : Local(t) = Noon(d)
  BY ServiceDayAssumption DEF Showing
<1>4. AsUtc(Noon(d)) \in Around(Noon(d)) /\ Local(AsUtc(Noon(d))) = Noon(d)
  BY <1>3 DEF AsUtc
<1>5. AsUtc(Noon(d)) \in Int
  BY <1>2, <1>4 DEF Around, QUARTER
<1>6. UtcOffset(AsUtc(Noon(d))) \in Int
  BY <1>4, ServiceDayAssumption
<1> QED
  BY <1>1, <1>2, <1>4, <1>5, <1>6 DEF Local

\* A scheduled time is what the wall clock shows, whatever the zone does to its
\* clocks before noon and whatever times the feed has.
THEOREM WallShowsSchedule ==
  ASSUME NEW T,
         \A time \in T : Seconds(time) \subseteq Int
  PROVE  ShownOnTheWall(T)
<1> SUFFICES ASSUME NEW d \in ServiceDates, NEW time \in T,
                    NEW t \in ScheduledUtc(d, time),
                    UtcOffset(t) = UtcOffset(AsUtc(Noon(d)))
             PROVE  {Local(t)} = {d * DAY + s : s \in Seconds(time)}
  BY DEF ShownOnTheWall
<1> DEFINE noon == AsUtc(Noon(d))
<1>1. PICK s \in Seconds(time) : t = (noon - 12 * HOUR) + s
  BY DEF ScheduledUtc, DayStart
<1>2. Seconds(time) = {s}
  BY <1>1 DEF Seconds
<1>3. s \in Int
  BY <1>1
<1>4. Local(t) = d * DAY + s
  <2>1. /\ d \in Int /\ noon \in Int /\ UtcOffset(noon) \in Int
        /\ noon + UtcOffset(noon) = d * DAY + 12 * HOUR
    BY NoonShown
  <2>2. Local(t) = ((noon - 12 * HOUR) + s) + UtcOffset(noon)
    BY <1>1 DEF Local
  <2> HIDE DEF noon
  <2> QED
    BY <1>3, <2>1, <2>2 DEF HOUR, DAY
<1> QED
  BY <1>2, <1>4

\* Two service days begin as far apart as their dates and the changes between
\* their noons say.
THEOREM DaysAreAsLong == DaysTellChanges
<1> SUFFICES ASSUME NEW d \in ServiceDates, NEW e \in ServiceDates
             PROVE  (AsUtc(Noon(e)) - 12 * HOUR) - (AsUtc(Noon(d)) - 12 * HOUR)
                      = (e - d) * DAY - (UtcOffset(AsUtc(Noon(e))) - UtcOffset(AsUtc(Noon(d))))
  BY DEF DaysTellChanges, DayStart
<1>1. /\ d \in Int /\ AsUtc(Noon(d)) \in Int /\ UtcOffset(AsUtc(Noon(d))) \in Int
      /\ AsUtc(Noon(d)) + UtcOffset(AsUtc(Noon(d))) = d * DAY + 12 * HOUR
  BY NoonShown
<1>2. /\ e \in Int /\ AsUtc(Noon(e)) \in Int /\ UtcOffset(AsUtc(Noon(e))) \in Int
      /\ AsUtc(Noon(e)) + UtcOffset(AsUtc(Noon(e))) = e * DAY + 12 * HOUR
  BY NoonShown
<1> QED
  BY <1>1, <1>2 DEF HOUR, DAY
=============================================================================
