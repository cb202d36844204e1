---------------------------- MODULE PollerProofs ----------------------------
(***************************************************************************)
(* The pollers: what the lock of run_poller.sh does exclude, for any       *)
(* number of invocations of the script and of failures; and what any       *)
(* number of pollers do to the archive they share, lock or no lock.        *)
(***************************************************************************)
EXTENDS Supervisor, RawArchive, FiniteSetTheorems, SequenceTheorems, TLAPS

---------------------------------------------------------------------------
(* The lock.                                                               *)

\* Between the lock's writing and its removal.
Inside == Looping \union {"trap", "break"}

\* Inductive while starts do not overlap and nobody interferes: one invocation
\* at most is between check and lock, and only when none is past the lock; the
\* lock names whoever is; and only he who waits has a poller.
LockKept ==
  /\ \A s, t \in Supervisors : (pc[s] \in Starting /\ pc[t] \in Starting) => s = t
  /\ \A s, t \in Supervisors : pc[s] \in Starting => pc[t] \notin Inside
  /\ \A s \in Supervisors : pc[s] \in Inside => lock = s
  /\ \A s \in Supervisors : poller[s] # "none" => pc[s] = "waiting"

NoStop == \A k \in 1..MaxStops : stopper[k].at = "none"

Undisturbed == ~overlapped /\ stops = 0 /\ kills = 0

LockInv == TypeOK /\ (Undisturbed => LockKept /\ NoStop)

---------------------------------------------------------------------------
LEMMA InitLock == Init => LockInv
<1> SUFFICES ASSUME Init PROVE LockInv
  OBVIOUS
<1>1. 0 \in 0..MaxFailures /\ 0 \in 0..MaxStops /\ 0 \in 0..MaxKills
  BY SupervisorAssumption
<1>2. pc \in [Supervisors -> Starting \union Looping \union Leaving \union Gone]
  BY DEF Init, Gone
<1>3. overlapped \in BOOLEAN
  BY DEF Init
<1>a. stopper \in [1..MaxStops ->
       [at : {"none", "kill", "pkill", "rm", "done"}, pid : Supervisors \union {NoPid}]]
  BY DEF Init
<1>4. TypeOK
  BY <1>1, <1>2, <1>3, <1>a DEF Init, TypeOK
<1>5. LockKept
  BY DEF Init, LockKept, Starting, Looping, Leaving, Inside
<1>6. NoStop
  BY DEF Init, NoStop
<1> QED
  BY <1>4, <1>5, <1>6 DEF LockInv

LEMMA PkillType ==
  ASSUME TypeOK, Pkill
  PROVE  /\ poller' \in [Supervisors -> {"none", "up", "stopping"}]
         /\ \A s \in Supervisors : poller'[s] # "none" => poller[s] # "none"
BY DEF TypeOK, Pkill

LEMMA StepType ==
  ASSUME TypeOK, [Next]_vars
  PROVE  TypeOK'
<1> USE DEF TypeOK, Starting, Looping, Leaving, Gone, Go, After, outside
<1>1. CASE UNCHANGED vars
  BY <1>1 DEF vars
<1>2. ASSUME NEW s \in Supervisors, Check(s) PROVE TypeOK'
  BY <1>2 DEF Check
<1>3. ASSUME NEW s \in Supervisors, Script(s) PROVE TypeOK'
  <2>1. CASE TrapPkill(s)
    BY <2>1, PkillType DEF TrapPkill
  <2>2. CASE Trap(s) \/ Break(s) \/ CheckEnv(s)
    BY <2>2 DEF Trap, Break, CheckEnv
  <2>3. CASE ClearLock(s) \/ WriteLock(s) \/ SetTrap(s)
    BY <2>3 DEF ClearLock, WriteLock, SetTrap
  <2>4. CASE Launch(s) \/ BackoffOver(s)
    BY <2>4 DEF Launch, BackoffOver
  <2> QED
    BY <1>3, <2>1, <2>2, <2>3, <2>4 DEF Script
<1>4. ASSUME NEW s \in Supervisors, PollerStops(s) \/ OrphanStops(s) PROVE TypeOK'
  BY <1>4 DEF PollerStops, OrphanStops
<1>5. ASSUME NEW s \in Supervisors, PollerFails(s) PROVE TypeOK'
  BY <1>5, SupervisorAssumption DEF PollerFails
<1>6. ASSUME NEW s \in Supervisors, Kill(s) PROVE TypeOK'
  BY <1>6, SupervisorAssumption DEF Kill
<1>7. ASSUME NEW k \in 1..MaxStops, StopRead(k) PROVE TypeOK'
  <2>1. k \in 0..MaxStops
    BY SupervisorAssumption
  <2>2. [at |-> "kill", pid |-> IF Locked THEN lock ELSE NoPid]
          \in [at : {"none", "kill", "pkill", "rm", "done"}, pid : Supervisors \union {NoPid}]
    OBVIOUS
  <2> QED
    BY <1>7, <2>1, <2>2 DEF StopRead
<1>8. ASSUME NEW k \in 1..MaxStops, StopKill(k) PROVE TypeOK'
  <2>1. asked' \in SUBSET Supervisors
    BY <1>8 DEF StopKill
  <2>2. pc' \in [Supervisors -> Starting \union Looping \union Leaving \union Gone]
    BY <1>8 DEF StopKill
  <2>3. stopper' \in [1..MaxStops ->
          [at : {"none", "kill", "pkill", "rm", "done"}, pid : Supervisors \union {NoPid}]]
    BY <1>8 DEF StopKill, StopGoes
  <2> QED
    BY <1>8, <2>1, <2>2, <2>3 DEF StopKill
<1>9. ASSUME NEW k \in 1..MaxStops, StopPkill(k) \/ StopRemove(k) PROVE TypeOK'
  <2>1. stopper' \in [1..MaxStops ->
          [at : {"none", "kill", "pkill", "rm", "done"}, pid : Supervisors \union {NoPid}]]
    BY <1>9 DEF StopPkill, StopRemove, StopGoes
  <2>2. poller' \in [Supervisors -> {"none", "up", "stopping"}]
    BY <1>9, PkillType DEF StopPkill, StopRemove
  <2> QED
    BY <1>9, <2>1, <2>2 DEF StopPkill, StopRemove
<1> QED
  BY <1>1, <1>2, <1>3, <1>4, <1>5, <1>6, <1>7, <1>8, <1>9 DEF Next, StopGoesOn

\* A history that nobody disturbs was not disturbed before, and its steps are
\* those of the script and of the pollers.
LEMMA Calm ==
  ASSUME LockInv, [Next]_vars, Undisturbed'
  PROVE  /\ Undisturbed /\ NoStop'
         /\ \/ \E s \in Supervisors :
                 Check(s) \/ Script(s) \/ PollerStops(s) \/ PollerFails(s) \/ OrphanStops(s)
            \/ UNCHANGED vars
<1> USE DEF outside
<1>1. CASE UNCHANGED vars
  BY <1>1 DEF vars, LockInv, Undisturbed, NoStop
<1>2. ASSUME NEW s \in Supervisors, Check(s) PROVE Undisturbed /\ NoStop'
  BY <1>2 DEF Check, LockInv, Undisturbed, NoStop
<1>3. ASSUME NEW s \in Supervisors, Script(s) PROVE Undisturbed /\ NoStop'
  <2>1. UNCHANGED <<outside, overlapped>>
    BY <1>3 DEF Script, ClearLock, WriteLock, SetTrap, CheckEnv, Launch, BackoffOver,
       Trap, TrapPkill, Break
  <2> QED
    BY <2>1 DEF LockInv, Undisturbed, NoStop
<1>4. ASSUME NEW s \in Supervisors, PollerStops(s) \/ PollerFails(s) \/ OrphanStops(s)
      PROVE Undisturbed /\ NoStop'
  <2>1. UNCHANGED <<stopper, stops, kills, overlapped>>
    BY <1>4 DEF PollerStops, PollerFails, OrphanStops
  <2> QED
    BY <2>1 DEF LockInv, Undisturbed, NoStop
<1>5. ASSUME NEW s \in Supervisors, Kill(s) PROVE FALSE
  BY <1>5, SupervisorAssumption DEF Kill, Undisturbed, LockInv, TypeOK
<1>6. ASSUME NEW k \in 1..MaxStops, StopRead(k) PROVE FALSE
  BY <1>6 DEF StopRead, Undisturbed
<1>7. ASSUME NEW k \in 1..MaxStops, StopGoesOn(k) PROVE FALSE
  <2>1. Undisturbed /\ stopper[k].at # "none"
    BY <1>7 DEF StopGoesOn, StopKill, StopPkill, StopRemove, Undisturbed
  <2> QED
    BY <2>1 DEF LockInv, NoStop
<1> QED
  BY <1>1, <1>2, <1>3, <1>4, <1>5, <1>6, <1>7 DEF Next

LEMMA StepLock ==
  ASSUME LockInv, [Next]_vars
  PROVE  LockInv'
<1>a. TypeOK /\ TypeOK'
  BY StepType DEF LockInv
<1> SUFFICES ASSUME Undisturbed' PROVE LockKept'
  BY <1>a, Calm DEF LockInv
<1>1. Undisturbed /\ ~overlapped'
  BY Calm DEF Undisturbed
<1>2. LockKept /\ TypeOK
  BY <1>1, <1>a DEF LockInv
<1> USE <1>2 DEF Starting, Looping, Leaving, Gone, Inside, Go, After
<1>3. CASE UNCHANGED vars
  BY <1>3 DEF vars, LockKept
<1>4. ASSUME NEW s \in Supervisors, Check(s) PROVE LockKept'
  <2>1. \A t \in Supervisors : pc[t] \notin Starting
    BY <1>1, <1>4 DEF Check
  <2>2. Locked \/ \A t \in Supervisors : pc[t] \notin Inside
    BY SupervisorAssumption DEF LockKept, Locked, Alive
  <2> QED
    BY <1>4, <2>1, <2>2 DEF Check, LockKept, TypeOK
<1>5. ASSUME NEW s \in Supervisors, ClearLock(s) \/ WriteLock(s) PROVE LockKept'
  BY <1>5 DEF ClearLock, WriteLock, LockKept, TypeOK
<1>6. ASSUME NEW s \in Supervisors, SetTrap(s) \/ CheckEnv(s) PROVE LockKept'
  BY <1>6 DEF SetTrap, CheckEnv, LockKept, TypeOK
<1>7. ASSUME NEW s \in Supervisors, Launch(s) \/ BackoffOver(s) PROVE LockKept'
  BY <1>7 DEF Launch, BackoffOver, LockKept, TypeOK
<1>8. ASSUME NEW s \in Supervisors, Break(s) PROVE LockKept'
  BY <1>8 DEF Break, LockKept, TypeOK
<1>9. ASSUME NEW s \in Supervisors, PollerStops(s) \/ PollerFails(s) PROVE LockKept'
  BY <1>9 DEF PollerStops, PollerFails, LockKept, TypeOK
<1>10. ASSUME NEW s \in Supervisors, OrphanStops(s) PROVE LockKept'
  BY <1>10 DEF OrphanStops, LockKept, TypeOK
<1>11. ASSUME NEW s \in Supervisors, Trap(s) PROVE LockKept'
  BY <1>11 DEF Trap, LockKept, TypeOK
<1>12. ASSUME NEW s \in Supervisors, TrapPkill(s) PROVE LockKept'
  <2>1. \A t \in Supervisors : poller'[t] # "none" => poller[t] # "none"
    BY <1>12, PkillType DEF TrapPkill
  <2> QED
    BY <1>12, <2>1 DEF TrapPkill, LockKept, TypeOK
<1> QED
  BY Calm, <1>3, <1>4, <1>5, <1>6, <1>7, <1>8, <1>9, <1>10, <1>11, <1>12 DEF Script

LEMMA LockSuffices ==
  ASSUME LockInv
  PROVE  LockExcludes
<1> SUFFICES ASSUME Undisturbed PROVE AtMostOnePoller
  BY DEF LockExcludes, Undisturbed
<1> DEFINE P == {s \in Supervisors : poller[s] # "none"}
<1>1. \A s, t \in P : s = t
  BY DEF LockInv, LockKept, Inside, Looping
<1>2. CASE P = {}
  BY <1>2, FS_EmptySet DEF AtMostOnePoller
<1>3. CASE P # {}
  <2>1. PICK s \in P : P = {s}
    BY <1>1, <1>3
  <2>2. Cardinality(P) = 1
    BY <2>1, FS_Singleton
  <2> QED
    BY <2>2 DEF AtMostOnePoller
<1> QED
  BY <1>2, <1>3

\* The supervisors and the operator keep their types.
THEOREM SupervisorTypeCorrect == Spec => []TypeOK
<1>1. Init => TypeOK
  BY InitLock DEF LockInv
<1> QED
  BY <1>1, StepType, PTL DEF Spec

\* The lock keeps pollers apart while starts do not overlap, nobody uses --stop
\* and no supervisor is killed, however often pollers fail and are restarted.
THEOREM LockHolds == Spec => []LockExcludes
<1>1. LockInv /\ [Next]_vars => LockInv'
  BY StepLock
<1> QED
  BY <1>1, InitLock, LockSuffices, PTL DEF Spec

---------------------------------------------------------------------------
(* The archive.                                                            *)

File(tier, n) == [tier |-> tier, name |-> n]
Opened(f) == \E p \in Pollers : open[p] /\ FileOf(p) = f
Begun(n) ==
  IF n.sha \in Decodable
    THEN File("decoded", n) \in present
    ELSE File("quarantine", n) \in present /\ File("error", n) \in present

\* Inductive: a file that is not whole is being written, or its writer died; no
\* file of a poll comes before its raw file, or the error before the quarantine;
\* and a raw file stands alone only while a poller is at the poll.
NotTorn(f) == f \in whole \/ Opened(f) \/ f.name \in deserted

PollOK(p) ==
  /\ open[p] => stage[p] \in Tiers /\ FileOf(p) \in present
  /\ stage[p] \in Tiers => sha[p] \in Payloads
  /\ stage[p] \in {"decoded", "quarantine", "error"} => File("raw", NameOf(p)) \in present
  /\ stage[p] = "decoded" => sha[p] \in Decodable
  /\ stage[p] \in {"quarantine", "error"} => sha[p] \notin Decodable
  /\ stage[p] = "error" => File("quarantine", NameOf(p)) \in present

FileOK(f) ==
  /\ NotTorn(f)
  /\ File("raw", f.name) \in present
  /\ f.tier = "raw" => Begun(f.name) \/ Busy(f.name) \/ f.name \in deserted

DiskInv == (\A p \in Pollers : PollOK(p)) /\ (\A f \in present : FileOK(f))

\* A step of one poller moves no other.
Others(p) ==
  \A q \in Pollers \ {p} :
    stage'[q] = stage[q] /\ open'[q] = open[q] /\ sha'[q] = sha[q] /\ NameOf(q)' = NameOf(q)

LEMMA FeedsFact == Len(Feeds) \in Nat \ {0} /\ DOMAIN Feeds = 1..Len(Feeds)
<1>1. Feeds \in Seq(STRING) /\ Feeds # <<>>
  BY RawArchiveAssumption
<1> QED
  BY <1>1, LenProperties, EmptySeq

LEMMA NameType ==
  ASSUME ArchiveTypeOK, NEW p \in Pollers, sha[p] \in Payloads
  PROVE  NameOf(p) \in Names
<1>1. stamp[p][turn[p]].at \in Int /\ turn[p] \in DOMAIN Feeds
  BY DEF ArchiveTypeOK
<1>2. stamp[p][turn[p]].at \div Second \in Int
  BY <1>1, RawArchiveAssumption
<1>3. Feeds[turn[p]] \in STRING
  BY <1>1, FeedsFact, RawArchiveAssumption, ElementOfSeq
<1> QED
  BY <1>2, <1>3 DEF NameOf, Names

LEMMA ArchiveTypeStep ==
  ASSUME ArchiveTypeOK, DiskInv, [ArchiveNext]_archiveVars
  PROVE  ArchiveTypeOK'
<1> USE DEF ArchiveTypeOK
<1>0. /\ Horizon \in Nat /\ MaxPolls \in Nat /\ MaxDeaths \in Nat
      /\ 1 \in DOMAIN Feeds
      /\ \A p \in Pollers : turn[p] < Len(Feeds) => turn[p] + 1 \in DOMAIN Feeds
  BY RawArchiveAssumption, FeedsFact
<1>1. CASE ArchiveTick
  BY <1>0, <1>1 DEF ArchiveTick, procVars, disk
<1>2. ASSUME NEW p \in Pollers, Nap(p) \/ Restart(p) PROVE ArchiveTypeOK'
  <2>1. BeginCycle(p)
    BY <1>2 DEF Nap, Restart
  <2> QED
    BY <2>1 DEF BeginCycle, GoTo, disk
<1>3. ASSUME NEW p \in Pollers, BeginPoll(p) PROVE ArchiveTypeOK'
  BY <1>0, <1>3 DEF BeginPoll, GoTo, disk
<1>4. ASSUME NEW p \in Pollers, FetchFails(p) PROVE ArchiveTypeOK'
  BY <1>0, <1>4 DEF FetchFails, NextFeed, GoTo, disk
<1>5. ASSUME NEW p \in Pollers, Fetched(p) PROVE ArchiveTypeOK'
  BY <1>5 DEF Fetched, TierAfter, GoTo, disk, Tiers
<1>6. ASSUME NEW p \in Pollers, Open(p) PROVE ArchiveTypeOK'
  <2>1. FileOf(p) \in Files
    BY <1>6, NameType DEF Open, DiskInv, PollOK, FileOf, Files
  <2> QED
    BY <1>6, <2>1 DEF Open
<1>7. ASSUME NEW p \in Pollers, Close(p) PROVE ArchiveTypeOK'
  <2>1. FileOf(p) \in present
    BY <1>7 DEF Close, DiskInv, PollOK
  <2>2. /\ whole' \subseteq present' /\ present' = present
        /\ clock' = clock /\ since' = since /\ stamp' = stamp /\ polls' = polls /\ deaths' = deaths
        /\ deserted' = deserted /\ open' \in [Pollers -> BOOLEAN]
    BY <1>7, <2>1 DEF Close
  <2>3. NextFeed(p) \/ ((\E t \in Tiers : GoTo(p, t)) /\ UNCHANGED <<turn, sha>>)
    BY <1>7 DEF Close, TierAfter, Tiers
  <2>4. /\ turn' \in [Pollers -> DOMAIN Feeds] /\ sha' \in [Pollers -> Payloads \union {NoPayload}]
        /\ stage' \in [Pollers -> {"down", "poll", "fetch", "nap"} \union Tiers]
    BY <1>0, <2>3 DEF NextFeed, GoTo
  <2> QED
    BY <2>2, <2>4
<1>8. ASSUME NEW p \in Pollers, Die(p) PROVE ArchiveTypeOK'
  <2>1. deserted' \subseteq Names
    BY <1>8, NameType DEF Die, DiskInv, PollOK
  <2> QED
    BY <1>0, <1>8, <2>1 DEF Die, GoTo, disk
<1>9. CASE UNCHANGED archiveVars
  BY <1>9 DEF archiveVars, procVars, disk
<1> QED
  BY <1>1, <1>2, <1>3, <1>4, <1>5, <1>6, <1>7, <1>8, <1>9 DEF ArchiveNext

\* A step that touches no file, of a poller that is at none.
LEMMA OffDisk ==
  ASSUME ArchiveTypeOK, DiskInv, NEW p \in Pollers, Others(p), UNCHANGED <<disk, deserted>>,
         stage[p] \notin Tiers, open' = open,
         stage'[p] \in Tiers => stage'[p] = "raw" /\ sha'[p] \in Payloads
  PROVE  DiskInv'
<1>1. ~open[p]
  BY DEF DiskInv, PollOK
<1>2. \A q \in Pollers \ {p} : FileOf(q)' = FileOf(q)
  BY DEF Others, FileOf
<1>3. \A f : Opened(f) => Opened(f)'
  BY <1>1, <1>2 DEF Opened, Others
<1>4. \A n : Busy(n) => Busy(n)'
  BY DEF Busy, Others
<1>5. \A q \in Pollers : PollOK(q)'
  <2>1. ASSUME NEW q \in Pollers \ {p} PROVE PollOK(q)'
    <3>1. PollOK(q)
      BY DEF DiskInv
    <3> QED
      BY <1>2, <2>1, <3>1 DEF PollOK, Others, disk, File
  <2>2. PollOK(p)'
    <3>1. ~open'[p]
      BY <1>1
    <3> QED
      BY <3>1 DEF PollOK, Tiers
  <2> QED
    BY <2>1, <2>2
<1>6. \A f \in present' : FileOK(f)'
  <2> SUFFICES ASSUME NEW f \in present PROVE FileOK(f)'
    BY DEF disk
  <2>1. FileOK(f)
    BY DEF DiskInv
  <2> QED
    BY <1>3, <1>4, <2>1 DEF FileOK, NotTorn, Begun, File, disk
<1> QED
  BY <1>5, <1>6 DEF DiskInv

LEMMA DiskOpen ==
  ASSUME ArchiveTypeOK, DiskInv, NEW p \in Pollers, Open(p)
  PROVE  DiskInv'
<1>1. /\ stage[p] \in Tiers /\ open'[p] /\ UNCHANGED <<stage, turn, stamp, sha, deserted>>
      /\ \A q \in Pollers \ {p} : open'[q] = open[q]
      /\ present' = present \union {FileOf(p)} /\ whole' = whole \ {FileOf(p)}
  BY DEF Open, ArchiveTypeOK
<1>2. \A q \in Pollers : FileOf(q)' = FileOf(q) /\ NameOf(q)' = NameOf(q)
  BY <1>1 DEF FileOf, NameOf
<1>3. \A f : Opened(f) => Opened(f)'
  BY <1>1, <1>2 DEF Opened
<1>4. \A f : f = FileOf(p) => Opened(f)'
  BY <1>1, <1>2 DEF Opened
<1>5. \A n : Busy(n) => Busy(n)'
  BY <1>1, <1>2 DEF Busy
<1>6. FileOf(p) = File(stage[p], NameOf(p)) /\ Busy(NameOf(p))
  BY <1>1 DEF FileOf, File, Busy
<1>7. \A q \in Pollers : PollOK(q)'
  <2> SUFFICES ASSUME NEW q \in Pollers PROVE PollOK(q)'
    OBVIOUS
  <2>1. PollOK(q)
    BY DEF DiskInv
  <2> QED
    BY <1>1, <1>2, <2>1 DEF PollOK, File
<1>8. ASSUME NEW f \in present PROVE FileOK(f)'
  <2>1. FileOK(f)
    BY DEF DiskInv
  <2>2. NotTorn(f)'
    BY <1>1, <1>3, <1>4, <2>1 DEF FileOK, NotTorn
  <2> QED
    BY <1>1, <1>5, <2>1, <2>2 DEF FileOK, Begun, File
<1>9. FileOK(FileOf(p))'
  <2>1. NotTorn(FileOf(p))'
    BY <1>2, <1>4 DEF NotTorn
  <2>2. FileOf(p).name = NameOf(p) /\ FileOf(p).tier = stage[p]
    BY DEF FileOf
  <2>3. File("raw", NameOf(p)) \in present'
    BY <1>1, <1>6 DEF DiskInv, PollOK, Tiers
  <2> QED
    BY <1>2, <1>5, <1>6, <2>1, <2>2, <2>3 DEF FileOK, File
<1> QED
  BY <1>1, <1>2, <1>7, <1>8, <1>9 DEF DiskInv

\* The writer fills its file.  It then goes on to a tier that it may begin, or
\* leaves a poll behind whose files have all been begun.
LEMMA DiskClose ==
  ASSUME ArchiveTypeOK, DiskInv, NEW p \in Pollers, Close(p)
  PROVE  DiskInv'
<1> DEFINE n == NameOf(p)
<1>1. /\ open[p] /\ stage[p] \in Tiers /\ sha[p] \in Payloads /\ FileOf(p) \in present
      /\ ~open'[p] /\ \A q \in Pollers \ {p} : open'[q] = open[q]
      /\ UNCHANGED <<present, deserted, stamp>>
  BY DEF Close, DiskInv, PollOK, ArchiveTypeOK
<1>2. /\ \A q \in Pollers \ {p} : stage'[q] = stage[q] /\ turn'[q] = turn[q] /\ sha'[q] = sha[q]
      /\ \/ stage'[p] \notin Tiers /\ TierAfter(stage[p], sha[p]) = "end"
         \/ stage'[p] = TierAfter(stage[p], sha[p]) /\ turn' = turn /\ sha' = sha
  <2>1. CASE TierAfter(stage[p], sha[p]) = "end"
    BY <2>1 DEF Close, NextFeed, GoTo, ArchiveTypeOK, Tiers
  <2>2. CASE TierAfter(stage[p], sha[p]) # "end"
    BY <2>2 DEF Close, GoTo, ArchiveTypeOK
  <2> QED
    BY <2>1, <2>2
<1>3. \A q \in Pollers \ {p} : NameOf(q)' = NameOf(q) /\ FileOf(q)' = FileOf(q)
  BY <1>1, <1>2 DEF NameOf, FileOf
<1>4. /\ whole \subseteq whole'
      /\ FileOf(p) \in whole' \/ \E q \in Pollers \ {p} : open[q] /\ FileOf(q) = FileOf(p)
  BY DEF Close
<1>5. \A f : NotTorn(f) => NotTorn(f)'
  <2> SUFFICES ASSUME NEW f, NotTorn(f) PROVE NotTorn(f)'
    OBVIOUS
  <2>1. CASE Opened(f)
    <3>1. PICK q \in Pollers : open[q] /\ FileOf(q) = f
      BY <2>1 DEF Opened
    <3>2. f \in whole' \/ \E r \in Pollers \ {p} : open[r] /\ FileOf(r) = f
      BY <1>4, <3>1
    <3> QED
      BY <1>1, <1>3, <3>2 DEF NotTorn, Opened
  <2> QED
    BY <1>1, <1>4, <2>1 DEF NotTorn
<1>6. /\ FileOf(p) = File(stage[p], n) /\ n.sha = sha[p]
      /\ File("raw", n) \in present
  BY <1>1 DEF FileOf, File, NameOf, DiskInv, PollOK, Tiers
<1>7. PollOK(p)
  BY DEF DiskInv
<1>8. stage'[p] \in Tiers => NameOf(p)' = n
  BY <1>1, <1>2 DEF NameOf
<1>9. stage'[p] \notin Tiers => Begun(n)
  <2> SUFFICES ASSUME stage'[p] \notin Tiers PROVE Begun(n)
    OBVIOUS
  <2>1. stage[p] \in {"decoded", "error"}
    BY <1>1, <1>2 DEF TierAfter, Tiers
  <2> QED
    BY <1>1, <1>6, <1>7, <2>1 DEF Begun, PollOK
<1>10. \A q \in Pollers : PollOK(q)'
  <2>1. ASSUME NEW q \in Pollers \ {p} PROVE PollOK(q)'
    <3>1. PollOK(q)
      BY DEF DiskInv
    <3> QED
      BY <1>1, <1>2, <1>3, <2>1, <3>1 DEF PollOK, File
  <2>2. PollOK(p)'
    <3>1. CASE stage'[p] \notin Tiers
      BY <1>1, <3>1 DEF PollOK, Tiers
    <3>2. CASE stage'[p] \in Tiers
      <4>1. stage'[p] = TierAfter(stage[p], sha[p]) /\ sha' = sha
        BY <1>2, <3>2
      <4>2. \/ stage[p] = "raw" /\ sha[p] \in Decodable /\ stage'[p] = "decoded"
            \/ stage[p] = "raw" /\ sha[p] \notin Decodable /\ stage'[p] = "quarantine"
            \/ stage[p] = "quarantine" /\ stage'[p] = "error"
        BY <1>1, <3>2, <4>1 DEF TierAfter, Tiers
      <4> QED
        BY <1>1, <1>6, <1>7, <1>8, <3>2, <4>1, <4>2 DEF PollOK, File
    <3> QED
      BY <3>1, <3>2
  <2> QED
    BY <2>1, <2>2
<1>11. \A m : Busy(m) => Busy(m)' \/ Begun(m)
  <2> SUFFICES ASSUME NEW m, NEW q \in Pollers, stage[q] \in Tiers, NameOf(q) = m
               PROVE  Busy(m)' \/ Begun(m)
    BY DEF Busy
  <2>1. CASE q = p
    BY <1>8, <1>9, <2>1 DEF Busy
  <2>2. CASE q # p
    BY <1>2, <1>3, <2>2 DEF Busy
  <2> QED
    BY <2>1, <2>2
<1>12. \A f \in present' : FileOK(f)'
  <2> SUFFICES ASSUME NEW f \in present PROVE FileOK(f)'
    BY <1>1
  <2>1. FileOK(f)
    BY DEF DiskInv
  <2> QED
    BY <1>1, <1>5, <1>11, <2>1 DEF FileOK, Begun, File
<1> QED
  BY <1>10, <1>12 DEF DiskInv

\* Whoever dies at a file leaves its poll deserted.
LEMMA DiskDie ==
  ASSUME ArchiveTypeOK, DiskInv, NEW p \in Pollers, Die(p)
  PROVE  DiskInv'
<1>1. /\ UNCHANGED <<present, whole, stamp>> /\ stage'[p] = "down" /\ ~open'[p]
      /\ deserted \subseteq deserted'
      /\ stage[p] \in Tiers => NameOf(p) \in deserted'
      /\ \A q \in Pollers \ {p} : /\ stage'[q] = stage[q] /\ turn'[q] = turn[q]
                                  /\ sha'[q] = sha[q] /\ open'[q] = open[q]
  BY DEF Die, GoTo, disk, ArchiveTypeOK
<1>2. \A q \in Pollers \ {p} : NameOf(q)' = NameOf(q) /\ FileOf(q)' = FileOf(q)
  BY <1>1 DEF NameOf, FileOf
<1>3. \A q \in Pollers : PollOK(q)'
  <2>1. ASSUME NEW q \in Pollers \ {p} PROVE PollOK(q)'
    <3>1. PollOK(q)
      BY DEF DiskInv
    <3> QED
      BY <1>1, <1>2, <2>1, <3>1 DEF PollOK, File
  <2>2. PollOK(p)'
    BY <1>1 DEF PollOK, Tiers
  <2> QED
    BY <2>1, <2>2
<1>4. ASSUME NEW f \in present PROVE FileOK(f)'
  <2>1. FileOK(f)
    BY DEF DiskInv
  <2>2. Opened(f) => Opened(f)' \/ f.name \in deserted'
    <3> SUFFICES ASSUME NEW q \in Pollers, open[q], FileOf(q) = f
                 PROVE  Opened(f)' \/ f.name \in deserted'
      BY DEF Opened
    <3>1. CASE q = p
      <4>1. stage[p] \in Tiers /\ f.name = NameOf(p)
        BY <3>1 DEF DiskInv, PollOK, FileOf
      <4> QED
        BY <1>1, <4>1
    <3>2. CASE q # p
      BY <1>1, <1>2, <3>2 DEF Opened
    <3> QED
      BY <3>1, <3>2
  <2>3. Busy(f.name) => Busy(f.name)' \/ f.name \in deserted'
    <3> SUFFICES ASSUME NEW q \in Pollers, stage[q] \in Tiers, NameOf(q) = f.name
                 PROVE  Busy(f.name)' \/ f.name \in deserted'
      BY DEF Busy
    <3>1. CASE q = p
      BY <1>1, <3>1
    <3>2. CASE q # p
      BY <1>1, <1>2, <3>2 DEF Busy
    <3> QED
      BY <3>1, <3>2
  <2> QED
    BY <1>1, <2>1, <2>2, <2>3 DEF FileOK, NotTorn, Begun, File
<1> QED
  BY <1>1, <1>3, <1>4 DEF DiskInv

LEMMA DiskStep ==
  ASSUME ArchiveTypeOK, DiskInv, [ArchiveNext]_archiveVars
  PROVE  DiskInv'
<1>1. CASE ArchiveTick \/ UNCHANGED archiveVars
  <2>1. UNCHANGED <<stage, open, turn, stamp, sha, present, whole, deserted>>
    BY <1>1 DEF ArchiveTick, archiveVars, procVars, disk
  <2> QED
    BY <2>1 DEF DiskInv, PollOK, FileOK, NotTorn, Opened, Begun, Busy, FileOf, NameOf, File
<1>2. ASSUME NEW p \in Pollers,
             Nap(p) \/ Restart(p) \/ BeginPoll(p) \/ FetchFails(p) \/ Fetched(p)
      PROVE  DiskInv'
  <2>1. /\ stage[p] \notin Tiers /\ open' = open /\ UNCHANGED <<disk, deserted>>
        /\ stage'[p] \in Tiers => stage'[p] = "raw" /\ sha'[p] \in Payloads
    BY <1>2 DEF Nap, Restart, BeginCycle, BeginPoll, FetchFails, Fetched, NextFeed, TierAfter,
       GoTo, Tiers, ArchiveTypeOK
  <2>2. \A q \in Pollers \ {p} : /\ stage'[q] = stage[q] /\ turn'[q] = turn[q]
                                 /\ sha'[q] = sha[q] /\ stamp'[q] = stamp[q]
    BY <1>2 DEF Nap, Restart, BeginCycle, BeginPoll, FetchFails, Fetched, NextFeed, GoTo, ArchiveTypeOK
  <2>3. Others(p)
    BY <2>1, <2>2 DEF Others, NameOf
  <2> QED
    BY <2>1, <2>3, OffDisk
<1> QED
  BY <1>1, <1>2, DiskOpen, DiskClose, DiskDie DEF ArchiveNext

LEMMA ArchiveInitInv == ArchiveInit => ArchiveTypeOK /\ DiskInv
<1> SUFFICES ASSUME ArchiveInit PROVE ArchiveTypeOK /\ DiskInv
  OBVIOUS
<1>1. ArchiveTypeOK
  BY RawArchiveAssumption, FeedsFact DEF ArchiveInit, ArchiveTypeOK
<1>2. DiskInv
  BY DEF ArchiveInit, DiskInv, PollOK, Tiers
<1> QED
  BY <1>1, <1>2

\* The pollers, their clocks and the archive keep their types.
THEOREM ArchiveTypeCorrect == ArchiveSpec => []ArchiveTypeOK
BY ArchiveInitInv, ArchiveTypeStep, DiskStep, PTL DEF ArchiveSpec

\* However many pollers write to one archive, and die in it, what is decoded or
\* in the quarantine has its bytes in the raw archive.
THEOREM BytesKept == ArchiveSpec => []BytesAreKept
<1>1. ArchiveTypeOK /\ DiskInv => BytesAreKept
  <2> SUFFICES ASSUME ArchiveTypeOK, DiskInv, NEW f \in present, f.name \notin deserted, ~Has("raw", f.name)
               PROVE  \E p \in Pollers : stage[p] = "raw" /\ open[p] /\ NameOf(p) = f.name
    BY DEF BytesAreKept
  <2>1. NotTorn(File("raw", f.name))
    BY DEF DiskInv, FileOK
  <2>2. PICK p \in Pollers : open[p] /\ FileOf(p) = File("raw", f.name)
    BY <2>1 DEF NotTorn, Has, File, Opened
  <2> QED
    BY <2>2 DEF FileOf, File
<1> QED
  BY <1>1, ArchiveInitInv, ArchiveTypeStep, DiskStep, PTL DEF ArchiveSpec

\* And every poll in the archive is decoded or in the quarantine, unless a poller
\* is at it or died on it.
THEOREM DecisionHolds == ArchiveSpec => []ArchivedIsDecided
<1>1. ArchiveTypeOK /\ DiskInv => ArchivedIsDecided
  <2> SUFFICES ASSUME ArchiveTypeOK, DiskInv, NEW f \in present, f.tier = "raw",
                      ~Busy(f.name), f.name \notin deserted
               PROVE  Decided(f.name)
    BY DEF ArchivedIsDecided
  <2>1. Begun(f.name)
    BY DEF DiskInv, FileOK
  <2>2. ASSUME NEW t \in Tiers, File(t, f.name) \in present PROVE Has(t, f.name)
    <3>1. NotTorn(File(t, f.name)) /\ File(t, f.name).name = f.name
      BY <2>2 DEF DiskInv, FileOK, File
    <3>2. ~Opened(File(t, f.name))
      BY DEF Opened, Busy, DiskInv, PollOK, FileOf, File
    <3> QED
      BY <3>1, <3>2 DEF NotTorn, Has, File
  <2> QED
    BY <2>1, <2>2 DEF Begun, Decided, Tiers
<1> QED
  BY <1>1, ArchiveInitInv, ArchiveTypeStep, DiskStep, PTL DEF ArchiveSpec

\* Inductive: in this cycle a feed was polled as far into it as its stamp says;
\* when it was polled in an earlier one, the interval of that one is over, or a
\* backoff has been waited for since.
Polled(p, i) == stamp[p][i].at = since[p] + stamp[p][i].into /\ stamp[p][i].at <= clock

NotYetPolled(p, i) ==
  /\ stamp[p][i].at <= since[p]
  /\ \/ since[p] >= stamp[p][i].at + Backoff
     \/ since[p] >= stamp[p][i].at - stamp[p][i].into + Interval

CycleOK(p) ==
  /\ since[p] <= clock
  /\ stage[p] \in {"down", "nap"} => turn[p] = 1
  /\ \A i \in DOMAIN Feeds :
       /\ stage[p] = "down" => stamp[p][i].at <= since[p]
       /\ stage[p] = "nap" => Polled(p, i)
       /\ stage[p] \notin {"down", "nap"} /\ i < turn[p] => Polled(p, i)
       /\ stage[p] \notin {"down", "nap"} /\ i > turn[p] => NotYetPolled(p, i)
       /\ stage[p] = "poll" /\ i = turn[p] => NotYetPolled(p, i)
       /\ stage[p] \notin {"down", "nap", "poll"} /\ i = turn[p] => Polled(p, i)

CycleInv == \A p \in Pollers : CycleOK(p)

LEMMA CycleTypes ==
  ASSUME ArchiveTypeOK
  PROVE  /\ clock \in Nat /\ Backoff \in Nat /\ Interval \in Nat
         /\ \A p \in Pollers : since[p] \in Int /\ turn[p] \in 1..Len(Feeds)
         /\ \A p \in Pollers, i \in 1..Len(Feeds) :
              stamp[p][i].at \in Int /\ stamp[p][i].into \in Int
<1>1. clock \in Nat /\ Backoff \in Nat /\ Interval \in Nat
  BY RawArchiveAssumption DEF ArchiveTypeOK
<1>2. \A p \in Pollers : since[p] \in Int /\ turn[p] \in DOMAIN Feeds
  BY DEF ArchiveTypeOK
<1>3. \A p \in Pollers, i \in DOMAIN Feeds : stamp[p][i] \in [at : Int, into : Int]
  BY DEF ArchiveTypeOK
<1> QED
  BY <1>1, <1>2, <1>3, FeedsFact

LEMMA CycleNextFeed ==
  ASSUME ArchiveTypeOK, CycleInv, NEW p \in Pollers, stage[p] \notin {"down", "nap", "poll"},
         NextFeed(p), UNCHANGED <<clock, since, stamp>>
  PROVE  CycleOK(p)'
<1>1. \A i \in DOMAIN Feeds : /\ i <= turn[p] => Polled(p, i)
                              /\ i > turn[p] => NotYetPolled(p, i)
  BY CycleTypes, FeedsFact DEF CycleInv, CycleOK
<1>2. \A i \in DOMAIN Feeds : /\ Polled(p, i) => Polled(p, i)'
                              /\ NotYetPolled(p, i) => NotYetPolled(p, i)'
  BY DEF Polled, NotYetPolled
<1>3. since'[p] <= clock'
  BY DEF CycleInv, CycleOK
<1>4. CASE turn[p] < Len(Feeds)
  <2>1. stage'[p] = "poll" /\ turn'[p] = turn[p] + 1
    BY <1>4 DEF NextFeed, GoTo, ArchiveTypeOK
  <2>2. \A i \in DOMAIN Feeds : /\ i < turn'[p] => Polled(p, i)'
                                /\ i >= turn'[p] => NotYetPolled(p, i)'
    BY <1>1, <1>2, <2>1, CycleTypes, FeedsFact
  <2> QED
    BY <1>3, <2>1, <2>2, CycleTypes, FeedsFact DEF CycleOK
<1>5. CASE ~(turn[p] < Len(Feeds))
  <2>1. stage'[p] = "nap" /\ turn'[p] = 1
    BY <1>5 DEF NextFeed, GoTo, ArchiveTypeOK
  <2>2. \A i \in DOMAIN Feeds : Polled(p, i)'
    BY <1>1, <1>2, <1>5, CycleTypes, FeedsFact
  <2> QED
    BY <1>3, <2>1, <2>2 DEF CycleOK
<1> QED
  BY <1>4, <1>5

\* What a poller begins its cycle with.
LEMMA CycleBegin ==
  ASSUME ArchiveTypeOK, CycleInv, NEW p \in Pollers, Nap(p) \/ Restart(p)
  PROVE  CycleOK(p)'
<1>1. stage'[p] = "poll" /\ turn'[p] = 1 /\ since'[p] = clock /\ UNCHANGED <<clock, stamp>>
  BY DEF Nap, Restart, BeginCycle, GoTo, CycleInv, CycleOK, ArchiveTypeOK
<1>2. ASSUME NEW i \in DOMAIN Feeds PROVE NotYetPolled(p, i)'
  <2>1. CASE Nap(p)
    <3>1. /\ stamp[p][i].at = since[p] + stamp[p][i].into /\ stamp[p][i].at <= clock
          /\ clock - since[p] >= Interval
      BY <2>1 DEF Nap, CycleInv, CycleOK, Polled
    <3>2. /\ stamp[p][i].at \in Int /\ stamp[p][i].into \in Int
          /\ since[p] \in Int /\ clock \in Nat /\ Interval \in Nat
      BY CycleTypes, FeedsFact
    <3>3. clock >= stamp[p][i].at - stamp[p][i].into + Interval
      BY <3>1, <3>2
    <3> QED
      BY <1>1, <3>1, <3>3 DEF NotYetPolled
  <2>2. CASE Restart(p)
    BY <1>1, <2>2, CycleTypes, FeedsFact DEF Restart, CycleInv, CycleOK, NotYetPolled
  <2> QED
    BY <2>1, <2>2
<1> QED
  BY <1>1, <1>2, CycleTypes, FeedsFact DEF CycleOK

LEMMA CycleStep ==
  ASSUME ArchiveTypeOK, DiskInv, CycleInv, [ArchiveNext]_archiveVars
  PROVE  CycleInv'
<1>1. CASE ArchiveTick \/ UNCHANGED archiveVars
  <2>1. UNCHANGED <<stage, turn, since, stamp>> /\ clock <= clock' /\ clock' \in Nat
    BY <1>1, CycleTypes DEF ArchiveTick, archiveVars, procVars
  <2> QED
    BY <2>1, CycleTypes, FeedsFact DEF CycleInv, CycleOK, Polled, NotYetPolled
<1>2. ASSUME NEW p \in Pollers,
             \/ Nap(p) \/ BeginPoll(p) \/ FetchFails(p) \/ Fetched(p)
             \/ Open(p) \/ Close(p) \/ Die(p) \/ Restart(p)
      PROVE  CycleInv'
  <2>1. /\ UNCHANGED clock
        /\ \A q \in Pollers \ {p} : /\ stage'[q] = stage[q] /\ turn'[q] = turn[q]
                                    /\ since'[q] = since[q] /\ stamp'[q] = stamp[q]
    <3>1. CASE Close(p)
      BY <3>1 DEF Close, NextFeed, GoTo, ArchiveTypeOK
    <3>2. CASE ~Close(p)
      BY <1>2, <3>2 DEF Nap, Restart, BeginCycle, BeginPoll, FetchFails, Fetched, Open, Die, NextFeed,
         GoTo, ArchiveTypeOK
    <3> QED
      BY <3>1, <3>2
  <2>2. ASSUME NEW q \in Pollers \ {p} PROVE CycleOK(q)'
    BY <2>1 DEF CycleInv, CycleOK, Polled, NotYetPolled
  <2>3. CASE Nap(p) \/ Restart(p)
    BY <2>2, <2>3, CycleBegin DEF CycleInv
  <2>4. CASE BeginPoll(p)
    <3>1. /\ stage[p] = "poll" /\ stage'[p] = "fetch" /\ turn' = turn /\ since' = since
          /\ \A i \in DOMAIN Feeds :
               IF i = turn[p] THEN stamp'[p][i] = [at |-> clock, into |-> clock - since[p]]
                              ELSE stamp'[p][i] = stamp[p][i]
      BY <2>4 DEF BeginPoll, GoTo, ArchiveTypeOK
    <3>2. ASSUME NEW i \in DOMAIN Feeds
          PROVE  /\ i < turn[p] => Polled(p, i)'
                 /\ i > turn[p] => NotYetPolled(p, i)'
                 /\ i = turn[p] => Polled(p, i)'
      <4>1. CASE i # turn[p]
        <5>1. stamp'[p][i] = stamp[p][i]
          BY <3>1, <4>1
        <5> QED
          BY <2>1, <3>1, <4>1, <5>1 DEF CycleInv, CycleOK, Polled, NotYetPolled
      <4>2. CASE i = turn[p]
        <5>1. stamp'[p][i].at = clock /\ stamp'[p][i].into = clock - since[p]
          BY <3>1, <4>2
        <5> QED
          BY <2>1, <3>1, <4>2, <5>1, CycleTypes DEF Polled
      <4> QED
        BY <4>1, <4>2
    <3>3. CycleOK(p)'
      BY <2>1, <3>1, <3>2 DEF CycleInv, CycleOK
    <3> QED
      BY <2>2, <3>3 DEF CycleInv
  <2>5. CASE FetchFails(p)
    <3>1. CycleOK(p)'
      BY <2>5, CycleNextFeed DEF FetchFails
    <3> QED
      BY <2>2, <3>1 DEF CycleInv
  <2>6. CASE Fetched(p) \/ Open(p)
    <3>1. /\ stage[p] \notin {"down", "nap", "poll"} /\ stage'[p] \notin {"down", "nap", "poll"}
          /\ UNCHANGED <<turn, since, stamp>>
      BY <2>6 DEF Fetched, Open, TierAfter, GoTo, Tiers, ArchiveTypeOK
    <3>2. CycleOK(p)'
      BY <2>1, <3>1 DEF CycleInv, CycleOK, Polled, NotYetPolled
    <3> QED
      BY <2>2, <3>2 DEF CycleInv
  <2>7. CASE Close(p)
    <3>1. stage[p] \notin {"down", "nap", "poll"} /\ UNCHANGED <<since, stamp>>
      BY <2>7 DEF Close, DiskInv, PollOK, Tiers
    <3>2. CASE NextFeed(p)
      BY <2>1, <2>2, <3>1, <3>2, CycleNextFeed DEF CycleInv
    <3>3. CASE ~NextFeed(p)
      <4>1. stage'[p] \notin {"down", "nap", "poll"} /\ turn' = turn
        BY <2>7, <3>3 DEF Close, TierAfter, GoTo, ArchiveTypeOK
      <4>2. CycleOK(p)'
        BY <2>1, <3>1, <4>1 DEF CycleInv, CycleOK, Polled, NotYetPolled
      <4> QED
        BY <2>2, <4>2 DEF CycleInv
    <3> QED
      BY <3>2, <3>3
  <2>8. CASE Die(p)
    <3>1. /\ stage[p] # "down" /\ stage'[p] = "down" /\ turn'[p] = 1
          /\ since'[p] = clock /\ stamp' = stamp
      BY <2>8 DEF Die, GoTo, ArchiveTypeOK
    <3>2. ASSUME NEW i \in DOMAIN Feeds PROVE stamp[p][i].at <= clock
      <4>1. CycleOK(p)
        BY DEF CycleInv
      <4>2. /\ since[p] \in Int /\ clock \in Int /\ since[p] <= clock
            /\ stamp[p][i].at \in Int /\ turn[p] \in Int /\ i \in Int
        BY <4>1, CycleTypes, FeedsFact DEF CycleOK
      <4>3. Polled(p, i) => stamp[p][i].at <= clock
        BY DEF Polled
      <4>4. NotYetPolled(p, i) => stamp[p][i].at <= clock
        BY <4>2 DEF NotYetPolled
      <4>5. Polled(p, i) \/ NotYetPolled(p, i)
        BY <3>1, <4>1, <4>2 DEF CycleOK
      <4> QED
        BY <4>3, <4>4, <4>5
    <3>3. CycleOK(p)'
      BY <2>1, <3>1, <3>2, CycleTypes DEF CycleOK
    <3> QED
      BY <2>2, <3>3 DEF CycleInv
  <2> QED
    BY <1>2, <2>3, <2>4, <2>5, <2>6, <2>7, <2>8
<1> QED
  BY <1>1, <1>2 DEF ArchiveNext

LEMMA SecondsApart ==
  ASSUME NEW a \in Int, NEW b \in Int, a + Second <= b
  PROVE  a \div Second < b \div Second
<1> DEFINE q == a \div Second
           r == b \div Second
<1>1. Second \in Int /\ Second > 0
  BY RawArchiveAssumption
<1>2. q \in Int /\ r \in Int /\ Second * q <= a /\ b < Second * r + Second
  BY <1>1
<1> HIDE DEF q, r
<1>3. ASSUME r <= q PROVE FALSE
  <2>1. Second * r <= Second * q
    BY <1>1, <1>2, <1>3
  <2>2. Second * r \in Int /\ Second * q \in Int
    BY <1>1, <1>2
  <2> QED
    BY <1>1, <1>2, <2>1, <2>2
<1>4. q < r
  BY <1>2, <1>3
<1> QED
  BY <1>4 DEF q, r

LEMMA CycleInitInv == ArchiveInit => CycleInv
<1> SUFFICES ASSUME ArchiveInit PROVE CycleInv
  OBVIOUS
<1> QED
  BY RawArchiveAssumption DEF ArchiveInit, CycleInv, CycleOK

\* For any interval, backoff and number of feeds, and however long anything takes:
\* two polls of a feed are in different seconds unless the first came late in its
\* cycle.
THEOREM PunctualHolds == ArchiveSpec => PunctualPollsAreApart
<1> DEFINE Apart ==
      \A p \in Pollers : \A i \in DOMAIN Feeds :
        (stamp'[p][i] # stamp[p][i] /\ stamp[p][i].into + Second <= Interval)
        => stamp[p][i].at \div Second < stamp'[p][i].at \div Second
<1>1. ArchiveTypeOK /\ CycleInv /\ [ArchiveNext]_archiveVars => [Apart]_archiveVars
  <2> SUFFICES ASSUME ArchiveTypeOK, CycleInv, [ArchiveNext]_archiveVars,
                      NEW p \in Pollers, NEW i \in DOMAIN Feeds,
                      stamp'[p][i] # stamp[p][i], stamp[p][i].into + Second <= Interval
               PROVE  stamp[p][i].at \div Second < stamp'[p][i].at \div Second
    OBVIOUS
  <2>1. \E r \in Pollers : BeginPoll(r)
    BY DEF ArchiveNext, ArchiveTick, Nap, Restart, BeginCycle, FetchFails, Fetched, Open, Close, Die,
       procVars, archiveVars
  <2>2. BeginPoll(p) /\ i = turn[p] /\ stage[p] = "poll" /\ stamp'[p][i].at = clock
    <3>1. PICK r \in Pollers : BeginPoll(r)
      BY <2>1
    <3>2. /\ stamp \in [Pollers -> [DOMAIN Feeds -> [at : Int, into : Int]]]
          /\ stamp' = [stamp EXCEPT ![r][turn[r]] = [at |-> clock, into |-> clock - since[r]]]
      BY <3>1 DEF BeginPoll, ArchiveTypeOK
    <3>3. r = p
      BY <3>2
    <3>4. i = turn[p]
      BY <3>2, <3>3
    <3>5. stamp'[p][i] = [at |-> clock, into |-> clock - since[p]]
      BY <3>2, <3>3, <3>4
    <3> QED
      BY <3>1, <3>3, <3>4, <3>5 DEF BeginPoll
  <2>3. NotYetPolled(p, i) /\ since[p] <= clock
    BY <2>2 DEF CycleInv, CycleOK
  <2>4. /\ stamp[p][i].at \in Int /\ stamp[p][i].into \in Int
        /\ since[p] \in Int /\ clock \in Int
    BY CycleTypes, FeedsFact
  <2>5. /\ Second \in Nat /\ Interval \in Nat
        /\ Backoff \in Nat /\ Backoff >= Second
    BY RawArchiveAssumption
  <2>6. stamp[p][i].at + Second <= clock
    BY <2>3, <2>4, <2>5 DEF NotYetPolled
  <2> QED
    BY <2>2, <2>4, <2>6, SecondsApart
<1>2. ArchiveSpec => [][Apart]_archiveVars
  BY <1>1, ArchiveInitInv, ArchiveTypeStep, DiskStep, CycleInitInv, CycleStep, PTL DEF ArchiveSpec
<1> QED
  BY <1>2 DEF PunctualPollsAreApart
=============================================================================
