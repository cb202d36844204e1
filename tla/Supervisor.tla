---------------------------- MODULE Supervisor ----------------------------
(***************************************************************************)
(* scripts/run_poller.sh: supervisors that each run one poller, restart it *)
(* when it fails, and keep each other out by a lock file holding a pid.    *)
(* bash runs a trap only when the command in the foreground has ended, so  *)
(* a supervisor asked to stop reacts when its poller has finished the      *)
(* cycle, or when its backoff is slept out; `--stop` is an invocation of   *)
(* its own that does not wait for it, and it too may be overtaken between  *)
(* two of its commands.  pkill knows pollers by name: it signals those of  *)
(* every supervisor.                                                       *)
(***************************************************************************)
EXTENDS Naturals, FiniteSets

CONSTANTS
  Supervisors,   \* the invocations of the script, by pid
  NoPid,         \* what is in the lock file that does not exist
  MaxFailures,   \* bound: pollers that fail
  MaxStops,      \* bound: uses of --stop
  MaxKills       \* bound: supervisors killed without cleanup

ASSUME SupervisorAssumption ==
  /\ NoPid \notin Supervisors
  /\ {MaxFailures, MaxStops, MaxKills} \subseteq Nat

VARIABLES
  lock,   \* the pid in .poller.lock, or NoPid
  pc,     \* pc[s]: where supervisor s is
  poller, \* poller[s]: the poller s started last
  asked,  \* the supervisors that received SIGTERM and trapped it
  stopper,\* stopper[k]: where the k-th --stop is, and the pid it read
  failures, stops, kills, \* bound counters; stops: those begun
  overlapped \* history: two invocations were between check and lock at once

outside == <<stopper, failures, stops, kills>>
vars == <<lock, pc, poller, asked, outside, overlapped>>

\* Before the lock is its own, with the lock (where a poller or a backoff
\* is waited for), on the way out, and gone.
Starting == {"checked", "cleared"}
Looping == {"written", "locked", "loop", "waiting", "sleeping"}
Leaving == {"trap", "trapping", "break"}
Gone == {"off", "exited", "killed"}

TypeOK ==
  /\ lock \in Supervisors \union {NoPid}
  /\ pc \in [Supervisors -> Starting \union Looping \union Leaving \union Gone]
  /\ poller \in [Supervisors -> {"none", "up", "stopping"}]
  /\ asked \in SUBSET Supervisors
  /\ stopper \in [1..MaxStops ->
       [at : {"none", "kill", "pkill", "rm", "done"}, pid : Supervisors \union {NoPid}]]
  /\ failures \in 0..MaxFailures
  /\ stops \in 0..MaxStops
  /\ kills \in 0..MaxKills
  /\ overlapped \in BOOLEAN

Init ==
  /\ lock = NoPid
  /\ pc = [s \in Supervisors |-> "off"]
  /\ poller = [s \in Supervisors |-> "none"]
  /\ asked = {}
  /\ stopper = [k \in 1..MaxStops |-> [at |-> "none", pid |-> NoPid]]
  /\ failures = 0 /\ stops = 0 /\ kills = 0
  /\ overlapped = FALSE

---------------------------------------------------------------------------

Alive(s) == pc[s] \notin Gone
Go(s, place) == pc' = [pc EXCEPT ![s] = place]

\* Broken: the check looks for a poller instead of the supervisor.
LockedByPoller == lock # NoPid /\ pc[lock] = "waiting"

\* _running_pid: the lock names a live supervisor.
Locked == lock # NoPid /\ Alive(lock)

\* pkill -f "ingest.poller.poller": SIGTERM, which a poller obeys at the end
\* of its cycle.
Pkill ==
  poller' = [s \in Supervisors |-> IF poller[s] = "up" THEN "stopping" ELSE poller[s]]

---------------------------------------------------------------------------
(* One invocation of the script.                                           *)

Check(s) ==
  /\ pc[s] = "off"
  /\ Go(s, IF Locked THEN "exited" ELSE "checked")
  /\ overlapped' = (overlapped \/ \E t \in Supervisors : pc[t] \in Starting)
  /\ UNCHANGED <<lock, poller, asked, outside>>

ClearLock(s) ==
  /\ pc[s] = "checked"
  /\ lock' = NoPid
  /\ Go(s, "cleared")
  /\ UNCHANGED <<poller, asked, outside, overlapped>>

WriteLock(s) ==
  /\ pc[s] = "cleared"
  /\ lock' = s
  /\ Go(s, "written")
  /\ UNCHANGED <<poller, asked, outside, overlapped>>

SetTrap(s) ==
  /\ pc[s] = "written"
  /\ Go(s, "locked")
  /\ UNCHANGED <<lock, poller, asked, outside, overlapped>>

\* Without an .env the script gives the lock back and leaves.
CheckEnv(s) ==
  /\ pc[s] = "locked" /\ s \notin asked
  /\ \E place \in {"loop", "break"} : Go(s, place)
  /\ UNCHANGED <<lock, poller, asked, outside, overlapped>>

Launch(s) ==
  /\ pc[s] = "loop" /\ s \notin asked
  /\ poller' = [poller EXCEPT ![s] = "up"]
  /\ Go(s, "waiting")
  /\ UNCHANGED <<lock, asked, outside, overlapped>>

\* What follows the foreground command: a pending trap, or the script.
After(s, place) == IF s \in asked THEN "trap" ELSE place

\* The poller returns 0 once it was signalled ...
PollerStops(s) ==
  /\ pc[s] = "waiting" /\ poller[s] = "stopping"
  /\ poller' = [poller EXCEPT ![s] = "none"]
  /\ Go(s, After(s, "break"))
  /\ UNCHANGED <<lock, asked, outside, overlapped>>

\* ... or fails, signalled or not: the supervisor backs off.
PollerFails(s) ==
  /\ pc[s] = "waiting"
  /\ failures < MaxFailures
  /\ failures' = failures + 1
  /\ poller' = [poller EXCEPT ![s] = "none"]
  /\ Go(s, After(s, "sleeping"))
  /\ UNCHANGED <<lock, asked, stopper, stops, kills, overlapped>>

\* Broken: one failure and the script is over.
BackoffGivesUp(s) ==
  /\ pc[s] = "sleeping"
  /\ Go(s, After(s, "break"))
  /\ UNCHANGED <<lock, poller, asked, outside, overlapped>>

BackoffOver(s) ==
  /\ pc[s] = "sleeping"
  /\ Go(s, After(s, "loop"))
  /\ UNCHANGED <<lock, poller, asked, outside, overlapped>>

\* Broken: a signal between two commands is lost.
TrapAfterCommand(s) ==
  /\ pc[s] = "trap"
  /\ lock' = NoPid
  /\ Go(s, "trapping")
  /\ UNCHANGED <<poller, asked, outside, overlapped>>

\* trap 'rm -f "$LOCK"; pkill ...; exit 0' INT TERM: between two commands,
\* or after the one in the foreground.
Trap(s) ==
  /\ pc[s] = "trap" \/ (pc[s] \in {"locked", "loop", "break"} /\ s \in asked)
  /\ lock' = NoPid
  /\ Go(s, "trapping")
  /\ UNCHANGED <<poller, asked, outside, overlapped>>

TrapPkill(s) ==
  /\ pc[s] = "trapping"
  /\ Pkill
  /\ Go(s, "exited")
  /\ UNCHANGED <<lock, asked, outside, overlapped>>

\* After a clean exit of the poller, or without an .env: rm, and the end.
Break(s) ==
  /\ pc[s] = "break" /\ s \notin asked
  /\ lock' = NoPid
  /\ Go(s, "exited")
  /\ UNCHANGED <<poller, asked, outside, overlapped>>

---------------------------------------------------------------------------
(* One invocation with --stop: read the pid, signal it, signal the         *)
(* pollers, remove the lock whose ever it is by now.                       *)

StopGoes(k, place) == stopper' = [stopper EXCEPT ![k].at = place]

StopRead(k) ==
  /\ k = stops + 1
  /\ stops' = k
  /\ stopper' = [stopper EXCEPT ![k] =
       [at |-> "kill", pid |-> IF Locked THEN lock ELSE NoPid]]
  /\ UNCHANGED <<lock, pc, poller, asked, failures, kills, overlapped>>

\* SIGTERM ends a supervisor that has not set its trap yet.
StopKill(k) ==
  /\ stopper[k].at = "kill"
  /\ LET hit == {s \in Supervisors : s = stopper[k].pid /\ Alive(s)}
         untrapped == {s \in hit : pc[s] = "written"}
     IN  /\ asked' = asked \union (hit \ untrapped)
         /\ pc' = [s \in Supervisors |-> IF s \in untrapped THEN "exited" ELSE pc[s]]
  /\ StopGoes(k, "pkill")
  /\ UNCHANGED <<lock, poller, failures, stops, kills, overlapped>>

StopPkill(k) ==
  /\ stopper[k].at = "pkill"
  /\ Pkill
  /\ StopGoes(k, "rm")
  /\ UNCHANGED <<lock, pc, asked, failures, stops, kills, overlapped>>

StopRemove(k) ==
  /\ stopper[k].at = "rm"
  /\ lock' = NoPid
  /\ StopGoes(k, "done")
  /\ UNCHANGED <<pc, poller, asked, failures, stops, kills, overlapped>>

---------------------------------------------------------------------------
(* Accidents.                                                              *)

\* A supervisor killed without cleanup leaves its lock and its poller.
Kill(s) ==
  /\ pc[s] \in Looping
  /\ kills < MaxKills
  /\ kills' = kills + 1
  /\ Go(s, "killed")
  /\ UNCHANGED <<lock, poller, asked, stopper, failures, stops, overlapped>>

OrphanStops(s) ==
  /\ pc[s] = "killed" /\ poller[s] = "stopping"
  /\ poller' = [poller EXCEPT ![s] = "none"]
  /\ UNCHANGED <<lock, pc, asked, outside, overlapped>>

Script(s) ==
  \/ ClearLock(s) \/ WriteLock(s) \/ SetTrap(s) \/ CheckEnv(s)
  \/ Launch(s) \/ BackoffOver(s)
  \/ Trap(s) \/ TrapPkill(s) \/ Break(s)

StopGoesOn(k) == StopKill(k) \/ StopPkill(k) \/ StopRemove(k)

Next ==
  \/ \E s \in Supervisors :
       \/ Check(s) \/ Script(s)
       \/ PollerStops(s) \/ PollerFails(s)
       \/ Kill(s) \/ OrphanStops(s)
  \/ \E k \in 1..MaxStops : StopRead(k) \/ StopGoesOn(k)

Spec == Init /\ [][Next]_vars

\* The script runs on, with --stop too, sleeps end, and a signalled poller
\* ends its cycle.
FairSpec ==
  /\ Spec
  /\ \A s \in Supervisors :
       WF_vars(Script(s)) /\ WF_vars(PollerStops(s)) /\ WF_vars(OrphanStops(s))
  /\ \A k \in 1..MaxStops : WF_vars(StopGoesOn(k))

---------------------------------------------------------------------------
(* Properties.                                                             *)

\* "Enforce single-instance MECHANICALLY" (run_poller.sh:13): never two
\* pollers against the hourly budget.
AtMostOnePoller == Cardinality({s \in Supervisors : poller[s] # "none"}) <= 1

\* What the lock does enforce: it holds while starts do not overlap, nobody
\* uses --stop and no supervisor is killed, through failures and backoffs.
LockExcludes == (~overlapped /\ stops = 0 /\ kills = 0) => AtMostOnePoller

\* "Restart the poller if it dies" (run_poller.sh:7): after a failure a poller
\* runs again, unless the supervisor was told to stop or was killed.
FailureIsRestarted ==
  \A s \in Supervisors :
    (pc[s] = "sleeping") ~> (poller[s] = "up" \/ s \in asked \/ pc[s] = "killed")

\* A stop takes effect, whatever the supervisor was doing: it and its poller
\* are gone in the end.
StopIsHonoured ==
  \A s \in Supervisors : (s \in asked) ~> (~Alive(s) /\ poller[s] = "none")
===========================================================================
