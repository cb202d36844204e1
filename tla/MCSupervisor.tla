--------------------------- MODULE MCSupervisor ---------------------------
(* Small instances of Supervisor for TLC.  Pids are interchangeable.       *)
EXTENDS Supervisor, TLC

Symmetry == Permutations(Supervisors)
===========================================================================
