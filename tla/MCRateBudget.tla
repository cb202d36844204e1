-------------------------- MODULE MCRateBudget --------------------------
(* Small instances of RateBudget for TLC.  Bounds are in the .cfg files.   *)
EXTENDS RateBudget
=========================================================================
