---------------------------- MODULE MCMedallion ----------------------------
(* Small instances of Medallion for TLC.                                   *)
EXTENDS Medallion

CONSTANTS Garbage, \* an undecodable payload
          Headers  \* header timestamps of the decodable ones

\* One vehicle, reported stopped at some time, reported moving, or absent.
MCDecodable ==
  [header : Headers,
   report : UNION {[V -> Reports] : V \in SUBSET Vehicles}]
MCContent == MCDecodable \union {Garbage}
===========================================================================
