---------------------------- MODULE MCResolver ----------------------------
(* Small instances of Resolver for TLC.  The instances of a group are      *)
(* interchangeable.                                                        *)
EXTENDS Resolver, TLC

Symmetry == Permutations(Instances)
===========================================================================
