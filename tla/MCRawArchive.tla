---------------------------- MODULE MCRawArchive ----------------------------
(* Small instances of RawArchive for TLC: two ticks to a second.            *)
EXTENDS RawArchive, TLC

CONSTANTS ok, junk

MCFeeds == <<"trip_updates", "vehicle_positions">>

\* The pollers are alike.
MCSymmetry == Permutations(Pollers)
=============================================================================
