----------------------------- MODULE MCBronze -----------------------------
(* Small instances of Bronze for TLC: one good payload, one garbage.       *)
EXTENDS Bronze

MCContent == {"feed", "html"}
MCDecodable == {"feed"}
===========================================================================
