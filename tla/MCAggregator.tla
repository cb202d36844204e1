---------------------------- MODULE MCAggregator ----------------------------
(* Small instances of Aggregator for TLC: two stops of the agency, one that *)
(* is not, and updates that are early, late, and of no use.                 *)
EXTENDS Aggregator

CONSTANTS s1, s2

Update(s, i, h, p) == [stop |-> s, issued |-> i, header |-> h, predicted |-> p]

MCUpdates ==
  {Update(s1, 150, 150, 300), Update(s1, 0, 300, 450), Update(s1, 150, 150, 0),
   Update(s2, 150, 150, 300), Update(NoStop, 150, 150, 300)}
=============================================================================
