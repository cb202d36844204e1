---------------------------- MODULE MCCorrection ----------------------------
(* Small instances of Correction for TLC: two forecasts issued together, a  *)
(* later one, and one made after the arrival.                              *)
EXTENDS Correction, TLC

CONSTANTS v1, v2

Forecast(v, i, p) == [visit |-> v, issued |-> i, predicted |-> p]

MCForecasts ==
  {Forecast(v1, 100, 250), Forecast(v1, 100, 300), Forecast(v1, 150, 300),
   Forecast(v2, 250, 300)}

\* The cut is that of the code: the row at the index, in the table sorted.
ByIssue(r, q) == r.issued <= q.issued

ASSUME \A rows \in (SUBSET [issued : 1..3, predicted : 1..2]) \ {{}} :
  CutEpoch(rows) = SetToSortSeq(rows, ByIssue)[((3 * Cardinality(rows)) \div 4) + 1].issued

\* The trainers are alike.
MCSymmetry == Permutations(Trainers)
=============================================================================
