----------------------------- MODULE MCReporting -----------------------------
(* Reporting with two scores of one questionnaire name and one of another.  *)
EXTENDS Reporting, TLC

CONSTANTS first, second, only

\* "of" tells two scores of the same questionnaire name apart.
Score(q, n) == [qid |-> q, of |-> n]
TwoAndOne == {Score("q1", first), Score("q1", second), Score("q2", only)}

\* The two scores of one name are interchangeable.
Symmetry == Permutations({first, second})
=============================================================================
