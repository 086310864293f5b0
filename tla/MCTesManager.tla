---------------------------- MODULE MCTesManager ----------------------------
(* TesManager on small sets.                                               *)
EXTENDS TesLedger, TesReporter, Scores, TLC

First == <<"A", "B", "C", "D", "A">>

\* "right" answers all of the first file and some of the second, which is short.
MCSheet(sheet) ==
  [i \in Questions |->
     IF sheet = "blank" THEN "N" ELSE First[i + 1]]

MCWords(file) == IF file = 1 THEN First ELSE <<"A", "B">>

MCScore == [x \in Sheets \X Files |-> score(MCSheet(x[1]), MCWords(x[2]))]

\* Clients and answerTCP threads are interchangeable.
Symmetry == Permutations(Clients) \cup Permutations(Answerers) \cup Permutations(Sids)
=============================================================================
