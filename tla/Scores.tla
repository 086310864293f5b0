------------------------------- MODULE Scores -------------------------------
(***************************************************************************)
(* TesManager::score: what a sheet of five answers is worth against the    *)
(* file that has the right ones.                                           *)
(***************************************************************************)
EXTENDS Integers, Sequences

Questions == 0..4

\* The answers processRQS lets through, and the letters a file may begin its
\* words with: anything.
Answers == {"A", "B", "C", "D", "N"}
Sheet   == [Questions -> Answers]

\* What a missing or empty file leaves in ans: the end of the empty string.
NUL == "NUL"

\* The first letters of the first five words.  Extraction that fails leaves aux
\* as it was, so a file that is too short repeats its last word.
Ans(words) ==
  [i \in Questions |->
     IF words = <<>> THEN NUL
     ELSE IF i < Len(words) THEN words[i + 1] ELSE words[Len(words)]]

\* A question left out is worth nothing, a wrong answer less than nothing.
Points(answer, right) ==
  IF answer \in {"N", "n"} THEN 0 ELSE IF answer = right THEN 20 ELSE -5

Total(answers, ans) ==
  Points(answers[0], ans[0]) + Points(answers[1], ans[1]) + Points(answers[2], ans[2])
    + Points(answers[3], ans[3]) + Points(answers[4], ans[4])

score(answers, words) ==
  LET scoreValue == Total(answers, Ans(words))
  IN  IF scoreValue < 0 THEN 0 ELSE scoreValue
=============================================================================
