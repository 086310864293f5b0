---------------------------- MODULE MCQuizDates ----------------------------
(* QuizDates around the limits of its fields.                              *)
EXTENDS QuizDates

Date(mon, mday, hour, min, sec) ==
  [year |-> 115, mon |-> mon, mday |-> mday, hour |-> hour, min |-> min, sec |-> sec]

\* Moments of 2015, UTC, whose fields have one digit and two.
Moments ==
  [i \in {1421050150, 1421140149, 1441152009, 1441152010, 1446451750, 1451606399} |->
     CASE i = 1421050150 -> Date(0, 12, 8, 9, 10)
       [] i = 1421140149 -> Date(0, 13, 9, 9, 9)
       [] i = 1441152009 -> Date(8, 2, 0, 0, 9)
       [] i = 1441152010 -> Date(8, 2, 0, 0, 10)
       [] i = 1446451750 -> Date(10, 2, 8, 9, 10)
       [] i = 1451606399 -> Date(11, 31, 23, 59, 59)]

AllMoments == DOMAIN Moments
=============================================================================
