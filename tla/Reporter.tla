------------------------------ MODULE Reporter ------------------------------
(***************************************************************************)
(* How a topic server reports its scores, without the threads that serve   *)
(* its students: the scores that wait in _answersUDP, the datagrams it     *)
(* still has to send and the one it is sending.  TesManager implements it  *)
(* (module TesReporter); Reporting composes it with the contact server.    *)
(***************************************************************************)
EXTENDS Integers

CONSTANTS
  Iqrs,      \* the scores that may be reported, records with a field qid
  Qids,      \* the names of the questionnaires
  EmptyKey,  \* the empty string, as a key
  None       \* no value

VARIABLES
  results,  \* the score kept under each key, None if none
  due,      \* how many datagrams the grading thread has asked for, unsent
  hand,     \* the score that was taken out to be sent, or None
  phase     \* what answerUDP does

vars == <<results, due, hand, phase>>

Keys == Qids \cup {EmptyKey}

Phases == {"idle", "sending", "done", "gone"}

Init ==
  /\ results = [k \in Keys |-> None]
  /\ due = 0
  /\ hand = None
  /\ phase = "idle"

\* insert() keeps the entry that is there.
Assigned(k, i) == [results EXCEPT ![k] = i]        \* mutant
Inserted(k, i) == [results EXCEPT ![k] = IF @ = None THEN i ELSE @]

\* A submission is graded: its score waits under its qid and is announced.
Grade(i) ==
  /\ phase # "gone"
  /\ results' = Inserted(i.qid, i)
  /\ due' = due + 1
  /\ UNCHANGED <<hand, phase>>

\* answerUDP takes out and sends any score that waits.
Send(i) ==
  /\ phase = "idle" /\ due > 0
  /\ i # None
  /\ \E k \in Keys : results[k] = i /\ results' = [results EXCEPT ![k] = None]
  /\ due' = due - 1
  /\ hand' = i
  /\ phase' = "sending"

\* It keeps what it sent, under the empty key, unless one is kept there.
Store ==
  /\ phase = "sending"
  /\ results' = Inserted(EmptyKey, hand)
  /\ hand' = None
  /\ phase' \in {"idle", "done"}
  /\ UNCHANGED due

\* An acknowledgement of q removes what waits under q, sent or not.
Acknowledge(q) ==
  /\ phase # "gone"
  /\ results' = [results EXCEPT ![q] = None]
  /\ UNCHANGED <<due, hand, phase>>

\* A shutdown: the thread leaves when it is woken.
Stop ==
  /\ phase = "idle" /\ due > 0
  /\ phase' = "done"
  /\ due' = due - 1
  /\ UNCHANGED <<results, hand>>

\* The process ends.
Die ==
  /\ phase' = "gone"
  /\ due' \in 0..due
  /\ UNCHANGED <<results, hand>>

Next ==
  \/ \E i \in Iqrs : Grade(i) \/ Send(i)
  \/ \E q \in Qids : Acknowledge(q)
  \/ Store \/ Stop \/ Die

Spec == Init /\ [][Next]_vars
=============================================================================
