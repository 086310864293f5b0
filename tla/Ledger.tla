------------------------------- MODULE Ledger -------------------------------
(***************************************************************************)
(* What a topic server promises its students, without its threads, queues, *)
(* semaphores and locks: it deals questionnaires, keeps each one open      *)
(* under its qid until somebody hands it in, and marks every submission    *)
(* against the questionnaire it takes out.  TesManager implements it       *)
(* (module TesLedger).                                                     *)
(***************************************************************************)
EXTENDS Integers, FiniteSets

CONSTANTS Clients, Sids, Sheets, Files, Score, Window, MaxTime, None

Time == 0..MaxTime
Qid  == Sids \X Time
Quiz == [sid : Sids, deadline : Nat, file : Files]

\* What a connection is told: a questionnaire, or the mark of a submission.
AQT(q, d, f) == [kind |-> "AQT", qid |-> q, deadline |-> d, file |-> f]
AQS(q, m)    == [kind |-> "AQS", qid |-> q, score |-> m]

Told ==
  [kind : {"AQT"}, qid : Qid, deadline : Nat, file : Files]
    \cup [kind : {"AQS"}, qid : Qid, score : -2..100]

\* What the constants have to be; TesAssumption and LedgerNone provide it.
ConstantsOK ==
  /\ Score \in [Sheets \X Files -> 0..100]
  /\ Window \in Nat /\ MaxTime \in Nat
  /\ None \notin Clients /\ None \notin Told \cup Quiz \cup [qid : Qid, quiz : Quiz]

VARIABLES
  now,     \* the time
  told,    \* what each connection was told, None if nothing yet
  filing,  \* the connection whose questionnaire is not yet open, or None
  open,    \* the questionnaire that can be handed in under a qid, or None
  desk     \* the questionnaire being marked and its qid, or None

vars == <<now, told, filing, open, desk>>

Init ==
  /\ now = 0
  /\ told = [c \in Clients |-> None]
  /\ filing = None
  /\ open = [q \in Qid |-> None]
  /\ desk = None

Tick ==
  /\ now < MaxTime
  /\ now' = now + 1
  /\ UNCHANGED <<told, filing, open, desk>>

Tell(c, a) == told[c] = None /\ told' = [told EXCEPT ![c] = a]

\* A questionnaire is dealt; its qid is the student and the second.
Deal(c, s, f) ==
  /\ filing = None
  /\ Tell(c, AQT(<<s, now>>, now + Window, f))
  /\ filing' = c
  /\ UNCHANGED <<now, open, desk>>

\* It becomes open under its qid, in the place of an earlier one ...
File(c) ==
  LET q == told[c].qid IN
  /\ filing = c
  /\ open' = [open EXCEPT ![q] =
       [sid |-> q[1], deadline |-> told[c].deadline, file |-> told[c].file]]
  /\ filing' = None
  /\ UNCHANGED <<now, told, desk>>

\* ... or is lost.
Mislay ==
  /\ filing # None
  /\ filing' = None
  /\ UNCHANGED <<now, told, open, desk>>

\* A submission names a qid with no open questionnaire.
Refuse(c, q) ==
  /\ open[q] = None
  /\ Tell(c, AQS(q, -2))
  /\ UNCHANGED <<now, filing, open, desk>>

\* A submission takes the open questionnaire out, for good.
Take(q) ==
  /\ desk = None /\ open[q] # None
  /\ desk' = [qid |-> q, quiz |-> open[q]]
  /\ open' = [open EXCEPT ![q] = None]
  /\ UNCHANGED <<now, told, filing>>

\* The mark of a sheet handed in by s: -2 for the questionnaire of another
\* student, -1 when it is late.
MarkOf(z, s, sheet) ==
  IF s # z.sid THEN -2
  ELSE IF now < z.deadline THEN Score[<<sheet, z.file>>] ELSE -1

Mark(c, s, sheet) ==
  /\ desk # None
  /\ Tell(c, AQS(desk.qid, MarkOf(desk.quiz, s, sheet)))
  /\ desk' = None
  /\ UNCHANGED <<now, filing, open>>

Next ==
  \/ Tick \/ Mislay
  \/ \E c \in Clients :
       \/ File(c)
       \/ \E s \in Sids, f \in Files : Deal(c, s, f)
       \/ \E q \in Qid : Refuse(c, q)
       \/ \E s \in Sids, sheet \in Sheets : Mark(c, s, sheet)
  \/ \E q \in Qid : Take(q)

Spec == Init /\ [][Next]_vars

-----------------------------------------------------------------------------
(* What follows from the promise; LedgerProofs proves it.                  *)

Dealt(q)  == {c \in Clients : told[c] # None /\ told[c].kind = "AQT" /\ told[c].qid = q}
Marked(q) == {c \in Clients : /\ told[c] # None /\ told[c].kind = "AQS"
                              /\ told[c].qid = q /\ told[c].score >= 0}

\* Whether the questionnaire q can still be handed in, and is being marked.
Open(q)   == IF open[q] # None THEN 1 ELSE 0
AtDesk(q) == IF desk # None /\ desk.qid = q THEN 1 ELSE 0

\* The scores given for a qid, the questionnaire being marked and the one that
\* is open are never more than the questionnaires dealt under it.
AtMostOnce ==
  \A q \in Qid : Cardinality(Marked(q)) + Open(q) + AtDesk(q) <= Cardinality(Dealt(q))

\* A score is what the sheet is worth against the file that was dealt under
\* that qid, and is given before the deadline that was dealt with it.
MarkedAsDealt ==
  [][\A q \in Qid : \A c \in Marked(q)' \ Marked(q) :
       \E d \in Dealt(q), sheet \in Sheets :
         /\ now < told[d].deadline
         /\ told'[c].score = Score[<<sheet, told[d].file>>]]_vars

=============================================================================
