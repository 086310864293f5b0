------------------------------ MODULE QuizDates ------------------------------
(***************************************************************************)
(* The texts of TesManager.cpp that stand for a questionnaire and for its  *)
(* deadline: qid() and toStringDeadline(), what processRQT does with them, *)
(* the map processRQS looks a qid up in, and the checks of everybody who   *)
(* reads them.  TesManager takes the qid to be the pair of the student and *)
(* the second; here it is the text the code makes of the pair.             *)
(*                                                                         *)
(* A text is the sequence of its characters.                               *)
(***************************************************************************)
EXTENDS Integers, Sequences, FiniteSets

CONSTANTS
  Sids,       \* the students
  Instants,   \* the values of time() that are looked at
  Local,      \* localtime() of each of them
  MaxTold,    \* bound of the number of questionnaires handed out
  None        \* no value

\* The numbers processRQT takes for a student, and the year tm_year counts from.
TenThousand == 10000
SID == TenThousand..99999
Epoch == 1900

\* The values of an int that time() returns.
Time == 0..2147483647

\* struct tm.
Tm == [year : 70..138, mon : 0..11, mday : 1..31, hour : 0..23, min : 0..59, sec : 0..60]

ASSUME DatesAssumption ==
  /\ Sids \subseteq SID
  /\ Instants \subseteq Time
  /\ Local \in [Instants -> Tm]
  /\ MaxTold \in Nat

VARIABLES
  clock,     \* what time() returns
  cur,       \* processRQT: the r whose qid was made, [sid, at, qid]
  quizzes,   \* _questionaries: the student of each qid in it
  told       \* the AQT answers: [sid, at, qid, shown]

vars == <<clock, cur, quizzes, told>>

Init ==
  /\ clock \in Instants
  /\ cur = None
  /\ quizzes = [q \in {} |-> 0]
  /\ told = {}

-----------------------------------------------------------------------------
(* std::to_string, of the numbers of one, two, four and five digits there  *)
(* are here.                                                               *)

D(n) == <<"0", "1", "2", "3", "4", "5", "6", "7", "8", "9">>[n + 1]

Two(n) == <<D(n \div 10), D(n % 10)>>

Four(n) == Two(n \div 100) \o Two(n % 100)

Decimal(n) ==
  IF n < 10 THEN <<D(n)>>
  ELSE IF n < 100 THEN Two(n)
  ELSE IF n < TenThousand THEN Four(n)
  ELSE <<D(n \div TenThousand)>> \o Four(n % TenThousand)

\* A field of the date: one more than its value, and a zero before it as long
\* as the value is below the limit the code compares it with.
FieldBare(n, limit)  == Decimal(n + 1)                                          \* mutant
FieldNinth(n, limit) == (IF n + 1 < limit THEN <<"0">> ELSE <<>>) \o Decimal(n + 1)  \* mutant
Field(n, limit)      == (IF n < limit THEN <<"0">> ELSE <<>>) \o Decimal(n + 1)

TimeText(t) ==
  Field(t.hour, 9) \o <<":">> \o Field(t.min, 9) \o <<":">> \o Field(t.sec, 9)

\* The month of September has no zero.
qid(sid, t) ==
  Decimal(sid) \o <<"_">> \o Decimal(t.year + Epoch) \o Field(t.mon, 8)
    \o Field(t.mday, 9) \o <<"_">> \o TimeText(t)

Month ==
  <<<<"J", "A", "N">>, <<"F", "E", "B">>, <<"M", "A", "R">>, <<"A", "P", "R">>,
    <<"M", "A", "Y">>, <<"J", "U", "N">>, <<"J", "U", "L">>, <<"A", "U", "G">>,
    <<"S", "E", "P">>, <<"O", "C", "T">>, <<"N", "O", "V">>, <<"D", "E", "C">>>>

\* The timestamp it is given is not used: std::time() stores the present time
\* over it.
toStringDeadline(t) ==
  Field(t.mday, 9) \o Month[t.mon + 1] \o Decimal(t.year + Epoch) \o <<"_">> \o TimeText(t)

-----------------------------------------------------------------------------
(* The readers.                                                            *)

\* processRQS, processAWI, the contact server and the user's program.
ReadsQid(text) == Len(text) \in 1..24

IsDigit(c) == \E n \in 0..9 : c = D(n)

\* UserManager::request.
ReadsDeadline(text) ==
  /\ Len(text) = 18
  /\ \A i \in {1, 2, 6, 7, 8, 9, 11, 12, 14, 15, 17, 18} : IsDigit(text[i])
  /\ \E m \in 1..12 : <<text[3], text[4], text[5]>> = Month[m]
  /\ text[10] = "_" /\ text[13] = ":" /\ text[16] = ":"

-----------------------------------------------------------------------------
Tick ==
  /\ \E i \in Instants : i > clock /\ clock' = i
  /\ UNCHANGED <<cur, quizzes, told>>

\* processRQT reads the clock for the qid ...
TakeQid(sid) ==
  /\ cur = None /\ Cardinality(told) < MaxTold
  /\ cur' = [sid |-> sid, at |-> Local[clock], qid |-> qid(sid, Local[clock])]
  /\ UNCHANGED <<clock, quizzes, told>>

\* ... and again for the deadline it shows; the quiz goes into the map, over
\* one with the same qid.
Register ==
  /\ cur # None
  /\ quizzes' = [q \in DOMAIN quizzes \cup {cur.qid} |->
                   IF q = cur.qid THEN cur.sid ELSE quizzes[q]]
  /\ told' = told \cup {[sid |-> cur.sid, at |-> cur.at, qid |-> cur.qid,
                         shown |-> toStringDeadline(Local[clock])]}
  /\ cur' = None
  /\ UNCHANGED clock

\* processRQS erases the quiz it finds, whoever it belongs to and whoever asks:
\* it looks at the student number afterwards.
Submit(text) ==
  /\ text \in DOMAIN quizzes
  /\ quizzes' = [q \in DOMAIN quizzes \ {text} |-> quizzes[q]]
  /\ UNCHANGED <<clock, cur, told>>

Next ==
  \/ Tick \/ Register
  \/ \E sid \in Sids : TakeQid(sid)
  \/ \E text \in DOMAIN quizzes : Submit(text)

Spec == Init /\ [][Next]_vars

-----------------------------------------------------------------------------
(* Properties.                                                             *)

\* The fields run together without separators and one of them has no fixed
\* length: still the qid a student was told never names a quiz of another
\* student, and two questionnaires share one only when the same student got both
\* in the same second of the local time.  A student who hands in the qid they
\* were told is never told that it is another's (-2); whoever hands in a qid that
\* another was told does erase that quiz: see Submit.
OneStudentPerQid ==
  \A x \in told :
    /\ x.qid \in DOMAIN quizzes => quizzes[x.qid] = x.sid
    /\ \A y \in told : y.qid = x.qid => y.sid = x.sid /\ y.at = x.at

\* Every text that is made passes the checks of every program that reads it,
\* at any time of any day.
ReadByAll == \A x \in told : ReadsQid(x.qid) /\ ReadsDeadline(x.shown)
=============================================================================
