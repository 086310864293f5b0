---------------------------- MODULE UserManager ----------------------------
(***************************************************************************)
(* The student's program, USER/UserManager.cpp: a menu that runs list(),   *)
(* request() and submit() one after the other, between a contact server    *)
(* that is asked over UDP, with retries, and topic servers that are asked  *)
(* over TCP.  The servers are what ECPManager and TesManager promise one   *)
(* student: an answer to every datagram that gets there, and a table of    *)
(* questionnaires from which a submission takes its own out, or anybody's  *)
(* who knows the qid.                                                      *)
(*                                                                         *)
(* Every call asks the contact server from a socket of its own, so that    *)
(* the answers to an earlier call come to another socket; but a socket     *)
(* takes what anybody sends to it.  A connection to a topic server is a    *)
(* number and `sock' the latest.  What was sent stays: an answer may come  *)
(* late, twice or never.                                                   *)
(***************************************************************************)
EXTENDS Integers, FiniteSets

CONSTANTS
  Topics,       \* topic numbers a student may ask for
  Servers,      \* topic servers, a host and a port each
  Directory,    \* the server of each topic, None when the ECP names none
  Closers,      \* the servers that may close a connection unanswered
  Tries,        \* TRIES (10)
  LastCounter,  \* the last number of a pdf file (999)
  Window,       \* seconds given to answer (300)
  MaxTime,      \* bound of the clock
  MaxSocks,     \* bound of the connections a session makes
  None          \* the empty string, no value

Time  == 0..MaxTime
Socks == 0..MaxSocks

Questions == Topics \cup {"TQR"}

\* The files a questionnaire may be stored in: T<topic>QF<number>.pdf.
PdfNames == Topics \X (1..LastCounter)

\* The lines on their way to the topic servers, and what comes back: the
\* questionnaire in an AQT, the mark in an AQS (1 is any score).
Line   == [sock : Socks, server : Servers, kind : {"RQT"}]
            \cup [sock : Socks, server : Servers, kind : {"RQS"}, qid : Time]
Answer == [sock : Socks, kind : {"AQT"}, qid : Time]
            \cup [sock : Socks, kind : {"AQS"}, mark : {-2, -1, 1}]
            \cup [sock : Socks, kind : {"ERR", "closed"}]

ASSUME UserAssumption ==
  /\ Directory \in [Topics -> Servers \cup {None}]
  /\ Closers \subseteq Servers
  /\ Tries \in Nat \ {0} /\ LastCounter \in Nat \ {0}
  /\ Window \in Nat /\ MaxTime \in Nat /\ MaxSocks \in Nat
  /\ "TQR" \notin Topics
  /\ None \notin Servers /\ None \notin Questions /\ None \notin Nat

VARIABLES
  now,        \* time() of the topic servers; a qid is the second it was issued
  pc,         \* where the program is
  sock,       \* the connection made last, 0 before the first
  question,   \* what the running call asks the contact server
  tries,      \* i of the retry loops
  host,       \* request()'s hostname and port
  tes,        \* _tesname and _tesport
  qid,        \* _qid
  counter,    \* counter
  file,       \* the connection that last opened each pdf file, 0 if none
  asked,      \* the datagrams sent on the socket of this call, or the last
  lines,      \* the lines the topic servers have not looked at
  answers,    \* their answers
  quizzes,    \* the deadline of each questionnaire a server waits for
  \* What the properties remember.
  astray,     \* the answer in host was not for a datagram of this socket
  issuer,     \* the server the questionnaire qid came from
  unsettled,  \* tes was replaced since, by a request that is not completed
  pdf,        \* the file the questionnaire qid was stored in, and what it held
  opened,     \* the files opened since
  graded,     \* the questionnaires that got a score, with their server
  mislaid,    \* those that others lost: see TesIssue and TesTaken
  unscored    \* those whose submission came back without one

session == <<tes, qid, issuer, unsettled, pdf>>
disk    == <<counter, file, opened>>
remote  == <<now, lines, answers, quizzes, graded, mislaid>>
vars    == <<pc, sock, question, tries, host, astray, asked, unscored,
             session, disk, remote>>

Init ==
  /\ now = 0 /\ pc = "menu" /\ sock = 0
  /\ question = None /\ tries = 0 /\ host = None /\ astray = FALSE
  /\ tes = None /\ qid = None
  /\ counter = 0 /\ file = [f \in PdfNames |-> 0]
  /\ asked = {} /\ lines = {} /\ answers = {}
  /\ quizzes = [s \in Servers |-> [q \in Time |-> None]]
  /\ issuer = None /\ unsettled = FALSE /\ pdf = None /\ opened = 0
  /\ graded = {} /\ mislaid = {} /\ unscored = {}

-----------------------------------------------------------------------------
(* The topic servers.                                                      *)

Tick ==
  /\ now < MaxTime
  /\ now' = now + 1
  /\ UNCHANGED <<pc, sock, question, tries, host, astray, asked, unscored,
                 session, disk, lines, answers, quizzes, graded, mislaid>>

\* A server is done with the line l and writes a to its connection.
Reply(l, a) ==
  /\ lines' = lines \ {l}
  /\ answers' = answers \cup {a}
  /\ UNCHANGED <<now, pc, sock, question, tries, host, astray, asked, unscored,
                 session, disk>>

\* The insertion is lost when processRQS is inside the map at the same time.
TesIssue(l) ==
  /\ l.kind = "RQT"
  /\ \/ /\ quizzes' = [quizzes EXCEPT ![l.server][now] = now + Window]
        /\ UNCHANGED mislaid
     \/ /\ mislaid' = mislaid \cup {<<l.server, now>>}
        /\ UNCHANGED quizzes
  /\ Reply(l, [sock |-> l.sock, kind |-> "AQT", qid |-> now])
  /\ UNCHANGED graded

\* A submission of anybody else's that names the qid takes the questionnaire
\* out: only then is the student number looked at.
TesTaken(s, q) ==
  /\ quizzes[s][q] # None
  /\ quizzes' = [quizzes EXCEPT ![s][q] = None]
  /\ mislaid' = mislaid \cup {<<s, q>>}
  /\ UNCHANGED <<now, pc, sock, question, tries, host, astray, asked, unscored,
                 session, disk, lines, answers, graded>>

\* -2 when the questionnaire is not there; it is taken out even when late.
TesMark(l) ==
  LET deadline == quizzes[l.server][l.qid] IN
  IF deadline = None THEN -2 ELSE IF now < deadline THEN 1 ELSE -1

TesGrade(l) ==
  /\ l.kind = "RQS"
  /\ quizzes' = [quizzes EXCEPT ![l.server][l.qid] = None]
  /\ graded' = graded \cup {x \in {<<l.server, l.qid>>} : TesMark(l) = 1}
  /\ Reply(l, [sock |-> l.sock, kind |-> "AQS", mark |-> TesMark(l)])
  /\ UNCHANGED mislaid

\* The line did not arrive in time, or the student typed no proper answers.
TesRefuse(l) ==
  /\ Reply(l, [sock |-> l.sock, kind |-> "ERR"])
  /\ UNCHANGED <<quizzes, graded, mislaid>>

TesClose(l) ==
  /\ l.server \in Closers
  /\ Reply(l, [sock |-> l.sock, kind |-> "closed"])
  /\ UNCHANGED <<quizzes, graded, mislaid>>

-----------------------------------------------------------------------------
(* The menu and its commands.                                              *)

\* What was sent on the socket of a call that begins.
SameSocket == asked      \* mutant
NewSocket  == {}

\* A call that asks the contact server: a socket of its own, no try made yet.
Open(q) ==
  /\ pc = "menu" /\ sock < MaxSocks
  /\ asked' = NewSocket
  /\ question' = q /\ tries' = 0
  /\ pc' = "send"
  /\ UNCHANGED <<sock, host, astray, unscored, session, disk, remote>>

List == Open("TQR")

\* With a questionnaire at hand Request::execute asks whether to go on, and
\* goes on whatever the answer: the question changes nothing.
Request(t) == Open(t)

\* connect() fails or the connection is reset before the write: nothing in
\* Submit::execute catches ErrorConnectingTCP or SocketClosed.
SubmitRefused ==
  /\ pc = "menu" /\ sock < MaxSocks
  /\ qid # None
  /\ pc' = "terminated"
  /\ UNCHANGED <<sock, question, tries, host, astray, asked, unscored,
                 session, disk, remote>>

Submit ==
  /\ pc = "menu" /\ sock < MaxSocks
  /\ qid # None
  /\ sock' = sock + 1
  /\ lines' = lines \cup
       {[sock |-> sock', server |-> tes, kind |-> "RQS", qid |-> qid]}
  /\ pc' = "aqs"
  /\ UNCHANGED <<question, tries, host, astray, asked, unscored, session, disk,
                 now, answers, quizzes, graded, mislaid>>

\* The student chooses "0 - Exit".
Exit ==
  /\ pc = "menu"
  /\ pc' = "terminated"
  /\ UNCHANGED <<sock, question, tries, host, astray, asked, unscored, session, disk,
                 remote>>

\* The command is over, and its locals with it: its result or its exception was
\* printed.
Return ==
  /\ pc' = "menu"
  /\ question' = None /\ tries' = 0 /\ host' = None /\ astray' = FALSE
  /\ UNCHANGED <<sock, asked>>

-----------------------------------------------------------------------------
(* list() and request(): asking the contact server.                        *)

SameTry == tries         \* mutant
NextTry == tries + 1

Send ==
  /\ pc = "send"
  /\ asked' = asked \cup {question}
  /\ tries' = NextTry
  /\ pc' = "receive"
  /\ UNCHANGED <<sock, question, host, astray, unscored, session, disk, remote>>

\* i < TRIES - 1.
OneMoreTry == tries <= Tries   \* mutant
MoreTries  == tries < Tries

\* Two seconds without an answer: errno 11.
TryAgain ==
  /\ pc = "receive" /\ MoreTries
  /\ pc' = "send"
  /\ UNCHANGED <<sock, question, tries, host, astray, asked, unscored,
                 session, disk, remote>>

\* ECPOffline.
GiveUp ==
  /\ pc = "receive" /\ ~MoreTries
  /\ Return
  /\ UNCHANGED <<unscored, session, disk, remote>>

\* What receive() returns names a server, and so is taken for the answer.
Received(s) ==
  /\ pc = "receive" /\ question \in Topics
  /\ host' = s /\ tries' = 0
  /\ pc' = "connect"
  /\ UNCHANGED <<sock, question, asked, unscored, session, disk, remote>>

\* The contact server's answer to any datagram sent on this socket.
ReceiveServer ==
  \E t \in Topics :
    /\ t \in asked /\ Directory[t] # None
    /\ Received(Directory[t])
    /\ astray' = FALSE

\* recvfrom() takes a datagram from any sender, and the contact server may send
\* this socket the answer to another: whatever server it names is believed.
ReceiveAstray ==
  \E s \in Servers : Received(s) /\ astray' = TRUE

\* The list of topics is shown, or whatever else came is an exception that
\* List::execute catches.
ReceiveList ==
  /\ pc = "receive" /\ question = "TQR"
  /\ Return
  /\ UNCHANGED <<unscored, session, disk, remote>>

\* EOF, ERR, or a line that is no AWTES with a host and a port.
ReceiveOther ==
  /\ pc = "receive" /\ question \in Topics
  /\ Return
  /\ UNCHANGED <<unscored, session, disk, remote>>

\* The datagram fills the buffer: Request::execute, unlike List::execute, does
\* not catch MessageTooLongUDP.
ReceiveTooLong ==
  /\ pc = "receive" /\ question \in Topics
  /\ pc' = "terminated"
  /\ UNCHANGED <<sock, question, tries, host, astray, asked, unscored,
                 session, disk, remote>>

-----------------------------------------------------------------------------
(* request(): getting the questionnaire from the topic server.             *)

\* _tesname and _tesport are assigned after connect().
TesEarly(connected) == host                             \* mutant
TesAfter(connected) == IF connected THEN host ELSE tes

ConnectFails ==
  /\ pc = "connect"
  /\ tes' = TesAfter(FALSE)
  /\ Return
  /\ UNCHANGED <<unscored, qid, issuer, unsettled, pdf, disk, remote>>

Connect ==
  /\ pc = "connect"
  /\ tes' = TesAfter(TRUE)
  /\ unsettled' = TRUE
  /\ sock' = sock + 1
  /\ lines' = lines \cup {[sock |-> sock', server |-> host, kind |-> "RQT"]}
  /\ pc' = "aqt"
  /\ UNCHANGED <<question, tries, host, astray, asked, unscored, qid, issuer, pdf,
                 disk, now, answers, quizzes, graded, mislaid>>

\* The connection is reset before the write: nobody catches SocketClosed.
ConnectReset ==
  /\ pc = "connect"
  /\ tes' = TesAfter(TRUE)
  /\ unsettled' = TRUE
  /\ pc' = "terminated"
  /\ UNCHANGED <<sock, question, tries, host, astray, asked, unscored, qid, issuer,
                 pdf, disk, remote>>

NextEarly == IF counter = LastCounter - 1 THEN 1 ELSE counter + 1  \* mutant
NextPdf   == IF counter = LastCounter     THEN 1 ELSE counter + 1

\* The answer on the socket of this connection.
Came(a, kind) == a \in answers /\ a.sock = sock /\ a.kind = kind

\* The file is opened, which empties it, and filled as far as the data comes and
\* can be written; nothing looks at whether even the opening worked.
Store ==
  LET name == <<question, NextPdf>> IN
  /\ counter' = NextPdf
  /\ \E x \in {file[name], sock} : file' = [file EXCEPT ![name] = x]

\* All of the file and its newline came: only now is _qid assigned.
ReadAQT ==
  /\ pc = "aqt"
  /\ Store
  /\ opened' = 0
  /\ \E a \in answers : Came(a, "AQT") /\ qid' = a.qid
  /\ issuer' = tes /\ unsettled' = FALSE
  /\ pdf' = [name |-> <<question, counter'>>, from |-> file'[<<question, counter'>>]]
  /\ Return
  /\ UNCHANGED <<unscored, tes, remote>>

\* The data stops short, or no newline ends it.
ReadAQTShort ==
  /\ pc = "aqt"
  /\ \E a \in answers : Came(a, "AQT")
  /\ Store
  /\ opened' = opened + 1
  /\ Return
  /\ UNCHANGED <<unscored, session, remote>>

\* An ERR, or nothing for ten seconds.
ReadAQTFails ==
  /\ pc = "aqt"
  /\ Return
  /\ UNCHANGED <<unscored, session, disk, remote>>

\* readWord() neither returns nor throws at the end of the stream.
ReadSpin ==
  /\ pc \in {"aqt", "aqs"}
  /\ \E a \in answers : Came(a, "closed")
  /\ pc' = "spin"
  /\ UNCHANGED <<sock, question, tries, host, astray, asked, unscored,
                 session, disk, remote>>

-----------------------------------------------------------------------------
(* submit(): reading the mark.                                             *)

\* What is left in _qid.
QidKept(m)    == qid                                    \* mutant
QidCleared(m) == None                                   \* mutant
QidAfter(m)   == IF m \in {-1, -2} THEN qid ELSE None

ReadAQS ==
  /\ pc = "aqs"
  /\ \E a \in answers :
       /\ Came(a, "AQS")
       /\ qid' = QidAfter(a.mark)
       /\ unscored' = unscored \cup {x \in {<<tes, qid>>} : a.mark # 1}
  /\ Return
  /\ UNCHANGED <<tes, issuer, unsettled, pdf, disk, remote>>

\* An ERR, or nothing for ten seconds.
ReadAQSFails ==
  /\ pc = "aqs"
  /\ unscored' = unscored \cup {<<tes, qid>>}
  /\ Return
  /\ UNCHANGED <<session, disk, remote>>

-----------------------------------------------------------------------------
Tes ==
  \/ \E l \in lines : TesIssue(l) \/ TesGrade(l) \/ TesRefuse(l) \/ TesClose(l)
  \/ \E s \in Servers, q \in Time : TesTaken(s, q)

Command == List \/ Submit \/ SubmitRefused \/ Exit \/ \E t \in Topics : Request(t)

Ask ==
  \/ Send \/ TryAgain \/ GiveUp
  \/ ReceiveServer \/ ReceiveAstray \/ ReceiveList \/ ReceiveOther \/ ReceiveTooLong

Fetch ==
  \/ ConnectFails \/ Connect \/ ConnectReset
  \/ ReadAQT \/ ReadAQTShort \/ ReadAQTFails

Mark == ReadAQS \/ ReadAQSFails

Next == Tick \/ Tes \/ Command \/ Ask \/ Fetch \/ Mark \/ ReadSpin

Spec == Init /\ [][Next]_vars

\* The program goes on, once a timeout has fired if nothing else came.
\* Nothing is asked of the student, the servers or the network.
FairSpec == Spec /\ WF_vars(Ask) /\ WF_vars(Fetch) /\ WF_vars(Mark)

-----------------------------------------------------------------------------
(* Properties.                                                             *)

Labels == {"menu", "send", "receive", "connect", "aqt", "aqs", "spin", "terminated"}

\* Every variable holds what the fields and the locals of the code can hold.
TypeOK ==
  /\ now \in Time /\ pc \in Labels /\ sock \in Socks
  /\ question \in Questions \cup {None}
  /\ tries \in 0..Tries
  /\ host \in Servers \cup {None} /\ tes \in Servers \cup {None}
  /\ astray \in BOOLEAN /\ unsettled \in BOOLEAN
  /\ qid \in Time \cup {None}
  /\ counter \in 0..LastCounter
  /\ file \in [PdfNames -> Socks]
  /\ asked \subseteq Questions
  /\ lines \subseteq Line
  /\ answers \subseteq Answer
  /\ quizzes \in [Servers -> [Time -> Nat \cup {None}]]
  /\ issuer \in Servers \cup {None}
  /\ pdf \in [name : PdfNames, from : Socks] \cup {None}
  /\ opened \in Nat
  /\ graded \subseteq Servers \X Time /\ unscored \subseteq Servers \X Time
  /\ mislaid \subseteq Servers \X Time

\* request() goes to the server of the topic it was called with, unless it was
\* sent what it never asked for on this socket: no late or repeated answer to
\* an earlier call of the program's own is taken for the answer to this one.
AnswerToThisCall == pc = "connect" /\ ~astray => host = Directory[question]

\* What is remembered belongs together: _qid was issued by the server in
\* _tesname and _tesport unless a later request reached another server and has
\* not been completed.
SubmitsToIssuer == qid # None /\ ~unsettled => tes = issuer

\* A student is told that a questionnaire is not theirs (-2) only after a
\* request that was not completed, an earlier submission of the same one that
\* brought no score, or after others lost it in the topic server: nothing the
\* program remembers makes it the first thing a good submission hears.
InvalidOnlyAfterLoss ==
  \A a \in answers :
    pc = "aqs" /\ a.sock = sock /\ a.kind = "AQS" /\ a.mark = -2 =>
      unsettled \/ <<tes, qid>> \in unscored \cup mislaid

\* In a session that goes on a questionnaire is forgotten, with no other in its
\* place, only when it was graded: after an error or a timeout it can be handed
\* in again.  A program that ends forgets it, and a refused connection ends it.
ForgottenOnceGraded ==
  [][qid # None /\ qid' = None => unsettled \/ <<issuer, qid>> \in graded]_vars

\* What was stored of the questionnaire at hand is not overwritten, not even
\* when the numbers of the files start again at 1, by fewer than LastCounter
\* requests.
PdfKept ==
  qid # None /\ opened < LastCounter => file[pdf.name] = pdf.from

\* Every command gets back to the menu, whatever the network loses, unless it
\* ends the program or a server closes its end before a line is complete.
EveryCommandEnds == pc # "menu" ~> pc \in {"menu", "spin", "terminated"}
=============================================================================
