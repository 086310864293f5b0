----------------------------- MODULE TesManager -----------------------------
(***************************************************************************)
(* The topic evaluation server, TES/TesManager.cpp: one process, eight     *)
(* kinds of threads, five FIFO queues and one unordered map between them,  *)
(* each with a counting semaphore and a mutex.                             *)
(*                                                                         *)
(*   acceptTCP --requests--> processTCP --rqtRequests--> processRQT --+    *)
(*                               |  \----rqsRequests--> processRQS -+ |    *)
(*                               |                         |        | |    *)
(*                               +--------answers----------|--------+-+    *)
(*                                           |         answersUDP          *)
(*                              answerTCP (ANSWER_NO)      |               *)
(*   acceptUDP --awiRequests--> processAWI             answerUDP --> ECP   *)
(*                                                                         *)
(* A step is what one thread does between two points at which another      *)
(* thread can see it: a section under a correctly held mutex is one step,  *)
(* and so is a sem_post made before that mutex is released; a sem_post     *)
(* made after the release is a step of its own.  The one mutex the code    *)
(* does not use correctly, _questionariesMutex, keeps its separate lock    *)
(* and unlock steps.                                                       *)
(***************************************************************************)
EXTENDS Integers, Sequences, FiniteSets

CONSTANTS
  Clients,     \* TCP connections
  Answerers,   \* the threads that run answerTCP (ANSWER_NO of them)
  Sids,        \* student numbers
  Sheets,      \* well-formed lists of five answers
  Files,       \* questionnaires 1..PDF_NUMBER
  PdfPresent,  \* those whose pdf file can be opened
  Score,       \* what score() returns for a sheet and a questionnaire
  Window,      \* seconds given to answer (300)
  Kinds,       \* the kinds of lines the clients may send
  Quitters,    \* the clients that may close their end early
  Noise,       \* the datagrams received besides acknowledgements
  MayFail,     \* whether bind() and accept() may fail
  MaxTime,     \* bound of the clock
  MaxAwi,      \* bound of the queue of received datagrams
  EmptyKey,    \* the empty string, as a key of _answersUDP
  None         \* no value

Time == 0..MaxTime

\* What qid(sid) builds: the student and the second of the call.
Qid == Sids \X Time

Keys == Qid \cup {EmptyKey}

LineKinds == {"RQT", "RQS", "badRQT", "badRQS", "other"}

Threads == {"acceptTCP", "acceptUDP", "processTCP", "processRQT",
            "processRQS", "processAWI", "answerUDP"} \cup Answerers

\* The threads that hold a TCP request in a local variable.
TcpThreads == {"processTCP", "processRQT", "processRQS"} \cup Answerers

ConnQueues == {"requests", "rqtRequests", "rqsRequests", "answers"}
Queues     == ConnQueues \cup {"awiRequests"}
Sems       == Queues \cup {"answersUDP"}

\* The line a client writes; the parsers of processRQT and processRQS split
\* each command into well-formed and malformed ones.
Line ==
  [kind : {"RQT"}, sid : Sids]
    \cup [kind : {"RQS"}, sid : Sids, qid : Qid, sheet : Sheets]
    \cup [kind : {"badRQT", "badRQS", "other"}]

ERR == [kind |-> "ERR"]
AQT(q, d, f) == [kind |-> "AQT", qid |-> q, deadline |-> d, file |-> f]
AQS(q, s)    == [kind |-> "AQS", qid |-> q, score |-> s]

Answer == {ERR}
            \cup [kind : {"AQT"}, qid : Qid, deadline : Nat, file : Files]
            \cup [kind : {"AQS"}, qid : Qid, score : -2..100]

Quiz == [sid : Sids, deadline : Nat, file : Files]
Iqr  == [sid : Sids, qid : Qid, score : 0..100]

ASSUME TesAssumption ==
  /\ IsFiniteSet(Answerers) /\ Answerers # {}
  /\ Answerers \cap {"acceptTCP", "acceptUDP", "processTCP", "processRQT",
                     "processRQS", "processAWI", "answerUDP"} = {}
  /\ PdfPresent \subseteq Files
  /\ Score \in [Sheets \X Files -> 0..100]
  /\ Window \in Nat /\ MaxTime \in Nat /\ MaxAwi \in Nat
  /\ Kinds \subseteq LineKinds
  /\ Noise \subseteq {"ERR", "unterminated"}
  /\ MayFail \in BOOLEAN
  /\ Quitters \subseteq Clients
  /\ EmptyKey \notin Qid
  /\ None \notin Clients \cup Qid \cup {"processRQT", "processRQS"}
  /\ None \notin Line \cup Answer \cup Quiz \cup Iqr

VARIABLES
  now,                \* time()
  client,             \* each connection
  line,               \* r.message(): the line that was read from it
  answer,             \* r.answer() of the request of each connection
  queue,              \* the five std::queue
  sem,                \* the six semaphores that are waited on
  exit,               \* _exit
  questionaries,      \* _questionaries: the quiz of a qid, None if absent
  questionariesMutex, \* the thread that holds _questionariesMutex, or None
  answersUDP,         \* _answersUDP: the IQR stored under a key, or None
  sent,               \* the IQR datagrams handed to the socket
  pc,                 \* where each thread is in its loop
  cur,                \* the request r each TCP thread works on
  quiz,               \* processRQS's local quiz
  iqr                 \* answerUDP's local r

vars == <<now, client, line, answer, queue, sem, exit, questionaries,
          questionariesMutex, answersUDP, sent, pc, cur, quiz, iqr>>

peers   == <<now, client, line>>
quizzes == <<questionaries, questionariesMutex, quiz>>
udp     == <<answersUDP, sent, iqr>>

Init ==
  /\ now = 0
  /\ client = [c \in Clients |-> "idle"]
  /\ line   = [c \in Clients |-> None]
  /\ answer = [c \in Clients |-> None]
  /\ queue  = [q \in Queues |-> <<>>]
  /\ sem    = [q \in Sems |-> 0]
  /\ exit   = FALSE
  /\ questionaries = [q \in Qid |-> None]
  /\ questionariesMutex = None
  /\ answersUDP = [k \in Keys |-> None]
  /\ sent = {}
  /\ pc = [t \in Threads |-> CASE t = "acceptTCP" -> "bind"
                               [] t = "acceptUDP" -> "receive"
                               [] OTHER -> "wait"]
  /\ cur  = [t \in TcpThreads |-> None]
  /\ quiz = None
  /\ iqr  = None

-----------------------------------------------------------------------------
(* What the threads share: the queues and the head of every loop.          *)

Goto(t, label) == pc' = [pc EXCEPT ![t] = label]

\* The test of while(!_exit) at the end of an iteration.
Again(t, label) == Goto(t, IF exit THEN "done" ELSE label)

Push(q, r) == queue' = [queue EXCEPT ![q] = Append(@, r)]

PostBinary(q) == sem' = [sem EXCEPT ![q] = 1]      \* mutant
Post(q)       == sem' = [sem EXCEPT ![q] = @ + 1]

\* A push whose semaphore is posted before the mutex is released.
Hand(q, r) == Push(q, r) /\ Post(q)

PopFront(q) == queue[q] # <<>> /\ UNCHANGED queue  \* mutant
Pop(q)      == queue[q] # <<>> /\ queue' = [queue EXCEPT ![q] = Tail(@)]

\* sem_wait, then the test of _exit that ends the thread.
TryWait(q) == sem' = [sem EXCEPT ![q] = @ - 1]     \* mutant
SemWait(q) == sem[q] > 0 /\ sem' = [sem EXCEPT ![q] = @ - 1]

WokenAlways == "pop"                               \* mutant
Woken       == IF exit THEN "done" ELSE "pop"

Wait(t, q) ==
  /\ pc[t] = "wait"
  /\ SemWait(q)
  /\ Goto(t, Woken)
  /\ UNCHANGED <<peers, answer, queue, exit, quizzes, udp, cur>>

Load(t, c) == cur' = [cur EXCEPT ![t] = c]
Drop(t)    == cur' = [cur EXCEPT ![t] = None]
Reply(c, a) == answer' = [answer EXCEPT ![c] = a]

\* exit(1), or an exception that leaves a thread: the process is gone.
Terminate == pc' = [t \in Threads |-> "terminated"]

-----------------------------------------------------------------------------
(* The clock.                                                              *)

Tick ==
  /\ now < MaxTime
  /\ now' = now + 1
  /\ UNCHANGED <<client, line, answer, queue, sem, exit, quizzes, udp, pc, cur>>

-----------------------------------------------------------------------------
(* acceptRequestsTCP.                                                      *)

AcceptTCPBind ==
  /\ pc["acceptTCP"] = "bind"
  /\ Goto("acceptTCP", "accept")
  /\ UNCHANGED <<peers, answer, queue, sem, exit, quizzes, udp, cur>>

\* The port is taken: catch(SocketAlreadyInUse) calls exit(1).
AcceptTCPInUse ==
  /\ MayFail /\ pc["acceptTCP"] = "bind"
  /\ Terminate
  /\ UNCHANGED <<peers, answer, queue, sem, exit, quizzes, udp, cur>>

AcceptTCPClient(c) ==
  /\ pc["acceptTCP"] = "accept"
  /\ client[c] = "idle"
  /\ client' = [client EXCEPT ![c] = "open"]
  /\ Push("requests", c)
  /\ Goto("acceptTCP", "post")
  /\ UNCHANGED <<now, line, answer, sem, exit, quizzes, udp, cur>>

AcceptTCPPost ==
  /\ pc["acceptTCP"] = "post"
  /\ Post("requests")
  /\ Again("acceptTCP", "accept")
  /\ UNCHANGED <<peers, answer, queue, exit, quizzes, udp, cur>>

\* Any other failure of the socket: catch(std::string) raises _exit ...
AcceptTCPFail ==
  /\ MayFail /\ pc["acceptTCP"] \in {"bind", "accept"}
  /\ exit' = TRUE
  /\ Goto("acceptTCP", "wake")
  /\ UNCHANGED <<peers, answer, queue, sem, quizzes, udp, cur>>

\* ... then posts the semaphores the other threads may be waiting on.
WakeUpsShort(q) == CASE q = "answers"    -> Cardinality(Answerers) - 1  \* mutant
                     [] q = "answersUDP" -> 0
                     [] OTHER            -> 1
WakeUps(q)      == CASE q = "answers"    -> Cardinality(Answerers)
                     [] q = "answersUDP" -> 0
                     [] OTHER            -> 1

AcceptTCPWake ==
  /\ pc["acceptTCP"] = "wake"
  /\ sem' = [q \in Sems |-> sem[q] + WakeUps(q)]
  /\ Goto("acceptTCP", "done")
  /\ UNCHANGED <<peers, answer, queue, exit, quizzes, udp, cur>>

-----------------------------------------------------------------------------
(* acceptRequestsUDP: the thread leaves its loop on any exception.         *)

AcceptUDPReceive(d) ==
  /\ pc["acceptUDP"] = "receive"
  /\ Len(queue["awiRequests"]) < MaxAwi
  /\ Push("awiRequests", d)
  /\ Goto("acceptUDP", "post")
  /\ UNCHANGED <<peers, answer, sem, exit, quizzes, udp, cur>>

AcceptUDPPost ==
  /\ pc["acceptUDP"] = "post"
  /\ Post("awiRequests")
  /\ Again("acceptUDP", "receive")
  /\ UNCHANGED <<peers, answer, queue, exit, quizzes, udp, cur>>

\* A datagram without '\n', or too long: the handler is outside the loop.
AcceptUDPLeave ==
  /\ pc["acceptUDP"] = "receive"
  /\ "unterminated" \in Noise /\ sent # {}
  /\ Goto("acceptUDP", "done")
  /\ UNCHANGED <<peers, answer, queue, sem, exit, quizzes, udp, cur>>

\* The socket has a port once something was sent.  An AWI names the qid of
\* an IQR that was sent; None stands for any other line.
Datagram ==
  {i.qid : i \in sent}
    \cup {d \in {None} : "ERR" \in Noise /\ sent # {}}

-----------------------------------------------------------------------------
(* processTCP: reads the line of one connection at a time and files it.    *)

ProcessTCPWait == Wait("processTCP", "requests")

ProcessTCPPop ==
  /\ pc["processTCP"] = "pop"
  /\ Pop("requests")
  /\ Load("processTCP", Head(queue["requests"]))
  /\ Goto("processTCP", "read")
  /\ UNCHANGED <<peers, answer, sem, exit, quizzes, udp>>

\* SocketTCP::read returns the line up to its '\n'.  What it returns is an
\* input: nobody sees the line before, so when it was sent does not matter.
Read(kinds, q) ==
  LET c == cur["processTCP"] IN
  /\ pc["processTCP"] = "read"
  /\ \E l \in Line : l.kind \in Kinds \cap kinds /\ line' = [line EXCEPT ![c] = l]
  /\ Hand(q, c)
  /\ Drop("processTCP")
  /\ Again("processTCP", "wait")
  /\ UNCHANGED <<now, client, exit, quizzes, udp>>

ProcessTCPToRQT == Read({"RQT", "badRQT"}, "rqtRequests") /\ UNCHANGED answer

ProcessTCPToRQS == Read({"RQS", "badRQS"}, "rqsRequests") /\ UNCHANGED answer

ProcessTCPToERR ==
  /\ Read({"other"}, "answers")
  /\ Reply(cur["processTCP"], ERR)

\* Nothing came for ten seconds: ConnectionTCPTimedOut, and no line.
ProcessTCPTimedOut ==
  LET c == cur["processTCP"] IN
  /\ pc["processTCP"] = "read"
  /\ Reply(c, ERR)
  /\ Hand("answers", c)
  /\ Drop("processTCP")
  /\ Again("processTCP", "wait")
  /\ UNCHANGED <<peers, exit, quizzes, udp>>

\* The client closes its end first: ::read returns 0, which neither ends the
\* loop of SocketTCP::read nor throws, and the thread stays in it for good.
ProcessTCPSpin ==
  /\ pc["processTCP"] = "read"
  /\ cur["processTCP"] \in Quitters
  /\ Goto("processTCP", "spin")
  /\ UNCHANGED <<peers, answer, queue, sem, exit, quizzes, udp, cur>>

-----------------------------------------------------------------------------
(* processRQT: registers a new questionnaire and answers AQT.              *)

ProcessRQTWait == Wait("processRQT", "rqtRequests")

\* A malformed line is answered ERR; a good one gets a qid, a deadline and a
\* questionnaire picked by rand().
ProcessRQTPop ==
  LET c == Head(queue["rqtRequests"]) IN
  /\ pc["processRQT"] = "pop"
  /\ Pop("rqtRequests")
  /\ Load("processRQT", c)
  /\ \/ /\ line[c].kind = "badRQT"
        /\ Reply(c, ERR)
        /\ Goto("processRQT", "answer")
     \/ /\ line[c].kind = "RQT"
        /\ \E f \in Files :
             Reply(c, AQT(<<line[c].sid, now>>, now + Window, f))
        /\ Goto("processRQT", "lock")
  /\ UNCHANGED <<peers, sem, exit, quizzes, udp>>

ProcessRQTLock ==
  /\ pc["processRQT"] = "lock"
  /\ questionariesMutex = None
  /\ questionariesMutex' = "processRQT"
  /\ Goto("processRQT", "insert")
  /\ UNCHANGED <<peers, answer, queue, sem, exit, questionaries, quiz, udp, cur>>

\* _questionaries[r.qid()] = Quiz(...), then unlock().  When processRQS is
\* inside the map at the same time the write may be lost.
ProcessRQTInsert ==
  LET c == cur["processRQT"]
      q == answer[c].qid
  IN
  /\ pc["processRQT"] = "insert"
  /\ \/ questionaries' = [questionaries EXCEPT ![q] =
          [sid |-> q[1], deadline |-> answer[c].deadline, file |-> answer[c].file]]
     \/ pc["processRQS"] = "find" /\ UNCHANGED questionaries
  /\ questionariesMutex' = None
  /\ Goto("processRQT", "answer")
  /\ UNCHANGED <<peers, answer, queue, sem, exit, quiz, udp, cur>>

\* pdfSize() opens the file before the answer is handed over ...
ProcessRQTAnswer ==
  LET c == cur["processRQT"] IN
  /\ pc["processRQT"] = "answer"
  /\ answer[c].kind = "AQT" => answer[c].file \in PdfPresent
  /\ Hand("answers", c)
  /\ Drop("processRQT")
  /\ Again("processRQT", "wait")
  /\ UNCHANGED <<peers, answer, exit, quizzes, udp>>

\* ... and throws ErrorOpeningFile, which nothing catches.
ProcessRQTNoPdf ==
  LET c == cur["processRQT"] IN
  /\ pc["processRQT"] = "answer"
  /\ answer[c].kind = "AQT" /\ answer[c].file \notin PdfPresent
  /\ Terminate
  /\ UNCHANGED <<peers, answer, queue, sem, exit, quizzes, udp, cur>>

-----------------------------------------------------------------------------
(* processRQS: grades a submission and queues its IQR.                     *)

ProcessRQSWait == Wait("processRQS", "rqsRequests")

\* catch(UnknownFormatProtocol) unlocks _questionariesMutex, which a parse
\* error leaves unlocked by this thread: glibc frees it whoever holds it.
ProcessRQSPop ==
  LET c == Head(queue["rqsRequests"]) IN
  /\ pc["processRQS"] = "pop"
  /\ Pop("rqsRequests")
  /\ Load("processRQS", c)
  /\ \/ /\ line[c].kind = "badRQS"
        /\ Reply(c, ERR)
        /\ questionariesMutex' = None
        /\ Goto("processRQS", "answer")
     \/ /\ line[c].kind = "RQS"
        /\ Goto("processRQS", "lock")
        /\ UNCHANGED <<answer, questionariesMutex>>
  /\ UNCHANGED <<peers, sem, exit, questionaries, quiz, udp>>

ProcessRQSLock ==
  /\ pc["processRQS"] = "lock"
  /\ questionariesMutex = None
  /\ questionariesMutex' = "processRQS"
  /\ Goto("processRQS", "find")
  /\ UNCHANGED <<peers, answer, queue, sem, exit, questionaries, quiz, udp, cur>>

Kept(q)    == questionaries                        \* mutant
Cleared(q) == [x \in Qid |-> None]                 \* mutant
Erased(q)  == [questionaries EXCEPT ![q] = None]

\* Who holds the mutex after catch(InvalidQIDvsSID).
StillHeld == questionariesMutex                    \* mutant
Released  == None

\* find(qid): an unknown qid is answered -2, a known one is taken out.
ProcessRQSFind ==
  LET c == cur["processRQS"]
      q == line[c].qid
  IN
  /\ pc["processRQS"] = "find"
  /\ \/ /\ questionaries[q] = None
        /\ Reply(c, AQS(q, -2))
        /\ questionariesMutex' = Released
        /\ Goto("processRQS", "answer")
        /\ UNCHANGED <<questionaries, quiz>>
     \/ /\ questionaries[q] # None
        /\ quiz' = questionaries[q]
        /\ questionaries' = Erased(q)
        /\ questionariesMutex' = None
        /\ Goto("processRQS", "grade")
        /\ UNCHANGED answer
  /\ UNCHANGED <<peers, queue, sem, exit, udp, cur>>

\* Both threads inside the std::map: it may be corrupted.
MapRace ==
  /\ pc["processRQT"] = "insert" /\ pc["processRQS"] = "find"
  /\ Terminate
  /\ UNCHANGED <<peers, answer, queue, sem, exit, quizzes, udp, cur>>

\* -2: another student's qid; -1: too late.
MarkLate(l, z) == IF l.sid # z.sid THEN -2         \* mutant
                  ELSE IF now <= z.deadline THEN Score[<<l.sheet, z.file>>] ELSE -1
Mark(l, z)     == IF l.sid # z.sid THEN -2
                  ELSE IF now < z.deadline THEN Score[<<l.sheet, z.file>>] ELSE -1

\* The marks the ECP server is told of.
AllButLate(m) == m # -1                            \* mutant
AboveZero(m)  == m > 0                             \* mutant
Reported(m)   == m >= 0

\* A score goes to _answersUDP under its qid; insert() keeps an old entry.
PostedFirst(i) == answersUDP                       \* mutant
Inserted(i)    == [answersUDP EXCEPT ![i.qid] = IF @ = None THEN i ELSE @]

ProcessRQSGrade ==
  LET c == cur["processRQS"]
      l == line[c]
      m == Mark(l, quiz)
      i == [sid |-> l.sid, qid |-> l.qid, score |-> m]
  IN
  /\ pc["processRQS"] = "grade"
  /\ Reply(c, AQS(l.qid, m))
  /\ quiz' = None
  /\ \/ ~Reported(m) /\ Goto("processRQS", "answer") /\ UNCHANGED answersUDP
     \/ /\ Reported(m)
        /\ answersUDP' = Inserted(i)
        /\ Goto("processRQS", "postUDP")
  /\ UNCHANGED <<peers, queue, sem, exit, questionaries, questionariesMutex,
                 sent, iqr, cur>>

ProcessRQSPostUDP ==
  /\ pc["processRQS"] = "postUDP"
  /\ Post("answersUDP")
  /\ Goto("processRQS", "answer")
  /\ UNCHANGED <<peers, answer, queue, exit, quizzes, udp, cur>>

ProcessRQSAnswer ==
  /\ pc["processRQS"] = "answer"
  /\ Push("answers", cur["processRQS"])
  /\ Drop("processRQS")
  /\ Goto("processRQS", "post")
  /\ UNCHANGED <<peers, answer, sem, exit, quizzes, udp>>

ProcessRQSPost ==
  /\ pc["processRQS"] = "post"
  /\ Post("answers")
  /\ Again("processRQS", "wait")
  /\ UNCHANGED <<peers, answer, queue, exit, quizzes, udp, cur>>

-----------------------------------------------------------------------------
(* processAWI: forgets the IQR an acknowledgement names.                   *)

ProcessAWIWait == Wait("processAWI", "awiRequests")

ProcessAWIPop ==
  LET d == Head(queue["awiRequests"]) IN
  /\ pc["processAWI"] = "pop"
  /\ Pop("awiRequests")
  /\ answersUDP' = IF d \in Qid THEN [answersUDP EXCEPT ![d] = None]
                                ELSE answersUDP
  /\ Again("processAWI", "wait")
  /\ UNCHANGED <<peers, answer, sem, exit, quizzes, sent, iqr, cur>>

-----------------------------------------------------------------------------
(* answerUDP: sends the first entry of _answersUDP and stores it again.    *)

AnswerUDPWait == Wait("answerUDP", "answersUDP")

\* begin() of an unordered_map is any of its entries.
AnswerUDPSend ==
  /\ pc["answerUDP"] = "pop"
  /\ \E k \in Keys :
       /\ answersUDP[k] # None
       /\ iqr' = answersUDP[k]
       /\ answersUDP' = [answersUDP EXCEPT ![k] = None]
       /\ sent' = sent \cup {answersUDP[k]}
  /\ Goto("answerUDP", "store")
  /\ UNCHANGED <<peers, answer, queue, sem, exit, quizzes, cur>>

\* The key is r.qid(), which is empty in a request built from a message.
\* insert() drops the entry when one with that key is there.
AnswerUDPStore ==
  /\ pc["answerUDP"] = "store"
  /\ answersUDP' = [answersUDP EXCEPT ![EmptyKey] = IF @ = None THEN iqr ELSE @]
  /\ iqr' = None
  /\ Again("answerUDP", "wait")
  /\ UNCHANGED <<peers, answer, queue, sem, exit, quizzes, sent, cur>>

-----------------------------------------------------------------------------
(* answerTCP.                                                              *)

AnswerTCPWait(a) == Wait(a, "answers")

AnswerTCPPop(a) ==
  /\ pc[a] = "pop"
  /\ Pop("answers")
  /\ Load(a, Head(queue["answers"]))
  /\ Goto(a, "write")
  /\ UNCHANGED <<peers, answer, sem, exit, quizzes, udp>>

\* write() to a closed socket is caught; the socket is closed either way.
AnswerTCPWrite(a) ==
  /\ pc[a] = "write"
  /\ \/ client' = [client EXCEPT ![cur[a]] = "answered"]
     \/ cur[a] \in Quitters /\ client' = [client EXCEPT ![cur[a]] = "dropped"]
  /\ Drop(a)
  /\ Again(a, "wait")
  /\ UNCHANGED <<now, line, answer, queue, sem, exit, quizzes, udp>>

-----------------------------------------------------------------------------
AcceptTCP ==
  \/ AcceptTCPBind \/ AcceptTCPInUse \/ AcceptTCPPost
  \/ AcceptTCPFail \/ AcceptTCPWake
  \/ \E c \in Clients : AcceptTCPClient(c)

AcceptUDP ==
  \/ \E d \in Datagram : AcceptUDPReceive(d)
  \/ AcceptUDPPost \/ AcceptUDPLeave

ProcessTCP ==
  \/ ProcessTCPWait \/ ProcessTCPPop \/ ProcessTCPSpin
  \/ ProcessTCPToRQT \/ ProcessTCPToRQS \/ ProcessTCPToERR \/ ProcessTCPTimedOut

ProcessRQT ==
  \/ ProcessRQTWait \/ ProcessRQTPop \/ ProcessRQTLock
  \/ ProcessRQTInsert \/ ProcessRQTAnswer \/ ProcessRQTNoPdf

ProcessRQS ==
  \/ ProcessRQSWait \/ ProcessRQSPop \/ ProcessRQSLock \/ ProcessRQSFind
  \/ ProcessRQSGrade \/ ProcessRQSPostUDP \/ ProcessRQSAnswer
  \/ ProcessRQSPost \/ MapRace

ProcessAWI == ProcessAWIWait \/ ProcessAWIPop

AnswerUDP == AnswerUDPWait \/ AnswerUDPSend \/ AnswerUDPStore

AnswerTCP(a) == AnswerTCPWait(a) \/ AnswerTCPPop(a) \/ AnswerTCPWrite(a)

Next ==
  \/ Tick \/ AcceptTCP \/ AcceptUDP \/ ProcessTCP \/ ProcessRQT
  \/ ProcessRQS \/ ProcessAWI \/ AnswerUDP
  \/ \E a \in Answerers : AnswerTCP(a)

Spec == Init /\ [][Next]_vars

\* The scheduler runs every thread that can go on.  Nothing is asked of the
\* clients, the clock, the network or the failures of accept().
Fairness ==
  /\ WF_vars(AcceptTCPBind) /\ WF_vars(AcceptTCPPost) /\ WF_vars(AcceptTCPWake)
  /\ WF_vars(AcceptUDPPost)
  /\ WF_vars(ProcessTCP) /\ WF_vars(ProcessRQT) /\ WF_vars(ProcessRQS)
  /\ WF_vars(ProcessAWI) /\ WF_vars(AnswerUDP)
  /\ \A a \in Answerers : WF_vars(AnswerTCP(a))

FairSpec == Spec /\ Fairness

-----------------------------------------------------------------------------
(* Properties.                                                             *)

Running == pc["acceptTCP"] # "terminated"

ClientStates == {"idle", "open", "answered", "dropped"}

Labels == {"bind", "accept", "wake", "receive", "wait", "pop", "read", "spin",
           "lock", "insert", "find", "grade", "postUDP", "answer", "post",
           "store", "write", "done", "terminated"}

QueuesOK ==
  /\ queue \in [Queues -> Seq(Clients \cup Qid \cup {None})]
  /\ \A q \in ConnQueues : queue[q] \in Seq(Clients)
  /\ queue["awiRequests"] \in Seq(Qid \cup {None})

\* Every variable holds what the fields and the locals of the code can hold.
TypeOK ==
  /\ now \in Time
  /\ client \in [Clients -> ClientStates]
  /\ line \in [Clients -> Line \cup {None}]
  /\ answer \in [Clients -> Answer \cup {None}]
  /\ QueuesOK
  /\ sem \in [Sems -> Nat]
  /\ exit \in BOOLEAN
  /\ questionaries \in [Qid -> Quiz \cup {None}]
  /\ questionariesMutex \in {"processRQT", "processRQS", None}
  /\ answersUDP \in [Keys -> Iqr \cup {None}]
  /\ sent \subseteq Iqr
  /\ pc \in [Threads -> Labels]
  /\ cur \in [TcpThreads -> Clients \cup {None}]
  /\ quiz \in Quiz \cup {None}
  /\ iqr \in Iqr \cup {None}

Consumers(q) == CASE q = "requests"    -> {"processTCP"}
                  [] q = "rqtRequests" -> {"processRQT"}
                  [] q = "rqsRequests" -> {"processRQS"}
                  [] q = "awiRequests" -> {"processAWI"}
                  [] q = "answers"     -> Answerers

\* The threads between their sem_wait and their pop of q.
Popping(q) == Cardinality({t \in Consumers(q) : pc[t] = "pop"})

\* Whether q's item was pushed and its semaphore is not yet posted.
Posting(q) ==
  IF \/ q = "requests"    /\ pc["acceptTCP"]  = "post"
     \/ q = "answers"     /\ pc["processRQS"] = "post"
     \/ q = "awiRequests" /\ pc["acceptUDP"]  = "post"
  THEN 1 ELSE 0

\* No thread calls front() or pop() on an empty std::queue, which would be
\* undefined: each finds at least as many items as there are threads about to
\* take one, the ten answerTCP threads and the wake-ups of a shutdown included.
NoPopFromEmpty == \A q \in Queues : Popping(q) <= Len(queue[q])

\* Until the shutdown, the posts a queue has received and not yet spent, the
\* post still to come and the threads about to pop account for every item: no
\* request is left in a queue with nobody to be woken for it.
SemCountsQueue ==
  Running /\ ~exit =>
    \A q \in Queues : sem[q] + Popping(q) + Posting(q) = Len(queue[q])

\* answerUDP never takes begin() of an empty _answersUDP, although two threads
\* erase entries of that map and insert() may add none.
NoBeginOnEmpty ==
  pc["answerUDP"] = "pop" => \E k \in Keys : answersUDP[k] # None

\* The connection is in a queue or in the local variable r of a thread.
Held(c) ==
  \/ \E q \in ConnQueues : \E i \in 1..Len(queue[q]) : queue[q][i] = c
  \/ \E t \in TcpThreads : cur[t] = c

\* A connection that was accepted and not closed is in exactly one place, and
\* one that was closed is nowhere: none is forgotten, answered twice or closed
\* twice (the descriptor might by then be another client's).
OnePlace ==
  /\ \A p, q \in ConnQueues :
       \A i \in 1..Len(queue[p]), j \in 1..Len(queue[q]) :
         queue[p][i] = queue[q][j] => p = q /\ i = j
  /\ \A t, u \in TcpThreads : cur[t] = cur[u] /\ cur[t] # None => t = u
  /\ \A t \in TcpThreads, q \in ConnQueues :
       \A i \in 1..Len(queue[q]) : queue[q][i] # cur[t]
  /\ \A c \in Clients : client[c] = "open" <=> Held(c)

Answered(c, kind) == answer[c] # None /\ answer[c].kind = kind

\* The connections that were given the questionnaire q, and those that named it.
Issued(q) == {c \in Clients : Answered(c, "AQT") /\ answer[c].qid = q}
Named(q)  == {c \in Clients : line[c] # None /\ line[c].kind = "RQS" /\ line[c].qid = q}

\* The submissions that got a score.
Graded == {c \in Clients : Answered(c, "AQS") /\ answer[c].score >= 0}

\* A malformed submission makes processRQS unlock the mutex of another thread.
Misparsed == \E c \in Clients : line[c] # None /\ line[c].kind = "badRQS"

\* A student who has received a questionnaire can hand it in: it is registered
\* when the answer leaves, and only a submission that names it takes it out,
\* or the race that somebody's malformed submission makes possible.
QuizReady ==
  Running /\ ~Misparsed =>
    \A q \in Qid :
      (\E c \in Issued(q) : client[c] = "answered") =>
        \/ questionaries[q] # None
        \/ \E c \in Named(q) : Answered(c, "AQS")
        \/ pc["processRQS"] = "grade" /\ cur["processRQS"] \in Named(q)

\* A questionnaire is graded at most once for each time it was issued: no
\* sequence or interleaving of submissions gets a second attempt at it.
GradedOnce ==
  \A q \in Qid :
    Cardinality({c \in Graded : answer[c].qid = q})
      + (IF questionaries[q] # None /\ pc["processRQT"] # "insert" THEN 1 ELSE 0)
      <= Cardinality(Issued(q))

\* A score is only ever given to the student the questionnaire was issued to,
\* before its deadline, and for the file that student was sent.
GradedAsIssued ==
  [][\A c \in Graded' \ Graded :
       \E d \in Issued(line[c].qid) :
         /\ line[d].sid = line[c].sid
         /\ now < answer[d].deadline
         /\ answer'[c].score = Score[<<line[c].sheet, answer[d].file>>]]_vars

IqrOf(c) == [sid |-> line[c].sid, qid |-> line[c].qid, score |-> answer[c].score]

\* Every IQR that waits, is being sent or was sent reports a submission that
\* was graded, with its student, its questionnaire and its score: the map never
\* pairs one student's score with another's.
IqrHonest ==
  \A i \in sent \cup {answersUDP[k] : k \in Keys} \cup {iqr} :
    i # None => \E c \in Graded : i = IqrOf(c)

\* A connection that was accepted is answered or dropped, whatever the other
\* clients send, unless the server is shutting down or gone, or the one thread
\* that reads is held by a client that closed early.
EveryClientAnswered ==
  \A c \in Clients :
    client[c] = "open"
      ~> client[c] # "open" \/ exit \/ ~Running \/ pc["processTCP"] = "spin"

\* The ECP server is told of a graded submission, as long as no other one is
\* graded before.
IqrSentUnlessOvertaken ==
  \A c \in Clients :
    Graded = {c} ~> Graded # {c} \/ IqrOf(c) \in sent \/ exit \/ ~Running

\* The wake-ups of acceptRequestsTCP end every thread that waits on one of the
\* semaphores they post, whatever the thread was doing when _exit was raised,
\* short of a read that never ends.
ShutdownWakes ==
  exit ~> \A t \in Threads \ {"acceptUDP", "answerUDP"} :
            pc[t] \in {"done", "terminated", "spin"}

\* The semaphore at the head of a thread's loop.
Own(t) == CASE t = "processTCP" -> "requests"
            [] t = "processRQT" -> "rqtRequests"
            [] t = "processRQS" -> "rqsRequests"
            [] t = "processAWI" -> "awiRequests"
            [] t = "answerUDP"  -> "answersUDP"
            [] OTHER            -> "answers"

\* A thread that goes on only if another does something, or never.
Blocked(t) ==
  \/ pc[t] \in {"done", "spin", "terminated"}
  \/ pc[t] = "wait" /\ sem[Own(t)] = 0
  \/ pc[t] = "lock" /\ questionariesMutex # None

\* Nothing more happens unless a client or a datagram comes.
Stuck ==
  /\ pc["acceptTCP"] \in {"accept", "done"} /\ pc["acceptUDP"] \in {"receive", "done"}
  /\ \A t \in Threads \ {"acceptTCP", "acceptUDP"} : Blocked(t)

\* The threads never wait for each other: if none can go on, every connection
\* that was accepted has its answer and every acknowledgement was dealt with,
\* except that a client that closed early keeps those from being read that
\* came after it.
StuckOnlyWhenServed ==
  Stuck /\ ~exit =>
    /\ \A c \in Clients :
         client[c] = "open" =>
           /\ pc["processTCP"] = "spin"
           /\ \/ c = cur["processTCP"]
              \/ \E i \in 1..Len(queue["requests"]) : queue["requests"][i] = c
    /\ queue["awiRequests"] = <<>>

\* If no thread can go on after a shutdown, none is left: the wake-ups of
\* acceptRequestsTCP were enough for all that waited, and no mutex is held.
ShutdownLeavesNobody ==
  Stuck /\ exit =>
    \A t \in Threads \ {"acceptUDP", "answerUDP"} : pc[t] \in {"done", "spin"}

-----------------------------------------------------------------------------
(* What the comments of the code say, and the code does not do.            *)

\* TesManager.cpp brackets its use of _questionaries with "Mutex locked" and
\* "Unlocking Mutex": only one thread is inside.
OneInsideTheMap == ~(pc["processRQT"] = "insert" /\ pc["processRQS"] = "find")

\* TesManager.h: _answersUDP holds the "Answers UDP to be sent to ECP server":
\* when no thread is left with anything to do, all of them were sent.
Quiet ==
  /\ \A t \in Threads \ {"acceptTCP", "acceptUDP"} : pc[t] = "wait"
  /\ \A q \in Sems : sem[q] = 0
EveryIqrSent == Quiet => \A c \in Graded : IqrOf(c) \in sent

\* SocketTCP.h sets a "timeout while reading messages": a read ends.
EveryReadEnds ==
  pc["processTCP"] \in {"read", "spin"} ~> pc["processTCP"] \notin {"read", "spin"}

\* tes.cpp joins every thread, and answerUDP has its own "Exiting the thread
\* answerUDP due to exit flag".
AnswerUDPExits == exit ~> pc["answerUDP"] \in {"done", "terminated"}
=============================================================================
