-------------------------- MODULE TesReportProofs --------------------------
(***************************************************************************)
(* answerUDP always finds an entry of _answersUDP when its semaphore lets  *)
(* it through, although processAWI erases entries without taking a post    *)
(* back.  Until the first IQR is sent there is nothing to acknowledge, so  *)
(* nothing is erased; afterwards the entry stored under the empty key is   *)
(* one no acknowledgement names.                                           *)
(* Then: TesManager implements Reporter, which Reporting composes with the *)
(* contact server.                                                         *)
(***************************************************************************)
EXTENDS TesManagerProofs, TesReporter

SomeEntry == \E k \in Keys : answersUDP[k] # None

\* A post of _answerUDPSem is still to be spent, or to come.
Expected ==
  \/ sem["answersUDP"] > 0
  \/ pc["answerUDP"] = "pop"
  \/ pc["processRQS"] = "postUDP"

\* Once something was sent, the empty key has an entry; until then nothing is
\* acknowledged and a send that is expected finds one.
RInv ==
  /\ sent # {} /\ pc["answerUDP"] \notin {"store", "terminated"}
       => answersUDP[EmptyKey] # None
  /\ sent = {} /\ Expected => SomeEntry
  /\ sent = {} => queue["awiRequests"] = <<>>

LEMMA KeysOK == EmptyKey \in Keys /\ Qid \subseteq Keys /\ EmptyKey \notin Qid
BY TesAssumption DEF Keys

\* A step that has nothing to do with the results.
LEMMA ReportFrame ==
  ASSUME RInv, UNCHANGED <<answersUDP, sent>>,
         sem'["answersUDP"] = sem["answersUDP"],
         queue'["awiRequests"] = queue["awiRequests"],
         pc'["answerUDP"] \in {pc["answerUDP"], "terminated"},
         pc'["processRQS"] = "postUDP" => pc["processRQS"] = "postUDP"
  PROVE  RInv'
BY DEF RInv, Expected, SomeEntry

\* The same, as a thread other than the four that handle results makes it.
LEMMA OtherThread ==
  ASSUME TypeOK, RInv, NEW t \in Threads \ {"answerUDP", "processRQS"}, NEW l, Goto(t, l),
         UNCHANGED <<answersUDP, sent>>,
         sem'["answersUDP"] = sem["answersUDP"],
         queue'["awiRequests"] = queue["awiRequests"]
  PROVE  RInv'
<1>1. pc'["answerUDP"] = pc["answerUDP"] /\ pc'["processRQS"] = pc["processRQS"]
  BY DEF Goto, TypeOK, Threads
<1> QED  BY <1>1, ReportFrame

LEMMA ReportTerminate ==
  ASSUME RInv, Terminate, UNCHANGED <<answersUDP, sent, sem, queue>>
  PROVE  RInv'
<1>1. pc'["answerUDP"] = "terminated" /\ pc'["processRQS"] = "terminated"
  BY DEF Terminate, Threads
<1> QED  BY <1>1, ReportFrame

\* A post or a wait on one of the queues, a push or a pop of a queue of
\* connections.
LEMMA OtherSem ==
  ASSUME TypeOK, NEW q \in Queues, Post(q) \/ SemWait(q)
  PROVE  sem'["answersUDP"] = sem["answersUDP"]
BY DEF Post, SemWait, TypeOK, Sems, Queues, ConnQueues

LEMMA OtherQueue ==
  ASSUME TypeOK, NEW q \in ConnQueues, NEW x, Push(q, x) \/ Pop(q)
  PROVE  queue'["awiRequests"] = queue["awiRequests"]
BY DEF Push, Pop, TypeOK, QueuesOK, Queues, ConnQueues

LEMMA ReportWait ==
  ASSUME TypeOK, RInv, NEW t \in Threads \ {"answerUDP", "processRQS"},
         NEW q \in Queues, Wait(t, q)
  PROVE  RInv'
<1>1. /\ SemWait(q) /\ Goto(t, Woken)
      /\ UNCHANGED <<answersUDP, sent, queue>>
  BY DEF Wait, udp
<1>2. sem'["answersUDP"] = sem["answersUDP"]
  BY <1>1, OtherSem
<1> QED  BY <1>1, <1>2, OtherThread

LEMMA ReportAcceptTCP ==
  ASSUME TypeOK, RInv, AcceptTCP
  PROVE  RInv'
<1>1. "acceptTCP" \in Threads \ {"answerUDP", "processRQS"}
  BY DEF Threads
<1>2. "requests" \in Queues /\ "requests" \in ConnQueues /\ "answersUDP" \in Sems
  BY DEF Queues, ConnQueues, Sems
<1>3. CASE AcceptTCPInUse
  BY <1>3, ReportTerminate DEF AcceptTCPInUse, udp
<1>4. CASE AcceptTCPBind
  BY <1>1, <1>4, OtherThread DEF AcceptTCPBind, udp
<1>5. CASE AcceptTCPFail
  BY <1>1, <1>5, OtherThread DEF AcceptTCPFail, udp
<1>6. CASE AcceptTCPPost
  <2>1. sem'["answersUDP"] = sem["answersUDP"]
    BY <1>2, <1>6, OtherSem DEF AcceptTCPPost
  <2> QED  BY <1>1, <1>6, <2>1, OtherThread DEF AcceptTCPPost, Again, udp
<1>7. CASE AcceptTCPWake
  <2>1. sem'["answersUDP"] = sem["answersUDP"] + WakeUps("answersUDP")
    BY <1>2, <1>7 DEF AcceptTCPWake
  <2>2. WakeUps("answersUDP") = 0 /\ sem["answersUDP"] \in Nat
    BY <1>2 DEF WakeUps, TypeOK
  <2>3. sem'["answersUDP"] = sem["answersUDP"]
    BY <2>1, <2>2
  <2> QED  BY <1>1, <1>7, <2>3, OtherThread DEF AcceptTCPWake, udp
<1>8. ASSUME NEW c \in Clients, AcceptTCPClient(c)
      PROVE  RInv'
  <2>1. queue'["awiRequests"] = queue["awiRequests"]
    BY <1>2, <1>8, OtherQueue DEF AcceptTCPClient
  <2> QED  BY <1>1, <1>8, <2>1, OtherThread DEF AcceptTCPClient, udp
<1> QED  BY <1>3, <1>4, <1>5, <1>6, <1>7, <1>8 DEF AcceptTCP

\* A datagram only arrives once something was sent.
LEMMA ReportAcceptUDP ==
  ASSUME TypeOK, RInv, AcceptUDP
  PROVE  RInv'
<1>1. "acceptUDP" \in Threads \ {"answerUDP", "processRQS"}
  BY DEF Threads
<1>2. CASE AcceptUDPPost
  <2>1. sem'["answersUDP"] = sem["answersUDP"]
    BY <1>2, OtherSem DEF AcceptUDPPost, Queues
  <2> QED  BY <1>1, <1>2, <2>1, OtherThread DEF AcceptUDPPost, Again, udp
<1>3. CASE AcceptUDPLeave
  BY <1>1, <1>3, OtherThread DEF AcceptUDPLeave, udp
<1>4. ASSUME NEW d \in Datagram, AcceptUDPReceive(d)
      PROVE  RInv'
  <2>1. sent # {}
    BY <1>4 DEF Datagram
  <2>2. UNCHANGED <<answersUDP, sent, sem>> /\ pc'["answerUDP"] = pc["answerUDP"]
    BY <1>1, <1>4 DEF AcceptUDPReceive, udp, Goto, TypeOK, Threads
  <2> QED  BY <2>1, <2>2 DEF RInv
<1> QED  BY <1>2, <1>3, <1>4 DEF AcceptUDP

LEMMA ReportProcessTCP ==
  ASSUME TypeOK, RInv, ProcessTCP
  PROVE  RInv'
<1>1. "processTCP" \in Threads \ {"answerUDP", "processRQS"}
  BY DEF Threads
<1>2. {"requests", "rqtRequests", "rqsRequests", "answers"} \subseteq ConnQueues
      /\ ConnQueues \subseteq Queues
  BY DEF ConnQueues, Queues
<1>3. CASE ProcessTCPWait
  BY <1>1, <1>2, <1>3, ReportWait DEF ProcessTCPWait
<1>4. CASE ProcessTCPPop
  <2>1. queue'["awiRequests"] = queue["awiRequests"]
    BY <1>2, <1>4, OtherQueue DEF ProcessTCPPop
  <2> QED  BY <1>1, <1>4, <2>1, OtherThread DEF ProcessTCPPop, udp
<1>5. CASE ProcessTCPSpin
  BY <1>1, <1>5, OtherThread DEF ProcessTCPSpin, udp
<1>6. ASSUME NEW q \in ConnQueues, NEW x, Hand(q, x), Again("processTCP", "wait"),
             UNCHANGED udp
      PROVE  RInv'
  <2>1. sem'["answersUDP"] = sem["answersUDP"]
    BY <1>2, <1>6, OtherSem DEF Hand
  <2>2. queue'["awiRequests"] = queue["awiRequests"]
    BY <1>6, OtherQueue DEF Hand
  <2> QED  BY <1>1, <1>6, <2>1, <2>2, OtherThread DEF Again, udp
<1>7. ASSUME NEW K, NEW q \in ConnQueues, Read(K, q)
      PROVE  RInv'
  BY <1>6, <1>7 DEF Read
<1>8. CASE ProcessTCPTimedOut
  BY <1>2, <1>6, <1>8 DEF ProcessTCPTimedOut
<1> QED  BY <1>2, <1>3, <1>4, <1>5, <1>7, <1>8
         DEF ProcessTCP, ProcessTCPToRQT, ProcessTCPToRQS, ProcessTCPToERR

LEMMA ReportProcessRQT ==
  ASSUME TypeOK, RInv, ProcessRQT
  PROVE  RInv'
<1>1. "processRQT" \in Threads \ {"answerUDP", "processRQS"}
  BY DEF Threads
<1>2. {"rqtRequests", "answers"} \subseteq ConnQueues /\ ConnQueues \subseteq Queues
  BY DEF ConnQueues, Queues
<1>3. CASE ProcessRQTWait
  BY <1>1, <1>2, <1>3, ReportWait DEF ProcessRQTWait
<1>4. CASE ProcessRQTPop
  <2>1. queue'["awiRequests"] = queue["awiRequests"]
    BY <1>2, <1>4, OtherQueue DEF ProcessRQTPop
  <2>2. PICK l : Goto("processRQT", l)
    BY <1>4 DEF ProcessRQTPop
  <2>3. UNCHANGED <<answersUDP, sent, sem>>
    BY <1>4 DEF ProcessRQTPop, udp
  <2> QED  BY <1>1, <2>1, <2>2, <2>3, OtherThread
<1>5. CASE ProcessRQTLock
  BY <1>1, <1>5, OtherThread DEF ProcessRQTLock, udp
<1>6. CASE ProcessRQTInsert
  BY <1>1, <1>6, OtherThread DEF ProcessRQTInsert, udp
<1>7. CASE ProcessRQTAnswer
  <2>1. sem'["answersUDP"] = sem["answersUDP"]
    BY <1>2, <1>7, OtherSem DEF ProcessRQTAnswer, Hand
  <2>2. queue'["awiRequests"] = queue["awiRequests"]
    BY <1>2, <1>7, OtherQueue DEF ProcessRQTAnswer, Hand
  <2> QED  BY <1>1, <1>7, <2>1, <2>2, OtherThread DEF ProcessRQTAnswer, Again, udp
<1>8. CASE ProcessRQTNoPdf
  BY <1>8, ReportTerminate DEF ProcessRQTNoPdf, udp
<1> QED  BY <1>3, <1>4, <1>5, <1>6, <1>7, <1>8 DEF ProcessRQT

\* What processRQS inserts is an IQR of a qid.
LEMMA GradedIqr ==
  ASSUME IInv, pc["processRQS"] = "grade",
         Reported(Mark(line[cur["processRQS"]], quiz))
  PROVE  LET l == line[cur["processRQS"]]
             i == [sid |-> l.sid, qid |-> l.qid, score |-> Mark(l, quiz)]
         IN  i.qid \in Qid /\ i # None
<1> DEFINE c == cur["processRQS"]
           l == line[c]
           i == [sid |-> l.sid, qid |-> l.qid, score |-> Mark(l, quiz)]
<1>1. c \in Clients
  BY DEF IInv, CurOK, TypeOK, Threads, TcpThreads
<1>2. l \in Line /\ l.kind = "RQS"
  BY <1>1 DEF IInv, LinesOK, TypeOK
<1>3. l.qid \in Qid /\ l.sid \in Sids /\ l.sheet \in Sheets
  BY <1>2 DEF Line
<1>4. quiz \in Quiz
  BY DEF IInv, LocalsOK, TypeOK
<1>5. Score[<<l.sheet, quiz.file>>] \in 0..100
  BY <1>3, <1>4, TesAssumption DEF Quiz
<1>6. Mark(l, quiz) \in 0..100
  BY <1>5 DEF Mark, Reported
<1>7. i \in Iqr
  BY <1>3, <1>6 DEF Iqr
<1> QED  BY <1>3, <1>7, TesAssumption

\* insert() comes before the post that announces it.
LEMMA ReportProcessRQS ==
  ASSUME IInv, RInv, ProcessRQS
  PROVE  RInv'
<1>1. TypeOK /\ "processRQS" \in Threads /\ "answerUDP" \in Threads
  BY DEF IInv, Threads
<1>2. {"rqsRequests", "answers"} \subseteq ConnQueues /\ ConnQueues \subseteq Queues
  BY DEF ConnQueues, Queues
<1>3. ASSUME NEW l, Goto("processRQS", l), l # "postUDP",
             UNCHANGED <<answersUDP, sent>>,
             sem'["answersUDP"] = sem["answersUDP"],
             queue'["awiRequests"] = queue["awiRequests"]
      PROVE  RInv'
  <2>1. pc'["answerUDP"] = pc["answerUDP"] /\ pc'["processRQS"] = l
    BY <1>1, <1>3 DEF Goto, TypeOK
  <2> QED  BY <1>3, <2>1, ReportFrame
<1>4. CASE ProcessRQSWait
  <2>1. /\ SemWait("rqsRequests") /\ Goto("processRQS", Woken) /\ Woken # "postUDP"
        /\ UNCHANGED <<answersUDP, sent, queue>>
    BY <1>4 DEF ProcessRQSWait, Wait, Woken, udp
  <2>2. sem'["answersUDP"] = sem["answersUDP"]
    BY <1>1, <1>2, <2>1, OtherSem
  <2> QED  BY <1>3, <2>1, <2>2
<1>5. CASE ProcessRQSPop
  <2>1. queue'["awiRequests"] = queue["awiRequests"]
    BY <1>1, <1>2, <1>5, OtherQueue DEF ProcessRQSPop
  <2>2. PICK l \in {"answer", "lock"} : Goto("processRQS", l)
    BY <1>5 DEF ProcessRQSPop
  <2>3. UNCHANGED <<answersUDP, sent, sem>>
    BY <1>5 DEF ProcessRQSPop, udp
  <2> QED  BY <1>3, <2>1, <2>2, <2>3
<1>6. CASE ProcessRQSLock
  BY <1>3, <1>6 DEF ProcessRQSLock, udp
<1>7. CASE ProcessRQSFind
  <2>1. PICK l \in {"answer", "grade"} : Goto("processRQS", l)
    BY <1>7 DEF ProcessRQSFind
  <2>2. UNCHANGED <<answersUDP, sent, sem, queue>>
    BY <1>7 DEF ProcessRQSFind, udp
  <2> QED  BY <1>3, <2>1, <2>2
<1>8. CASE ProcessRQSGrade
  <2> DEFINE m == Mark(line[cur["processRQS"]], quiz)
             i == [sid |-> line[cur["processRQS"]].sid,
                   qid |-> line[cur["processRQS"]].qid, score |-> m]
  <2>1. UNCHANGED <<sent, sem, queue>>
    BY <1>8 DEF ProcessRQSGrade
  <2>2. CASE Goto("processRQS", "answer") /\ UNCHANGED answersUDP
    BY <1>3, <2>1, <2>2
  <2>3. CASE /\ Reported(m) /\ Goto("processRQS", "postUDP")
             /\ answersUDP' = Inserted(i)
    <3>1. pc["processRQS"] = "grade"
      BY <1>8 DEF ProcessRQSGrade
    <3>2. i.qid \in Qid /\ i # None
      BY <1>8, <2>3, GradedIqr DEF ProcessRQSGrade
    <3>3. /\ answersUDP'[i.qid] # None
          /\ answersUDP'[EmptyKey] = answersUDP[EmptyKey]
      BY <1>1, <2>3, <3>2, KeysOK DEF Inserted, TypeOK
    <3>4. pc'["answerUDP"] = pc["answerUDP"]
      BY <1>1, <2>3 DEF Goto, TypeOK
    <3> QED  BY <2>1, <3>2, <3>3, <3>4, KeysOK DEF RInv, SomeEntry
  <2> QED  BY <1>8, <2>2, <2>3 DEF ProcessRQSGrade
<1>9. CASE ProcessRQSPostUDP
  <2>1. /\ pc["processRQS"] = "postUDP" /\ Goto("processRQS", "answer")
        /\ UNCHANGED <<answersUDP, sent, queue>>
    BY <1>9 DEF ProcessRQSPostUDP, udp
  <2>2. pc'["answerUDP"] = pc["answerUDP"]
    BY <1>1, <2>1 DEF Goto, TypeOK
  <2> QED  BY <2>1, <2>2 DEF RInv, Expected, SomeEntry
<1>10. CASE ProcessRQSAnswer
  <2>1. queue'["awiRequests"] = queue["awiRequests"]
    BY <1>1, <1>2, <1>10, OtherQueue DEF ProcessRQSAnswer
  <2> QED  BY <1>3, <1>10, <2>1 DEF ProcessRQSAnswer, udp
<1>11. CASE ProcessRQSPost
  <2>1. sem'["answersUDP"] = sem["answersUDP"]
    BY <1>1, <1>2, <1>11, OtherSem DEF ProcessRQSPost
  <2>2. PICK l \in {"done", "wait"} : Goto("processRQS", l)
    BY <1>11 DEF ProcessRQSPost, Again
  <2> QED  BY <1>3, <1>11, <2>1, <2>2 DEF ProcessRQSPost, udp
<1>12. CASE MapRace
  BY <1>12, ReportTerminate DEF MapRace, udp
<1> QED  BY <1>4, <1>5, <1>6, <1>7, <1>8, <1>9, <1>10, <1>11, <1>12
         DEF ProcessRQS

\* An acknowledgement names a qid, never the empty key.
LEMMA ReportProcessAWI ==
  ASSUME TypeOK, RInv, ProcessAWI
  PROVE  RInv'
<1>1. "processAWI" \in Threads \ {"answerUDP", "processRQS"} /\ "awiRequests" \in Queues
  BY DEF Threads, Queues
<1>2. CASE ProcessAWIWait
  BY <1>1, <1>2, ReportWait DEF ProcessAWIWait
<1>3. CASE ProcessAWIPop
  <2>1. sent # {} /\ UNCHANGED sent
    BY <1>3 DEF ProcessAWIPop, Pop, RInv
  <2>2. answersUDP'[EmptyKey] = answersUDP[EmptyKey]
    BY <1>3, KeysOK DEF ProcessAWIPop, TypeOK
  <2>3. pc'["answerUDP"] = pc["answerUDP"]
    BY <1>1, <1>3 DEF ProcessAWIPop, Again, Goto, TypeOK, Threads
  <2> QED  BY <2>1, <2>2, <2>3 DEF RInv
<1> QED  BY <1>2, <1>3 DEF ProcessAWI

LEMMA ReportAnswerUDP ==
  ASSUME IInv, RInv, AnswerUDP
  PROVE  RInv'
<1>1. TypeOK /\ "answerUDP" \in Threads /\ "processRQS" \in Threads
      /\ "answersUDP" \in Sems
  BY DEF IInv, Threads, Sems
<1>2. CASE AnswerUDPWait
  <2>1. /\ pc["answerUDP"] = "wait" /\ sem["answersUDP"] > 0
        /\ UNCHANGED <<answersUDP, sent, queue>>
    BY <1>2 DEF AnswerUDPWait, Wait, SemWait, udp
  <2> QED  BY <2>1 DEF RInv, Expected, SomeEntry
<1>3. CASE AnswerUDPSend
  <2>1. sent' # {} /\ pc'["answerUDP"] = "store"
    BY <1>1, <1>3 DEF AnswerUDPSend, Goto, TypeOK
  <2> QED  BY <2>1 DEF RInv
<1>4. CASE AnswerUDPStore
  <2>1. iqr # None
    BY <1>4 DEF AnswerUDPStore, IInv, LocalsOK
  <2>2. answersUDP'[EmptyKey] # None
    BY <1>1, <1>4, <2>1, KeysOK DEF AnswerUDPStore, TypeOK
  <2>3. UNCHANGED <<sent, queue>>
    BY <1>4 DEF AnswerUDPStore
  <2> QED  BY <2>2, <2>3, KeysOK DEF RInv, SomeEntry
<1> QED  BY <1>2, <1>3, <1>4 DEF AnswerUDP

LEMMA ReportAnswerTCP ==
  ASSUME TypeOK, RInv, NEW a \in Answerers, AnswerTCP(a)
  PROVE  RInv'
<1>1. a \in Threads \ {"answerUDP", "processRQS"}
  BY TesAssumption DEF Threads
<1>2. "answers" \in ConnQueues /\ "answers" \in Queues
  BY DEF ConnQueues, Queues
<1>3. CASE AnswerTCPWait(a)
  BY <1>1, <1>2, <1>3, ReportWait DEF AnswerTCPWait
<1>4. CASE AnswerTCPPop(a)
  <2>1. queue'["awiRequests"] = queue["awiRequests"]
    BY <1>2, <1>4, OtherQueue DEF AnswerTCPPop
  <2> QED  BY <1>1, <1>4, <2>1, OtherThread DEF AnswerTCPPop, udp
<1>5. CASE AnswerTCPWrite(a)
  BY <1>1, <1>5, OtherThread DEF AnswerTCPWrite, Again, udp
<1> QED  BY <1>3, <1>4, <1>5 DEF AnswerTCP

LEMMA ReportKept ==
  ASSUME IInv, RInv, [Next]_vars
  PROVE  RInv'
<1>1. TypeOK
  BY DEF IInv
<1>2. CASE Tick
  BY <1>2, ReportFrame DEF Tick, udp
<1>3. CASE UNCHANGED vars
  BY <1>3, ReportFrame DEF vars
<1> QED  BY <1>1, <1>2, <1>3, ReportAcceptTCP, ReportAcceptUDP, ReportProcessTCP,
            ReportProcessRQT, ReportProcessRQS, ReportProcessAWI,
            ReportAnswerUDP, ReportAnswerTCP DEF Next

-----------------------------------------------------------------------------
\* The inductive invariant of the results holds in every reachable state.
THEOREM ReportAlways == Spec => []RInv
<1>1. Init => RInv
  <2> SUFFICES ASSUME Init PROVE RInv
    OBVIOUS
  <2>1. /\ sent = {} /\ queue["awiRequests"] = <<>> /\ sem["answersUDP"] = 0
        /\ pc["answerUDP"] = "wait" /\ pc["processRQS"] = "wait"
    BY DEF Init, Queues, Sems, Threads
  <2> QED  BY <2>1 DEF RInv, Expected
<1>2. IInv /\ RInv /\ [Next]_vars => RInv'
  BY ReportKept
<1> QED  BY <1>1, <1>2, Inductive, PTL DEF Spec

\* answerUDP never takes begin() of an empty _answersUDP, for any number of
\* results, acknowledgements and noise.
THEOREM NoBeginOnEmptyAlways == Spec => []NoBeginOnEmpty
<1>1. RInv => NoBeginOnEmpty
  BY KeysOK DEF RInv, NoBeginOnEmpty, Expected, SomeEntry
<1> QED  BY <1>1, ReportAlways, PTL

-----------------------------------------------------------------------------
(* TesManager implements Reporter.                                         *)

\* The server keeps only results it can put together, and once answerUDP is
\* gone, so is every thread.
SInv ==
  /\ \A k \in Keys : answersUDP[k] # None => answersUDP[k] \in Reportable
  /\ iqr # None => iqr \in Reportable
  /\ pc["answerUDP"] \in {"wait", "pop", "store", "done", "terminated"}
  /\ pc["answerUDP"] = "terminated" => \A t \in Threads : pc[t] = "terminated"

\* A step a reporter does not see.
Aside ==
  /\ UNCHANGED <<answersUDP, iqr>>
  /\ sem'["answersUDP"] = sem["answersUDP"]
  /\ pc'["answerUDP"] = pc["answerUDP"]
  /\ pc'["processRQS"] = "postUDP" <=> pc["processRQS"] = "postUDP"

Dies == Terminate /\ UNCHANGED <<answersUDP, iqr, sem>>

\* A thread other than answerUDP and processRQS, at none of their steps.
LEMMA AsideThread ==
  ASSUME TypeOK, NEW t \in Threads \ {"answerUDP", "processRQS"}, NEW l, Goto(t, l),
         UNCHANGED <<answersUDP, iqr>>, sem'["answersUDP"] = sem["answersUDP"]
  PROVE  Aside
BY DEF Goto, TypeOK, Threads, Aside

LEMMA AsideWait ==
  ASSUME TypeOK, NEW t \in Threads \ {"answerUDP", "processRQS"},
         NEW q \in Queues, Wait(t, q)
  PROVE  Aside
<1>1. sem'["answersUDP"] = sem["answersUDP"]
  BY OtherSem DEF Wait
<1> QED  BY <1>1, AsideThread DEF Wait, udp

LEMMA AsideTCP ==
  ASSUME TypeOK, AcceptTCP \/ AcceptUDP \/ ProcessAWIWait
  PROVE  Aside \/ Dies
<1>1. {"acceptTCP", "acceptUDP", "processAWI"} \subseteq Threads \ {"answerUDP", "processRQS"}
  BY DEF Threads
<1>2. "requests" \in Queues /\ "awiRequests" \in Queues /\ "answersUDP" \in Sems
  BY DEF Queues, ConnQueues, Sems
<1>3. CASE AcceptTCPInUse
  BY <1>3 DEF AcceptTCPInUse, Dies, udp
<1>4. CASE AcceptTCPBind \/ AcceptTCPFail
  BY <1>1, <1>4, AsideThread DEF AcceptTCPBind, AcceptTCPFail, udp
<1>5. CASE AcceptTCPPost
  <2>1. sem'["answersUDP"] = sem["answersUDP"]
    BY <1>2, <1>5, OtherSem DEF AcceptTCPPost
  <2> QED  BY <1>1, <1>5, <2>1, AsideThread DEF AcceptTCPPost, Again, udp
<1>6. CASE AcceptTCPWake
  <2>1. sem'["answersUDP"] = sem["answersUDP"] + 0
    BY <1>2, <1>6 DEF AcceptTCPWake, WakeUps
  <2>2. sem'["answersUDP"] = sem["answersUDP"]
    BY <1>2, <2>1 DEF TypeOK
  <2> QED  BY <1>1, <1>6, <2>2, AsideThread DEF AcceptTCPWake, udp
<1>7. ASSUME NEW c \in Clients, AcceptTCPClient(c) PROVE Aside
  BY <1>1, <1>7, AsideThread DEF AcceptTCPClient, udp
<1>8. ASSUME NEW d \in Datagram, AcceptUDPReceive(d) PROVE Aside
  BY <1>1, <1>8, AsideThread DEF AcceptUDPReceive, udp
<1>9. CASE AcceptUDPPost
  <2>1. sem'["answersUDP"] = sem["answersUDP"]
    BY <1>2, <1>9, OtherSem DEF AcceptUDPPost
  <2> QED  BY <1>1, <1>9, <2>1, AsideThread DEF AcceptUDPPost, Again, udp
<1>10. CASE AcceptUDPLeave
  BY <1>1, <1>10, AsideThread DEF AcceptUDPLeave, udp
<1>11. CASE ProcessAWIWait
  BY <1>1, <1>2, <1>11, AsideWait DEF ProcessAWIWait
<1> QED  BY <1>3, <1>4, <1>5, <1>6, <1>7, <1>8, <1>9, <1>10, <1>11 DEF AcceptTCP, AcceptUDP

LEMMA AsideRequests ==
  ASSUME TypeOK, ProcessTCP \/ ProcessRQT \/ (\E a \in Answerers : AnswerTCP(a))
  PROVE  Aside \/ Dies
<1>1. /\ {"processTCP", "processRQT"} \subseteq Threads \ {"answerUDP", "processRQS"}
      /\ Answerers \subseteq Threads \ {"answerUDP", "processRQS"}
  BY TesAssumption DEF Threads
<1>2. ConnQueues \subseteq Queues /\ ConnQueues = {"requests", "rqtRequests", "rqsRequests", "answers"}
  BY DEF Queues, ConnQueues
<1>3. ASSUME NEW t \in Threads \ {"answerUDP", "processRQS"}, NEW l, Goto(t, l),
             NEW q \in ConnQueues, NEW x, Hand(q, x), UNCHANGED <<answersUDP, iqr>>
      PROVE  Aside
  <2>1. sem'["answersUDP"] = sem["answersUDP"]
    BY <1>2, <1>3, OtherSem DEF Hand
  <2> QED  BY <1>3, <2>1, AsideThread
<1>4. ASSUME NEW K, NEW q \in ConnQueues, Read(K, q) PROVE Aside
  BY <1>1, <1>3, <1>4 DEF Read, Again, udp
<1>5. CASE ProcessTCP
  <2>1. CASE ProcessTCPWait
    BY <1>1, <1>2, <2>1, AsideWait DEF ProcessTCPWait
  <2>2. CASE ProcessTCPPop \/ ProcessTCPSpin
    BY <1>1, <2>2, AsideThread DEF ProcessTCPPop, ProcessTCPSpin, udp
  <2>3. CASE ProcessTCPToRQT \/ ProcessTCPToRQS \/ ProcessTCPToERR
    BY <1>2, <1>4, <2>3 DEF ProcessTCPToRQT, ProcessTCPToRQS, ProcessTCPToERR
  <2>4. CASE ProcessTCPTimedOut
    BY <1>1, <1>2, <1>3, <2>4 DEF ProcessTCPTimedOut, Again, udp
  <2> QED  BY <1>5, <2>1, <2>2, <2>3, <2>4 DEF ProcessTCP
<1>6. CASE ProcessRQT
  <2>1. CASE ProcessRQTWait
    BY <1>1, <1>2, <2>1, AsideWait DEF ProcessRQTWait
  <2>2. CASE ProcessRQTPop
    <3>1. PICK l : Goto("processRQT", l)
      BY <2>2 DEF ProcessRQTPop
    <3> QED  BY <1>1, <2>2, <3>1, AsideThread DEF ProcessRQTPop, udp
  <2>3. CASE ProcessRQTLock \/ ProcessRQTInsert
    BY <1>1, <2>3, AsideThread DEF ProcessRQTLock, ProcessRQTInsert, udp
  <2>4. CASE ProcessRQTAnswer
    BY <1>1, <1>2, <1>3, <2>4 DEF ProcessRQTAnswer, Again, udp
  <2>5. CASE ProcessRQTNoPdf
    BY <2>5 DEF ProcessRQTNoPdf, Dies, udp
  <2> QED  BY <1>6, <2>1, <2>2, <2>3, <2>4, <2>5 DEF ProcessRQT
<1>7. ASSUME NEW a \in Answerers, AnswerTCP(a) PROVE Aside
  <2>1. CASE AnswerTCPWait(a)
    BY <1>1, <1>2, <2>1, AsideWait DEF AnswerTCPWait
  <2>2. CASE AnswerTCPPop(a) \/ AnswerTCPWrite(a)
    BY <1>1, <2>2, AsideThread DEF AnswerTCPPop, AnswerTCPWrite, Again, udp
  <2> QED  BY <1>7, <2>1, <2>2 DEF AnswerTCP
<1> QED  BY <1>5, <1>6, <1>7

\* A process that is gone stays so.
LEMMA NothingRuns ==
  ASSUME \A t \in Threads : pc[t] = "terminated", [Next]_vars
  PROVE  UNCHANGED <<answersUDP, iqr, sem, pc>>
<1>1. ASSUME NEW t \in Threads, NEW q, Wait(t, q) PROVE FALSE
  BY <1>1 DEF Wait
<1>2. CASE AcceptTCP \/ AcceptUDP \/ ProcessTCP
  BY <1>1, <1>2 DEF Threads, AcceptTCP, AcceptTCPBind, AcceptTCPInUse, AcceptTCPPost,
    AcceptTCPFail, AcceptTCPWake, AcceptTCPClient, AcceptUDP, AcceptUDPReceive,
    AcceptUDPPost, AcceptUDPLeave, ProcessTCP, ProcessTCPWait, ProcessTCPPop, ProcessTCPSpin,
    ProcessTCPToRQT, ProcessTCPToRQS, ProcessTCPToERR, Read, ProcessTCPTimedOut
<1>3. CASE ProcessRQT \/ ProcessRQS
  BY <1>1, <1>3 DEF Threads, ProcessRQT, ProcessRQTWait, ProcessRQTPop, ProcessRQTLock,
    ProcessRQTInsert, ProcessRQTAnswer, ProcessRQTNoPdf, ProcessRQS, ProcessRQSWait,
    ProcessRQSPop, ProcessRQSLock, ProcessRQSFind, ProcessRQSGrade, ProcessRQSPostUDP,
    ProcessRQSAnswer, ProcessRQSPost, MapRace
<1>4. CASE ProcessAWI \/ AnswerUDP
  BY <1>1, <1>4 DEF Threads, ProcessAWI, ProcessAWIWait, ProcessAWIPop, AnswerUDP,
    AnswerUDPWait, AnswerUDPSend, AnswerUDPStore
<1>5. ASSUME NEW a \in Answerers, AnswerTCP(a) PROVE FALSE
  BY <1>1, <1>5 DEF Threads, AnswerTCP, AnswerTCPWait, AnswerTCPPop, AnswerTCPWrite
<1> QED  BY <1>2, <1>3, <1>4, <1>5 DEF Next, Tick, vars, udp

LEMMA DueType ==
  ASSUME TypeOK
  PROVE  sem["answersUDP"] \in Nat /\ Due \in Nat
BY DEF TypeOK, Sems, Due

\* What a step is to a reporter, and that it keeps SInv.
LEMMA AsideKeeps ==
  ASSUME SInv, Aside, [Next]_vars
  PROVE  SInv' /\ UNCHANGED Reports!vars
<1>1. UNCHANGED Reports!vars
  BY DEF Aside, Reports!vars, Due, Phase
<1>2. pc["answerUDP"] = "terminated" => UNCHANGED pc
  BY NothingRuns DEF SInv
<1> QED  BY <1>1, <1>2 DEF SInv, Aside

LEMMA DiesMaps ==
  ASSUME TypeOK, SInv, Dies
  PROVE  SInv' /\ Reports!Die
<1>1. \A t \in Threads : pc'[t] = "terminated"
  BY DEF Dies, Terminate
<1>2. pc'["answerUDP"] = "terminated" /\ pc'["processRQS"] = "terminated"
  BY <1>1 DEF Threads
<1>3. Phase' = "gone" /\ Due' = sem["answersUDP"] /\ UNCHANGED <<answersUDP, iqr>>
  BY <1>2, DueType DEF Phase, Due, Dies
<1>4. sem["answersUDP"] \in 0..Due
  BY DueType DEF Due
<1> QED  BY <1>1, <1>2, <1>3, <1>4 DEF SInv, Reports!Die

LEMMA ReporterRQS ==
  ASSUME IInv, SInv, ProcessRQS
  PROVE  SInv' /\ [Reports!Next]_(Reports!vars)
<1>1. TypeOK /\ "processRQS" \in Threads /\ "answerUDP" \in Threads /\ "answersUDP" \in Sems
  BY DEF IInv, Threads, Sems
<1>2. {"rqsRequests", "answers"} \subseteq Queues
  BY DEF ConnQueues, Queues
<1>3. [Next]_vars
  BY DEF Next
<1>4. ASSUME NEW l, Goto("processRQS", l), l # "postUDP", pc["processRQS"] # "postUDP",
             UNCHANGED <<answersUDP, iqr>>, sem'["answersUDP"] = sem["answersUDP"]
      PROVE  SInv' /\ [Reports!Next]_(Reports!vars)
  <2>1. Aside
    BY <1>1, <1>4 DEF Goto, TypeOK, Aside
  <2> QED  BY <1>3, <2>1, AsideKeeps
<1>5. CASE ProcessRQSWait
  <2>1. sem'["answersUDP"] = sem["answersUDP"]
    BY <1>1, <1>2, <1>5, OtherSem DEF ProcessRQSWait, Wait
  <2> QED  BY <1>4, <1>5, <2>1 DEF ProcessRQSWait, Wait, Woken, udp
<1>6. CASE ProcessRQSPop \/ ProcessRQSLock \/ ProcessRQSFind \/ ProcessRQSAnswer
  <2>1. PICK l \in {"answer", "lock", "find", "grade", "post"} : Goto("processRQS", l)
    BY <1>6 DEF ProcessRQSPop, ProcessRQSLock, ProcessRQSFind, ProcessRQSAnswer
  <2>2. UNCHANGED <<answersUDP, iqr, sem>> /\ pc["processRQS"] # "postUDP"
    BY <1>6 DEF ProcessRQSPop, ProcessRQSLock, ProcessRQSFind, ProcessRQSAnswer, udp
  <2> QED  BY <1>4, <2>1, <2>2
<1>7. CASE ProcessRQSPost
  <2>1. sem'["answersUDP"] = sem["answersUDP"]
    BY <1>1, <1>2, <1>7, OtherSem DEF ProcessRQSPost
  <2> QED  BY <1>4, <1>7, <2>1 DEF ProcessRQSPost, Again, udp
<1>8. CASE MapRace
  <2>1. Dies
    BY <1>8 DEF MapRace, Dies, udp
  <2> QED  BY <1>1, <2>1, DiesMaps DEF Reports!Next
<1>9. CASE ProcessRQSPostUDP
  <2>1. /\ pc["processRQS"] = "postUDP" /\ pc'["processRQS"] = "answer"
        /\ pc'["answerUDP"] = pc["answerUDP"] /\ UNCHANGED <<answersUDP, iqr>>
        /\ sem'["answersUDP"] = sem["answersUDP"] + 1
    BY <1>1, <1>9 DEF ProcessRQSPostUDP, Goto, Post, TypeOK, udp
  <2>2. UNCHANGED Reports!vars
    BY <1>1, <2>1, DueType DEF Reports!vars, Due, Phase
  <2>3. pc["answerUDP"] # "terminated"
    BY <1>1, <2>1 DEF SInv
  <2> QED  BY <2>1, <2>2, <2>3 DEF SInv
<1>10. CASE ProcessRQSGrade
  <2> DEFINE c == cur["processRQS"]
             l == line[c]
             i == [sid |-> l.sid, qid |-> l.qid, score |-> Mark(l, quiz)]
  <2>1. pc["processRQS"] = "grade" /\ UNCHANGED <<sem, iqr>>
    BY <1>10 DEF ProcessRQSGrade
  <2>2. CASE Goto("processRQS", "answer") /\ UNCHANGED answersUDP
    BY <1>4, <2>1, <2>2
  <2>3. CASE Reported(Mark(l, quiz)) /\ Goto("processRQS", "postUDP") /\ answersUDP' = Inserted(i)
    <3>1. i \in Reportable
      <4>1. l.qid \in Qid /\ l.sid \in Sids /\ l.sheet \in Sheets /\ quiz \in Quiz
        BY <2>1 DEF IInv, CurOK, LinesOK, LocalsOK, TypeOK, Threads, TcpThreads, Line
      <4>2. Mark(l, quiz) = Score[<<l.sheet, quiz.file>>]
        BY <2>3 DEF Mark, Reported
      <4> QED  BY <4>1, <4>2 DEF Reportable, Quiz
    <3>2. i.qid \in Qid /\ i.qid \in Keys /\ i # None
      BY <2>1, <2>3, GradedIqr, KeysOK
    <3>3. pc["answerUDP"] # "terminated"
      BY <1>1, <2>1 DEF SInv
    <3>4. pc'["answerUDP"] = pc["answerUDP"] /\ pc'["processRQS"] = "postUDP"
      BY <1>1, <2>3 DEF Goto, TypeOK
    <3>5. Due' = Due + 1 /\ Phase' = Phase /\ Phase # "gone"
      BY <1>1, <2>1, <3>3, <3>4, DueType DEF Due, Phase, SInv
    <3>6. answersUDP' = Reports!Inserted(i.qid, i)
      BY <2>3 DEF Inserted, Reports!Inserted
    <3>7. Reports!Grade(i)
      <4> HIDE DEF i
      <4> QED  BY <2>1, <3>5, <3>6 DEF Reports!Grade
    <3>8. SInv'
      <4>1. \A k \in Keys : answersUDP'[k] \in {answersUDP[k], i}
        BY <1>1, <2>3, <3>2 DEF Inserted, TypeOK
      <4> HIDE DEF i
      <4> QED  BY <2>1, <3>1, <3>3, <3>4, <4>1 DEF SInv
    <3> QED  BY <3>1, <3>7, <3>8 DEF Reports!Next
  <2> QED  BY <1>10, <2>2, <2>3 DEF ProcessRQSGrade
<1> QED  BY <1>5, <1>6, <1>7, <1>8, <1>9, <1>10 DEF ProcessRQS

LEMMA ReporterAWI ==
  ASSUME TypeOK, SInv, ProcessAWIPop
  PROVE  SInv' /\ [Reports!Next]_(Reports!vars)
<1>1. {"processAWI", "answerUDP", "processRQS"} \subseteq Threads
  BY DEF Threads
<1>2. PICK d : d = Head(queue["awiRequests"])
  OBVIOUS
<1>3. /\ pc["processAWI"] = "pop" /\ UNCHANGED <<sem, iqr>>
      /\ answersUDP' = IF d \in Qid THEN [answersUDP EXCEPT ![d] = None] ELSE answersUDP
      /\ pc'["answerUDP"] = pc["answerUDP"] /\ pc'["processRQS"] = pc["processRQS"]
  BY <1>1, <1>2 DEF ProcessAWIPop, Again, Goto, TypeOK, Threads
<1>4. pc["answerUDP"] # "terminated"
  BY <1>1, <1>3 DEF SInv
<1>5. Due' = Due /\ Phase' = Phase /\ Phase # "gone"
  BY <1>3, <1>4 DEF Due, Phase, SInv
<1>6. SInv'
  <2>1. \A k \in Keys : answersUDP'[k] \in {answersUDP[k], None}
    BY <1>3 DEF TypeOK
  <2> QED  BY <1>3, <1>4, <2>1 DEF SInv
<1>7. CASE d \in Qid
  <2>1. Reports!Acknowledge(d)
    BY <1>3, <1>5, <1>7 DEF Reports!Acknowledge
  <2> QED  BY <1>6, <1>7, <2>1 DEF Reports!Next
<1>8. CASE d \notin Qid
  BY <1>3, <1>5, <1>6, <1>8 DEF Reports!vars
<1> QED  BY <1>7, <1>8

LEMMA ReporterUDP ==
  ASSUME IInv, SInv, AnswerUDP
  PROVE  SInv' /\ [Reports!Next]_(Reports!vars)
<1>1. TypeOK /\ "processRQS" \in Threads /\ "answerUDP" \in Threads /\ "answersUDP" \in Sems
  BY DEF IInv, Threads, Sems
<1>2. CASE AnswerUDPWait
  <2>1. /\ pc["answerUDP"] = "wait" /\ pc'["answerUDP"] = Woken
        /\ pc'["processRQS"] = pc["processRQS"]
        /\ UNCHANGED <<answersUDP, iqr>>
        /\ sem["answersUDP"] > 0 /\ sem'["answersUDP"] = sem["answersUDP"] - 1
    BY <1>1, <1>2 DEF AnswerUDPWait, Wait, SemWait, Goto, TypeOK, udp
  <2>2. SInv'
    BY <2>1 DEF SInv, Woken
  <2>3. CASE exit
    <3>1. /\ Phase = "idle" /\ Phase' = "done" /\ Due > 0 /\ Due' = Due - 1
      BY <1>1, <2>1, <2>3, DueType DEF Phase, Due, Woken
    <3>2. Reports!Stop
      BY <2>1, <3>1 DEF Reports!Stop
    <3> QED  BY <2>2, <3>2 DEF Reports!Next
  <2>4. CASE ~exit
    <3>1. Phase' = Phase /\ Due' = Due
      BY <1>1, <2>1, <2>4, DueType DEF Phase, Due, Woken
    <3> QED  BY <2>1, <2>2, <3>1 DEF Reports!vars
  <2> QED  BY <2>3, <2>4
<1>3. CASE AnswerUDPSend
  <2>1. PICK k \in Keys :
          /\ answersUDP[k] # None /\ iqr' = answersUDP[k]
          /\ answersUDP' = [answersUDP EXCEPT ![k] = None]
    BY <1>3 DEF AnswerUDPSend
  <2>2. /\ pc["answerUDP"] = "pop" /\ pc'["answerUDP"] = "store"
        /\ pc'["processRQS"] = pc["processRQS"] /\ UNCHANGED sem
    BY <1>1, <1>3 DEF AnswerUDPSend, Goto, TypeOK
  <2>3. answersUDP[k] \in Reportable
    BY <2>1 DEF SInv
  <2>4. SInv'
    <3>1. \A x \in Keys : answersUDP'[x] \in {answersUDP[x], None}
      BY <1>1, <2>1 DEF TypeOK
    <3> QED  BY <2>1, <2>2, <2>3, <3>1 DEF SInv
  <2>5. Phase = "idle" /\ Phase' = "sending" /\ Due > 0 /\ Due' = Due - 1
    BY <1>1, <2>2, DueType DEF Phase, Due
  <2>6. k \in Reports!Keys
    BY DEF Keys, Reports!Keys
  <2>7. PICK i \in Reportable : i = answersUDP[k]
    BY <2>3
  <2>8. Reports!Send(i)
    BY <2>1, <2>5, <2>6, <2>7 DEF Reports!Send
  <2> QED  BY <2>4, <2>8 DEF Reports!Next
<1>4. CASE AnswerUDPStore
  <2>1. /\ pc["answerUDP"] = "store" /\ pc'["answerUDP"] \in {"wait", "done"}
        /\ pc'["processRQS"] = pc["processRQS"] /\ UNCHANGED sem
        /\ answersUDP' = Reports!Inserted(EmptyKey, iqr) /\ iqr' = None
    BY <1>1, <1>4 DEF AnswerUDPStore, Again, Goto, TypeOK, Reports!Inserted
  <2>2. iqr # None /\ iqr \in Reportable
    BY <2>1 DEF IInv, LocalsOK, SInv
  <2>3. SInv'
    <3>1. \A x \in Keys : answersUDP'[x] \in {answersUDP[x], iqr}
      BY <1>1, <2>1, KeysOK DEF TypeOK, Reports!Inserted
    <3> QED  BY <2>1, <2>2, <3>1 DEF SInv
  <2>4. Phase = "sending" /\ Phase' \in {"idle", "done"} /\ Due' = Due
    BY <2>1 DEF Phase, Due
  <2>5. Reports!Store
    BY <2>1, <2>4 DEF Reports!Store
  <2> QED  BY <2>3, <2>5 DEF Reports!Next
<1> QED  BY <1>2, <1>3, <1>4 DEF AnswerUDP

LEMMA ReporterStep ==
  ASSUME IInv, SInv, [Next]_vars
  PROVE  SInv' /\ [Reports!Next]_(Reports!vars)
<1>1. TypeOK
  BY DEF IInv
<1>2. CASE Aside \/ Dies
  BY <1>1, <1>2, AsideKeeps, DiesMaps DEF Reports!Next
<1>3. CASE Tick \/ UNCHANGED vars
  <2>1. Aside
    BY <1>3 DEF Tick, vars, udp, Aside
  <2> QED  BY <1>2, <2>1
<1>4. CASE AcceptTCP \/ AcceptUDP \/ ProcessTCP \/ ProcessRQT \/ \E a \in Answerers : AnswerTCP(a)
  BY <1>1, <1>2, <1>4, AsideTCP, AsideRequests
<1>5. CASE ProcessAWI
  BY <1>1, <1>2, <1>5, AsideTCP, ReporterAWI DEF ProcessAWI
<1>6. CASE ProcessRQS \/ AnswerUDP
  BY <1>6, ReporterRQS, ReporterUDP
<1> QED  BY <1>3, <1>4, <1>5, <1>6 DEF Next

\* For any number of clients, results and acknowledgements, the server's map of
\* scores changes only as a reporter's does.
THEOREM ReporterImplemented == Spec => ImplementsReporter
<1>1. Init => SInv /\ Reports!Init
  BY TesAssumption
    DEF Init, SInv, Keys, Reports!Init, Reports!Keys, Due, Phase, Threads, Sems
<1>2. IInv /\ SInv /\ [Next]_vars => SInv' /\ [Reports!Next]_(Reports!vars)
  BY ReporterStep
<1> QED  BY <1>1, <1>2, Inductive, PTL DEF Spec, ImplementsReporter, Reports!Spec
=============================================================================
