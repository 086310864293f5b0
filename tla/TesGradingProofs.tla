-------------------------- MODULE TesGradingProofs --------------------------
(***************************************************************************)
(* What the server does for its students and reports of them, for every    *)
(* value of the constants.  TesManager implements Ledger, and so grades no *)
(* questionnaire more often than it was issued; and a questionnaire that   *)
(* was received can be handed in, is graded as it was issued, and is       *)
(* reported as it was graded.  Last, what score() makes of a sheet, which  *)
(* TesManager only assumes.                                                *)
(***************************************************************************)
EXTENDS TesLedger, TesManagerProofs, Scores

-----------------------------------------------------------------------------
(* A request is answered once: until processTCP, processRQT or processRQS  *)
(* answers it, it has no answer.                                           *)

BlankQueues == {"requests", "rqtRequests", "rqsRequests"}

Reading == {"read", "spin"}
Marking == {"lock", "find", "grade"}

AnswersOK ==
  /\ \A q \in BlankQueues : \A i \in 1..Len(queue[q]) : answer[queue[q][i]] = None
  /\ pc["processTCP"] \in Reading => answer[cur["processTCP"]] = None
  /\ pc["processRQS"] \in Marking => answer[cur["processRQS"]] = None
  /\ \A c \in Clients : client[c] = "idle" => answer[c] = None

\* processRQS holds a quiz only while it grades, or when the process is gone.
DeskOK ==
  quiz # None =>
    pc["processRQS"] \in {"grade", "terminated"} /\ cur["processRQS"] # None

LEMMA BlankConn == BlankQueues \subseteq ConnQueues
BY DEF BlankQueues, ConnQueues

\* The threads of the conjuncts above hold a connection there.
LEMMA Holding ==
  ASSUME IInv
  PROVE  /\ pc["processTCP"] \in Reading => cur["processTCP"] \in Clients
         /\ pc["processRQS"] \in Marking => cur["processRQS"] \in Clients
         /\ \A q \in ConnQueues : \A i \in 1..Len(queue[q]) : queue[q][i] \in Clients
         /\ \A t \in TcpThreads : cur[t] # None => client[cur[t]] = "open"
<1>1. \A q \in ConnQueues : \A i \in 1..Len(queue[q]) : queue[q][i] \in Clients
  BY DEF IInv, TypeOK, QueuesOK
<1>2. /\ pc["processTCP"] \in Reading => cur["processTCP"] \in Clients
      /\ pc["processRQS"] \in Marking => cur["processRQS"] \in Clients
  BY DEF IInv, CurOK, TypeOK, TcpThreads, Reading, Marking
<1>3. \A t \in TcpThreads : cur[t] # None => client[cur[t]] = "open"
  BY DEF IInv, TypeOK, OnePlace, Held
<1> QED  BY <1>1, <1>2, <1>3

\* A step that answers nobody and moves no unanswered request.
LEMMA AnswersFrame ==
  ASSUME AnswersOK, UNCHANGED answer,
         \A q \in BlankQueues : queue'[q] = queue[q],
         \A c \in Clients : client'[c] = "idle" => client[c] = "idle",
         pc'["processTCP"] \in Reading =>
           pc["processTCP"] \in Reading /\ cur'["processTCP"] = cur["processTCP"],
         pc'["processRQS"] \in Marking =>
           pc["processRQS"] \in Marking /\ cur'["processRQS"] = cur["processRQS"]
  PROVE  AnswersOK'
BY DEF AnswersOK

\* The same, made by a thread that is neither processTCP nor processRQS.
LEMMA AnswersOther ==
  ASSUME IInv, AnswersOK, UNCHANGED answer,
         NEW t \in Threads \ {"processTCP", "processRQS"}, NEW l, Goto(t, l),
         \A q \in BlankQueues : queue'[q] = queue[q],
         \A c \in Clients : client'[c] = "idle" => client[c] = "idle",
         UNCHANGED <<cur["processTCP"], cur["processRQS"]>>
  PROVE  AnswersOK'
<1>1. pc'["processTCP"] = pc["processTCP"] /\ pc'["processRQS"] = pc["processRQS"]
  BY DEF Goto, IInv, TypeOK, Threads
<1> QED  BY <1>1, AnswersFrame

LEMMA AnswersTerminate ==
  ASSUME AnswersOK, Terminate, UNCHANGED <<answer, queue, client, cur>>
  PROVE  AnswersOK'
<1>1. pc'["processTCP"] = "terminated" /\ pc'["processRQS"] = "terminated"
  BY DEF Terminate, Threads
<1> QED  BY <1>1, AnswersFrame DEF Reading, Marking

\* A step that answers c alone, when c is in no place of an unanswered request.
LEMMA AnswersReply ==
  ASSUME IInv, AnswersOK, NEW c \in Clients, NEW a, Reply(c, a), UNCHANGED client,
         client[c] = "open",
         \A q \in BlankQueues : \A i \in 1..Len(queue'[q]) :
           queue'[q][i] # c /\ \E j \in 1..Len(queue[q]) : queue'[q][i] = queue[q][j],
         pc'["processTCP"] \in Reading =>
           /\ pc["processTCP"] \in Reading
           /\ cur'["processTCP"] = cur["processTCP"] /\ cur["processTCP"] # c,
         pc'["processRQS"] \in Marking =>
           /\ pc["processRQS"] \in Marking
           /\ cur'["processRQS"] = cur["processRQS"] /\ cur["processRQS"] # c
  PROVE  AnswersOK'
<1>1. \A d \in Clients : d # c => answer'[d] = answer[d]
  BY DEF Reply, IInv, TypeOK
<1>2. \A q \in BlankQueues : \A i \in 1..Len(queue'[q]) : answer'[queue'[q][i]] = None
  BY <1>1, Holding, BlankConn DEF AnswersOK
<1>3. /\ pc'["processTCP"] \in Reading => answer'[cur'["processTCP"]] = None
      /\ pc'["processRQS"] \in Marking => answer'[cur'["processRQS"]] = None
  BY <1>1, Holding DEF AnswersOK
<1>4. \A d \in Clients : client'[d] = "idle" => answer'[d] = None
  BY <1>1 DEF AnswersOK
<1> QED  BY <1>2, <1>3, <1>4 DEF AnswersOK

\* A step that takes a request from one of the three queues: it is unanswered.
LEMMA BlankHead ==
  ASSUME IInv, AnswersOK, NEW q \in BlankQueues, Pop(q)
  PROVE  /\ Head(queue[q]) \in Clients /\ answer[Head(queue[q])] = None
         /\ client[Head(queue[q])] = "open"
         /\ \A p \in BlankQueues : \A i \in 1..Len(queue'[p]) :
              \E j \in 1..Len(queue[p]) : queue'[p][i] = queue[p][j]
<1>1. q \in ConnQueues
  BY BlankConn
<1>2. /\ Head(queue[q]) \in Clients /\ Head(queue[q]) = queue[q][1] /\ 1 \in 1..Len(queue[q])
      /\ \A p \in ConnQueues : \A i \in 1..Len(queue'[p]) :
           \E j \in 1..Len(queue[p]) : queue'[p][i] = queue[p][j]
  BY <1>1, Popped DEF IInv
<1>3. Held(Head(queue[q]))
  BY <1>1, <1>2 DEF Held
<1> QED  BY <1>2, <1>3, BlankConn DEF AnswersOK, IInv, OnePlace

LEMMA AcceptTCPAnswers ==
  ASSUME IInv, AnswersOK, AcceptTCP
  PROVE  AnswersOK'
<1> USE DEF peers, quizzes, udp
<1>1. CASE AcceptTCPBind \/ AcceptTCPPost \/ AcceptTCPFail \/ AcceptTCPWake
  <2>1. PICK l : Goto("acceptTCP", l)
    BY <1>1 DEF AcceptTCPBind, AcceptTCPPost, AcceptTCPFail, AcceptTCPWake, Again
  <2>2. UNCHANGED <<answer, queue, client, cur>>
    BY <1>1 DEF AcceptTCPBind, AcceptTCPPost, AcceptTCPFail, AcceptTCPWake
  <2> QED  BY <2>1, <2>2, AnswersOther DEF Threads
<1>2. CASE AcceptTCPInUse
  BY <1>2, AnswersTerminate DEF AcceptTCPInUse
<1>3. ASSUME NEW c \in Clients, AcceptTCPClient(c) PROVE AnswersOK'
  <2>1. /\ Push("requests", c) /\ Goto("acceptTCP", "post") /\ client[c] = "idle"
        /\ client' = [client EXCEPT ![c] = "open"] /\ UNCHANGED <<answer, cur>>
    BY <1>3 DEF AcceptTCPClient
  <2>2. /\ pc'["processTCP"] = pc["processTCP"] /\ pc'["processRQS"] = pc["processRQS"]
    BY <2>1 DEF Goto, IInv, TypeOK, Threads
  <2>3. \A p \in ConnQueues : \A i \in 1..Len(queue'[p]) :
          \/ p = "requests" /\ queue'[p][i] = c
          \/ \E j \in 1..Len(queue[p]) : queue'[p][i] = queue[p][j]
    BY <2>1, Pushed DEF IInv, ConnQueues
  <2>4. answer[c] = None
    BY <2>1 DEF AnswersOK
  <2>5. \A q \in BlankQueues : \A i \in 1..Len(queue'[q]) : answer'[queue'[q][i]] = None
    BY <2>1, <2>3, <2>4, BlankConn DEF AnswersOK
  <2>6. \A d \in Clients : client'[d] = "idle" => client[d] = "idle"
    BY <2>1 DEF IInv, TypeOK
  <2> QED  BY <2>1, <2>2, <2>5, <2>6 DEF AnswersOK
<1> QED  BY <1>1, <1>2, <1>3 DEF AcceptTCP

LEMMA ProcessTCPAnswers ==
  ASSUME IInv, AnswersOK, ProcessTCP
  PROVE  AnswersOK'
<1> USE DEF peers, quizzes, udp
<1> DEFINE c == cur["processTCP"]
<1>1. CASE ProcessTCPWait
  <2>1. pc'["processTCP"] \notin Reading /\ pc'["processRQS"] = pc["processRQS"]
    BY <1>1 DEF ProcessTCPWait, Wait, Goto, Woken, Reading, IInv, TypeOK, Threads
  <2> QED  BY <1>1, <2>1, AnswersFrame DEF ProcessTCPWait, Wait
<1>2. CASE ProcessTCPPop
  <2>1. Pop("requests") /\ UNCHANGED <<answer, client>>
    BY <1>2 DEF ProcessTCPPop
  <2>2. /\ pc'["processRQS"] = pc["processRQS"] /\ cur'["processRQS"] = cur["processRQS"]
        /\ cur'["processTCP"] = Head(queue["requests"])
    BY <1>2 DEF ProcessTCPPop, Goto, Load, IInv, TypeOK, Threads, TcpThreads
  <2>3. /\ answer[Head(queue["requests"])] = None
        /\ \A p \in BlankQueues : \A i \in 1..Len(queue'[p]) :
             \E j \in 1..Len(queue[p]) : queue'[p][i] = queue[p][j]
    BY <2>1, BlankHead DEF BlankQueues
  <2> QED  BY <2>1, <2>2, <2>3 DEF AnswersOK
<1>3. ASSUME NEW q \in {"rqtRequests", "rqsRequests"}, NEW K, Read(K, q), UNCHANGED answer
      PROVE  AnswersOK'
  <2>1. /\ Push(q, c) /\ UNCHANGED client /\ pc["processTCP"] = "read"
        /\ pc'["processTCP"] \notin Reading
        /\ pc'["processRQS"] = pc["processRQS"] /\ cur'["processRQS"] = cur["processRQS"]
    BY <1>3 DEF Read, Hand, Again, Goto, Drop, Reading, IInv, TypeOK, Threads, TcpThreads
  <2>2. c \in Clients /\ answer[c] = None
    BY <2>1, Holding DEF AnswersOK, Reading
  <2>3. \A p \in ConnQueues : \A i \in 1..Len(queue'[p]) :
          \/ queue'[p][i] = c
          \/ \E j \in 1..Len(queue[p]) : queue'[p][i] = queue[p][j]
    <3>1. q \in ConnQueues /\ TypeOK
      BY <1>3 DEF IInv, ConnQueues
    <3> HIDE DEF c
    <3> QED  BY <2>1, <2>2, <3>1, Pushed
  <2>4. \A p \in BlankQueues : \A i \in 1..Len(queue'[p]) : answer'[queue'[p][i]] = None
    BY <1>3, <2>2, <2>3, BlankConn DEF AnswersOK
  <2> QED  BY <1>3, <2>1, <2>4 DEF AnswersOK
<1>4. CASE ProcessTCPToERR \/ ProcessTCPTimedOut
  <2>1. /\ Reply(c, ERR) /\ Push("answers", c) /\ UNCHANGED client /\ pc["processTCP"] = "read"
        /\ pc'["processTCP"] \notin Reading
        /\ pc'["processRQS"] = pc["processRQS"] /\ cur'["processRQS"] = cur["processRQS"]
    BY <1>4 DEF ProcessTCPToERR, ProcessTCPTimedOut, Read, Hand, Again, Goto, Drop, Reading,
                IInv, TypeOK, Threads, TcpThreads
  <2>2. c \in Clients /\ c # None
    BY <2>1, Holding, TesAssumption DEF Reading
  <2>3. \A q \in BlankQueues : queue'[q] = queue[q]
    BY <2>1 DEF Push, IInv, TypeOK, QueuesOK, Queues, ConnQueues, BlankQueues
  <2>4. /\ \A q \in BlankQueues : \A i \in 1..Len(queue[q]) : queue[q][i] # c
        /\ cur["processRQS"] # c
    BY <2>2, Apart, BlankConn DEF IInv, TcpThreads
  <2>5. client[c] = "open"
    BY <2>2, Holding DEF TcpThreads
  <2> QED  BY <2>1, <2>2, <2>3, <2>4, <2>5, AnswersReply
<1>5. CASE ProcessTCPSpin
  <2>1. /\ pc["processTCP"] = "read" /\ pc'["processRQS"] = pc["processRQS"]
        /\ UNCHANGED <<answer, queue, client, cur>>
    BY <1>5 DEF ProcessTCPSpin, Goto, IInv, TypeOK, Threads
  <2> QED  BY <2>1, AnswersFrame DEF Reading
<1> QED  BY <1>1, <1>2, <1>3, <1>4, <1>5
  DEF ProcessTCP, ProcessTCPToRQT, ProcessTCPToRQS

LEMMA ProcessRQTAnswers ==
  ASSUME IInv, AnswersOK, ProcessRQT, IInv'
  PROVE  AnswersOK'
<1> USE DEF peers, quizzes, udp
<1>1. CASE ProcessRQTWait \/ ProcessRQTLock \/ ProcessRQTInsert
  <2>1. PICK l : Goto("processRQT", l)
    BY <1>1 DEF ProcessRQTWait, Wait, ProcessRQTLock, ProcessRQTInsert
  <2>2. UNCHANGED <<answer, queue, client, cur>>
    BY <1>1 DEF ProcessRQTWait, Wait, ProcessRQTLock, ProcessRQTInsert
  <2> QED  BY <2>1, <2>2, AnswersOther DEF Threads
<1>2. CASE ProcessRQTPop
  <2> DEFINE c == Head(queue["rqtRequests"])
  <2>1. /\ Pop("rqtRequests") /\ UNCHANGED client /\ cur'["processRQT"] = c
        /\ cur'["processTCP"] = cur["processTCP"] /\ cur'["processRQS"] = cur["processRQS"]
        /\ pc'["processTCP"] = pc["processTCP"] /\ pc'["processRQS"] = pc["processRQS"]
    BY <1>2 DEF ProcessRQTPop, Load, Goto, IInv, TypeOK, Threads, TcpThreads
  <2>2. PICK a : Reply(c, a)
    BY <1>2 DEF ProcessRQTPop
  <2>3. /\ c \in Clients /\ client[c] = "open" /\ c # None
        /\ \A p \in BlankQueues : \A i \in 1..Len(queue'[p]) :
             \E j \in 1..Len(queue[p]) : queue'[p][i] = queue[p][j]
    BY <2>1, BlankHead, TesAssumption DEF BlankQueues
  <2>4. \A p \in BlankQueues : \A i \in 1..Len(queue'[p]) : queue'[p][i] # c
    BY <2>1, BlankConn DEF IInv, OnePlace, TcpThreads
  <2>5. cur["processTCP"] # c /\ cur["processRQS"] # c
    BY <2>1, <2>3 DEF IInv, OnePlace, TcpThreads
  <2> HIDE DEF c
  <2> QED  BY <2>1, <2>2, <2>3, <2>4, <2>5, AnswersReply
<1>3. CASE ProcessRQTAnswer
  <2>1. PICK l : Goto("processRQT", l)
    BY <1>3 DEF ProcessRQTAnswer, Again
  <2>2. /\ Push("answers", cur["processRQT"]) /\ UNCHANGED <<answer, client>>
        /\ UNCHANGED <<cur["processTCP"], cur["processRQS"]>>
    BY <1>3 DEF ProcessRQTAnswer, Hand, Drop, IInv, TypeOK, TcpThreads
  <2>3. \A q \in BlankQueues : queue'[q] = queue[q]
    BY <2>2 DEF Push, IInv, TypeOK, QueuesOK, Queues, ConnQueues, BlankQueues
  <2> QED  BY <2>1, <2>2, <2>3, AnswersOther DEF Threads
<1>4. CASE ProcessRQTNoPdf
  BY <1>4, AnswersTerminate DEF ProcessRQTNoPdf
<1> QED  BY <1>1, <1>2, <1>3, <1>4 DEF ProcessRQT

LEMMA ProcessRQSAnswers ==
  ASSUME IInv, AnswersOK, ProcessRQS, IInv'
  PROVE  AnswersOK'
<1> USE DEF peers, quizzes, udp
<1>1. CASE ProcessRQSWait \/ ProcessRQSPostUDP \/ ProcessRQSPost
  <2>1. /\ pc'["processRQS"] \notin Marking /\ pc'["processTCP"] = pc["processTCP"]
        /\ UNCHANGED <<answer, queue, client, cur>>
    BY <1>1 DEF ProcessRQSWait, Wait, Woken, ProcessRQSPostUDP, ProcessRQSPost, Again, Goto,
                Marking, IInv, TypeOK, Threads
  <2> QED  BY <2>1, AnswersFrame
<1>2. CASE ProcessRQSPop
  <2> DEFINE c == Head(queue["rqsRequests"])
  <2>1. /\ Pop("rqsRequests") /\ UNCHANGED client /\ cur'["processRQS"] = c
        /\ cur'["processTCP"] = cur["processTCP"] /\ pc'["processTCP"] = pc["processTCP"]
    BY <1>2 DEF ProcessRQSPop, Load, Goto, IInv, TypeOK, Threads, TcpThreads
  <2>2. /\ c \in Clients /\ client[c] = "open" /\ c # None /\ answer[c] = None
        /\ \A p \in BlankQueues : \A i \in 1..Len(queue'[p]) :
             \E j \in 1..Len(queue[p]) : queue'[p][i] = queue[p][j]
    BY <2>1, BlankHead, TesAssumption DEF BlankQueues
  <2>3. CASE Reply(c, ERR) /\ Goto("processRQS", "answer")
    <3>1. pc'["processRQS"] \notin Marking
      BY <2>3 DEF Goto, Marking, IInv, TypeOK, Threads
    <3>2. \A p \in BlankQueues : \A i \in 1..Len(queue'[p]) : queue'[p][i] # c
      BY <2>1, BlankConn DEF IInv, OnePlace, TcpThreads
    <3>3. cur["processTCP"] # c
      BY <2>1, <2>2 DEF IInv, OnePlace, TcpThreads
    <3> HIDE DEF c
    <3> QED  BY <2>1, <2>2, <2>3, <3>1, <3>2, <3>3, AnswersReply
  <2>4. CASE UNCHANGED answer
    BY <2>1, <2>2, <2>4 DEF AnswersOK
  <2> QED  BY <1>2, <2>3, <2>4 DEF ProcessRQSPop
<1>3. CASE ProcessRQSLock
  <2>1. /\ pc["processRQS"] \in Marking /\ pc'["processTCP"] = pc["processTCP"]
        /\ UNCHANGED <<answer, queue, client, cur>>
    BY <1>3 DEF ProcessRQSLock, Goto, Marking, IInv, TypeOK, Threads
  <2> QED  BY <2>1, AnswersFrame
<1>4. CASE ProcessRQSFind \/ ProcessRQSGrade
  <2> DEFINE c == cur["processRQS"]
  <2>1. /\ UNCHANGED <<queue, client, cur>> /\ pc'["processTCP"] = pc["processTCP"]
        /\ pc["processRQS"] \in Marking
    BY <1>4 DEF ProcessRQSFind, ProcessRQSGrade, Goto, Marking, IInv, TypeOK, Threads
  <2>2. /\ c \in Clients /\ client[c] = "open" /\ c # None /\ cur["processTCP"] # c
        /\ \A q \in BlankQueues : \A i \in 1..Len(queue[q]) : queue[q][i] # c
    BY <2>1, Holding, Apart, BlankConn, TesAssumption DEF IInv, TcpThreads
  <2>3. CASE UNCHANGED answer
    BY <2>1, <2>3, AnswersFrame
  <2>4. ASSUME NEW a, Reply(c, a), pc'["processRQS"] \notin Marking PROVE AnswersOK'
    <3> HIDE DEF c
    <3> QED  BY <2>1, <2>2, <2>4, AnswersReply
  <2>5. \/ UNCHANGED answer
        \/ pc'["processRQS"] \notin Marking /\ \E a : Reply(c, a)
    BY <1>4 DEF ProcessRQSFind, ProcessRQSGrade, Goto, Marking, IInv, TypeOK, Threads
  <2> QED  BY <2>3, <2>4, <2>5
<1>5. CASE ProcessRQSAnswer
  <2>1. /\ Push("answers", cur["processRQS"]) /\ UNCHANGED <<answer, client>>
        /\ pc'["processRQS"] \notin Marking
        /\ pc'["processTCP"] = pc["processTCP"] /\ cur'["processTCP"] = cur["processTCP"]
    BY <1>5 DEF ProcessRQSAnswer, Goto, Drop, Marking, IInv, TypeOK, Threads, TcpThreads
  <2>2. \A q \in BlankQueues : queue'[q] = queue[q]
    BY <2>1 DEF Push, IInv, TypeOK, QueuesOK, Queues, ConnQueues, BlankQueues
  <2> QED  BY <2>1, <2>2, AnswersFrame
<1>6. CASE MapRace
  BY <1>6, AnswersTerminate DEF MapRace
<1> QED  BY <1>1, <1>2, <1>3, <1>4, <1>5, <1>6 DEF ProcessRQS

LEMMA UdpAnswers ==
  ASSUME IInv, AnswersOK, AcceptUDP \/ ProcessAWI \/ AnswerUDP
  PROVE  AnswersOK'
<1> USE DEF peers, quizzes, udp
<1>1. CASE AcceptUDP
  <2>1. PICK l : Goto("acceptUDP", l)
    BY <1>1 DEF AcceptUDP, AcceptUDPReceive, AcceptUDPPost, AcceptUDPLeave, Again
  <2>2. UNCHANGED <<answer, client, cur>> /\ \A q \in BlankQueues : queue'[q] = queue[q]
    BY <1>1 DEF AcceptUDP, AcceptUDPReceive, AcceptUDPPost, AcceptUDPLeave, Push, IInv, TypeOK,
                QueuesOK, Queues, ConnQueues, BlankQueues
  <2> QED  BY <2>1, <2>2, AnswersOther DEF Threads
<1>2. CASE ProcessAWI
  <2>1. PICK l : Goto("processAWI", l)
    BY <1>2 DEF ProcessAWI, ProcessAWIWait, Wait, ProcessAWIPop, Again
  <2>2. UNCHANGED <<answer, client, cur>> /\ \A q \in BlankQueues : queue'[q] = queue[q]
    BY <1>2 DEF ProcessAWI, ProcessAWIWait, Wait, ProcessAWIPop, Pop, IInv, TypeOK,
                QueuesOK, Queues, ConnQueues, BlankQueues
  <2> QED  BY <2>1, <2>2, AnswersOther DEF Threads
<1>3. CASE AnswerUDP
  <2>1. PICK l : Goto("answerUDP", l)
    BY <1>3 DEF AnswerUDP, AnswerUDPWait, Wait, AnswerUDPSend, AnswerUDPStore, Again
  <2>2. UNCHANGED <<answer, client, cur, queue>>
    BY <1>3 DEF AnswerUDP, AnswerUDPWait, Wait, AnswerUDPSend, AnswerUDPStore
  <2> QED  BY <2>1, <2>2, AnswersOther DEF Threads
<1> QED  BY <1>1, <1>2, <1>3

LEMMA AnswerTCPAnswers ==
  ASSUME IInv, AnswersOK, NEW a \in Answerers, AnswerTCP(a)
  PROVE  AnswersOK'
<1> USE DEF peers, quizzes, udp
<1>1. a \in Threads \ {"processTCP", "processRQS"} /\ a \in TcpThreads
  BY TesAssumption DEF Threads, TcpThreads
<1>2. PICK l : Goto(a, l)
  BY DEF AnswerTCP, AnswerTCPWait, Wait, AnswerTCPPop, AnswerTCPWrite, Again
<1>3. UNCHANGED <<answer, cur["processTCP"], cur["processRQS"]>>
  BY <1>1 DEF AnswerTCP, AnswerTCPWait, Wait, AnswerTCPPop, AnswerTCPWrite, Load, Drop,
              IInv, TypeOK, TcpThreads
<1>4. \A q \in BlankQueues : queue'[q] = queue[q]
  BY DEF AnswerTCP, AnswerTCPWait, Wait, AnswerTCPPop, AnswerTCPWrite, Pop, IInv, TypeOK,
         QueuesOK, Queues, ConnQueues, BlankQueues
<1>5. \A c \in Clients : client'[c] = "idle" => client[c] = "idle"
  BY DEF AnswerTCP, AnswerTCPWait, Wait, AnswerTCPPop, AnswerTCPWrite, IInv, TypeOK
<1> QED  BY <1>1, <1>2, <1>3, <1>4, <1>5, AnswersOther

\* processRQS keeps its quiz to itself.
LEMMA DeskStep ==
  ASSUME IInv, DeskOK, [Next]_vars
  PROVE  DeskOK'
<1> USE DEF peers, quizzes, udp
<1>1. CASE ProcessRQS
  BY <1>1 DEF ProcessRQS, ProcessRQSWait, Wait, Woken, ProcessRQSPop, ProcessRQSLock,
    ProcessRQSFind, ProcessRQSGrade, ProcessRQSPostUDP, ProcessRQSAnswer, ProcessRQSPost,
    MapRace, Again, Goto, Terminate, Load, Drop, DeskOK, IInv, TypeOK, CurOK, Threads,
    TcpThreads
<1>2. CASE \/ Tick \/ AcceptTCP \/ AcceptUDP \/ ProcessTCP \/ ProcessRQT \/ ProcessAWI
           \/ AnswerUDP \/ \E a \in Answerers : AnswerTCP(a)
  <2>1. UNCHANGED <<quiz, cur["processRQS"]>>
    BY <1>2, TesAssumption DEF Tick, AcceptTCP, AcceptTCPBind, AcceptTCPInUse, AcceptTCPPost, AcceptTCPFail,
      AcceptTCPWake, AcceptTCPClient, AcceptUDP, AcceptUDPReceive, AcceptUDPPost,
      AcceptUDPLeave, ProcessTCP, ProcessTCPWait, Wait, ProcessTCPPop, ProcessTCPSpin,
      ProcessTCPToRQT, ProcessTCPToRQS, ProcessTCPToERR, Read, ProcessTCPTimedOut,
      ProcessRQT, ProcessRQTWait, ProcessRQTPop, ProcessRQTLock, ProcessRQTInsert,
      ProcessRQTAnswer, ProcessRQTNoPdf, ProcessAWI, ProcessAWIWait, ProcessAWIPop,
      AnswerUDP, AnswerUDPWait, AnswerUDPSend, AnswerUDPStore,
      AnswerTCP, AnswerTCPWait, AnswerTCPPop, AnswerTCPWrite,
      Load, Drop, IInv, TypeOK, TcpThreads
  <2>2. pc'["processRQS"] \in {pc["processRQS"], "terminated"}
    BY <1>2, TesAssumption DEF Tick, AcceptTCP, AcceptTCPBind, AcceptTCPInUse, AcceptTCPPost,
      AcceptTCPFail, AcceptTCPWake, AcceptTCPClient, AcceptUDP, AcceptUDPReceive,
      AcceptUDPPost, AcceptUDPLeave, ProcessTCP, ProcessTCPWait, Wait, ProcessTCPPop,
      ProcessTCPSpin, ProcessTCPToRQT, ProcessTCPToRQS, ProcessTCPToERR, Read,
      ProcessTCPTimedOut, ProcessRQT, ProcessRQTWait, ProcessRQTPop, ProcessRQTLock,
      ProcessRQTInsert, ProcessRQTAnswer, ProcessRQTNoPdf, ProcessAWI, ProcessAWIWait,
      ProcessAWIPop, AnswerUDP, AnswerUDPWait, AnswerUDPSend, AnswerUDPStore,
      AnswerTCP, AnswerTCPWait, AnswerTCPPop, AnswerTCPWrite,
      Again, Goto, Terminate, IInv, TypeOK, Threads
  <2> QED  BY <2>1, <2>2 DEF DeskOK
<1>3. CASE UNCHANGED vars
  BY <1>3 DEF vars, DeskOK
<1> QED  BY <1>1, <1>2, <1>3 DEF Next

LInv == IInv /\ AnswersOK /\ DeskOK

\* The invariant the refinement needs.
THEOREM LedgerInductive == Spec => []LInv
<1>1. Init => LInv
  <2> SUFFICES ASSUME Init PROVE LInv
    OBVIOUS
  <2>1. AnswersOK /\ DeskOK
    BY DEF Init, AnswersOK, DeskOK, BlankQueues, Reading, Marking, Queues, ConnQueues, Threads
  <2> QED  BY <2>1, InitInv DEF LInv
<1>2. LInv /\ IInv' /\ [Next]_vars => LInv'
  <2> SUFFICES ASSUME IInv, AnswersOK, DeskOK, IInv', [Next]_vars PROVE AnswersOK'
    BY DeskStep DEF LInv
  <2>1. CASE Tick \/ UNCHANGED vars
    BY <2>1, AnswersFrame DEF Tick, vars
  <2>2. CASE AcceptTCP
    BY <2>2, AcceptTCPAnswers
  <2>3. CASE AcceptUDP \/ ProcessAWI \/ AnswerUDP
    BY <2>3, UdpAnswers
  <2>4. CASE ProcessTCP
    BY <2>4, ProcessTCPAnswers
  <2>5. CASE ProcessRQT
    BY <2>5, ProcessRQTAnswers
  <2>6. CASE ProcessRQS
    BY <2>6, ProcessRQSAnswers
  <2>7. ASSUME NEW a \in Answerers, AnswerTCP(a) PROVE AnswersOK'
    BY <2>7, AnswerTCPAnswers
  <2> QED  BY <2>1, <2>2, <2>3, <2>4, <2>5, <2>6, <2>7 DEF Next
<1> QED  BY <1>1, <1>2, Inductive, PTL DEF Spec

-----------------------------------------------------------------------------
(* Each step is a step of the ledger, or none.                             *)

\* What a step does to the mapped state.
LEMMA SeenReply ==
  ASSUME IInv, NEW c \in Clients, answer[c] = None, NEW a \in Answer, Reply(c, a)
  PROVE  /\ a # ERR => Promise!Tell(c, a)
         /\ a = ERR => UNCHANGED Seen
<1>1. ToldOf(None) = None /\ ToldOf(ERR) = None
  BY TesAssumption DEF ToldOf, Answer
<1>2. answer' = [answer EXCEPT ![c] = a] /\ DOMAIN answer = Clients
  BY DEF Reply, IInv, TypeOK
<1>3. Seen[c] = None
  BY <1>1 DEF Seen
<1>4. Seen' = [d \in Clients |-> IF d = c THEN ToldOf(a) ELSE Seen[d]]
  BY <1>2 DEF Seen, ToldOf
<1> QED  BY <1>1, <1>3, <1>4 DEF Promise!Tell, Seen, ToldOf

LEMMA SameSeen ==
  ASSUME UNCHANGED answer
  PROVE  UNCHANGED Seen
BY DEF Seen, ToldOf

LEMMA LedgerStutter ==
  ASSUME UNCHANGED <<now, Seen, Filing, questionaries, Desk>>
  PROVE  [Promise!Next]_(Promise!vars)
BY DEF Promise!vars

\* A step of a thread other than processRQT and processRQS.
LEMMA LedgerOther ==
  ASSUME LInv, UNCHANGED <<now, Seen, questionaries, quiz>>,
         NEW t \in Threads \ {"processRQT", "processRQS"}, NEW l, Goto(t, l),
         UNCHANGED <<cur["processRQT"], cur["processRQS"]>>,
         \A c \in Clients : c = cur["processRQS"] => line'[c] = line[c]
  PROVE  [Promise!Next]_(Promise!vars)
<1>1. pc'["processRQT"] = pc["processRQT"]
  BY DEF Goto, LInv, IInv, TypeOK, Threads
<1>2. UNCHANGED Filing
  BY <1>1 DEF Filing
<1>3. quiz # None => cur["processRQS"] \in Clients
  BY DEF LInv, DeskOK, IInv, TypeOK, TcpThreads
<1>4. UNCHANGED Desk
  BY <1>3 DEF Desk
<1> QED  BY <1>2, <1>4, LedgerStutter

\* The process is gone, perhaps with a questionnaire dealt and not yet open.
LEMMA LedgerTerminate ==
  ASSUME LInv, Terminate, UNCHANGED <<now, line, answer, questionaries, quiz, cur>>
  PROVE  [Promise!Next]_(Promise!vars)
<1>1. UNCHANGED Seen /\ UNCHANGED Desk
  BY SameSeen DEF Desk
<1>2. Filing' = None
  BY DEF Filing, Terminate, Threads
<1>3. CASE Filing = None
  BY <1>1, <1>2, <1>3, LedgerStutter
<1>4. CASE Filing # None
  <2>1. Promise!Mislay
    BY <1>1, <1>2, <1>4 DEF Promise!Mislay
  <2> QED  BY <2>1 DEF Promise!Next
<1> QED  BY <1>3, <1>4

LEMMA LedgerTick ==
  ASSUME LInv, Tick
  PROVE  [Promise!Next]_(Promise!vars)
<1>1. UNCHANGED <<Seen, Filing, Desk>>
  BY SameSeen DEF Tick, Filing, Desk, quizzes
<1>2. Promise!Tick
  BY <1>1 DEF Tick, Promise!Tick, quizzes
<1> QED  BY <1>2 DEF Promise!Next

LEMMA LedgerTCP ==
  ASSUME LInv, AcceptTCP \/ ProcessTCP
  PROVE  [Promise!Next]_(Promise!vars)
<1> USE DEF peers, quizzes, udp
<1>1. CASE AcceptTCPBind \/ AcceptTCPPost \/ AcceptTCPFail \/ AcceptTCPWake
           \/ \E c \in Clients : AcceptTCPClient(c)
  <2>1. PICK l : Goto("acceptTCP", l)
    BY <1>1 DEF AcceptTCPBind, AcceptTCPPost, AcceptTCPFail, AcceptTCPWake, AcceptTCPClient, Again
  <2>2. UNCHANGED <<now, line, answer, questionaries, quiz, cur>>
    BY <1>1 DEF AcceptTCPBind, AcceptTCPPost, AcceptTCPFail, AcceptTCPWake, AcceptTCPClient
  <2> QED  BY <2>1, <2>2, SameSeen, LedgerOther DEF Threads
<1>2. CASE AcceptTCPInUse
  BY <1>2, LedgerTerminate DEF AcceptTCPInUse
<1>3. CASE ProcessTCP
  <2>1. PICK l : Goto("processTCP", l)
    BY <1>3 DEF ProcessTCP, ProcessTCPWait, Wait, ProcessTCPPop, ProcessTCPSpin,
      ProcessTCPToRQT, ProcessTCPToRQS, ProcessTCPToERR, Read, ProcessTCPTimedOut, Again
  <2>2. /\ UNCHANGED <<now, questionaries, quiz>>
        /\ UNCHANGED <<cur["processRQT"], cur["processRQS"]>>
    BY <1>3 DEF ProcessTCP, ProcessTCPWait, Wait, ProcessTCPPop, ProcessTCPSpin,
      ProcessTCPToRQT, ProcessTCPToRQS, ProcessTCPToERR, Read, ProcessTCPTimedOut,
      Load, Drop, LInv, IInv, TypeOK, TcpThreads
  <2>3. \/ UNCHANGED line
        \/ pc["processTCP"] = "read" /\ \E x : line' = [line EXCEPT ![cur["processTCP"]] = x]
    BY <1>3 DEF ProcessTCP, ProcessTCPWait, Wait, ProcessTCPPop, ProcessTCPSpin,
      ProcessTCPToRQT, ProcessTCPToRQS, ProcessTCPToERR, Read, ProcessTCPTimedOut
  <2>4. pc["processTCP"] = "read" => cur["processTCP"] \in Clients /\ cur["processTCP"] # None
    BY Holding, TesAssumption DEF LInv, Reading
  <2>5. \A c \in Clients : c = cur["processRQS"] => line'[c] = line[c]
    BY <2>3, <2>4, Apart DEF LInv, IInv, TypeOK, TcpThreads
  <2>6. UNCHANGED Seen
    <3>1. \/ UNCHANGED answer
          \/ pc["processTCP"] = "read" /\ Reply(cur["processTCP"], ERR)
      <4>1. ProcessTCPToERR => pc["processTCP"] = "read" /\ Reply(cur["processTCP"], ERR)
        BY DEF ProcessTCPToERR, Read
      <4>2. ProcessTCPTimedOut => pc["processTCP"] = "read" /\ Reply(cur["processTCP"], ERR)
        BY DEF ProcessTCPTimedOut
      <4>3. (\/ ProcessTCPWait \/ ProcessTCPPop \/ ProcessTCPSpin
             \/ ProcessTCPToRQT \/ ProcessTCPToRQS) => UNCHANGED answer
        BY DEF ProcessTCPWait, Wait, ProcessTCPPop, ProcessTCPSpin, ProcessTCPToRQT,
               ProcessTCPToRQS
      <4> QED  BY <1>3, <4>1, <4>2, <4>3 DEF ProcessTCP
    <3>2. pc["processTCP"] = "read" => answer[cur["processTCP"]] = None /\ ERR \in Answer
      BY DEF LInv, AnswersOK, Reading, Answer
    <3> QED  BY <2>4, <3>1, <3>2, SameSeen, SeenReply DEF LInv
  <2> QED  BY <2>1, <2>2, <2>5, <2>6, LedgerOther DEF Threads
<1> QED  BY <1>1, <1>2, <1>3 DEF AcceptTCP

LEMMA LedgerUdpAnswer ==
  ASSUME LInv, AcceptUDP \/ ProcessAWI \/ AnswerUDP \/ \E a \in Answerers : AnswerTCP(a)
  PROVE  [Promise!Next]_(Promise!vars)
<1> USE DEF peers, quizzes, udp
<1>1. PICK t \in Threads \ {"processRQT", "processRQS"} : \E l : Goto(t, l)
  BY TesAssumption
    DEF AcceptUDP, AcceptUDPReceive, AcceptUDPPost, AcceptUDPLeave, ProcessAWI, ProcessAWIWait,
      Wait, ProcessAWIPop, AnswerUDP, AnswerUDPWait, AnswerUDPSend, AnswerUDPStore, AnswerTCP,
      AnswerTCPWait, AnswerTCPPop, AnswerTCPWrite, Again, Threads
<1>2. UNCHANGED <<now, line, answer, questionaries, quiz, cur["processRQT"], cur["processRQS"]>>
  BY TesAssumption
    DEF AcceptUDP, AcceptUDPReceive, AcceptUDPPost, AcceptUDPLeave, ProcessAWI, ProcessAWIWait,
      Wait, ProcessAWIPop, AnswerUDP, AnswerUDPWait, AnswerUDPSend, AnswerUDPStore, AnswerTCP,
      AnswerTCPWait, AnswerTCPPop, AnswerTCPWrite, Load, Drop, LInv, IInv, TypeOK, TcpThreads
<1> QED  BY <1>1, <1>2, SameSeen, LedgerOther

LEMMA LedgerRQT ==
  ASSUME LInv, ProcessRQT
  PROVE  [Promise!Next]_(Promise!vars)
<1> USE DEF peers, quizzes, udp
<1> DEFINE t == "processRQT"
<1>1. ASSUME UNCHANGED <<now, line, questionaries, quiz, cur["processRQS"]>>
      PROVE  UNCHANGED Desk
  BY <1>1 DEF Desk
<1>2. CASE ProcessRQTWait \/ ProcessRQTLock \/ ProcessRQTAnswer
  <2>1. UNCHANGED <<now, line, answer, questionaries, quiz, cur["processRQS"]>>
    BY <1>2 DEF ProcessRQTWait, Wait, ProcessRQTLock, ProcessRQTAnswer, Drop, LInv, IInv,
                TypeOK, TcpThreads
  <2>2. UNCHANGED Filing
    BY <1>2 DEF ProcessRQTWait, Wait, Woken, ProcessRQTLock, ProcessRQTAnswer, Again, Goto,
                Filing, LInv, IInv, TypeOK, Threads
  <2> QED  BY <2>1, <2>2, <1>1, SameSeen, LedgerStutter
<1>3. CASE ProcessRQTPop
  <2> DEFINE c == Head(queue["rqtRequests"])
  <2>1. /\ UNCHANGED <<now, line, questionaries, quiz, cur["processRQS"]>>
        /\ Pop("rqtRequests") /\ cur'[t] = c /\ pc[t] = "pop"
    BY <1>3 DEF ProcessRQTPop, Load, LInv, IInv, TypeOK, TcpThreads
  <2>2. c \in Clients /\ answer[c] = None /\ UNCHANGED Desk
    BY <1>1, <2>1, BlankHead DEF BlankQueues, LInv
  <2>3. CASE Reply(c, ERR) /\ Goto(t, "answer")
    <3>1. UNCHANGED Filing
      BY <2>1, <2>3 DEF Filing, Goto, LInv, IInv, TypeOK, Threads
    <3>2. UNCHANGED Seen
      BY <2>2, <2>3, SeenReply DEF Answer, LInv
    <3> QED  BY <2>1, <2>2, <3>1, <3>2, LedgerStutter
  <2>4. ASSUME NEW f \in Files, line[c].kind = "RQT", Goto(t, "lock"),
               Reply(c, AQT(<<line[c].sid, now>>, now + Window, f))
        PROVE  [Promise!Next]_(Promise!vars)
    <3>1. line[c].sid \in Sids
      <4>1. /\ c = queue["rqtRequests"][1] /\ 1 \in 1..Len(queue["rqtRequests"])
            /\ "rqtRequests" \in ConnQueues
        BY <2>1, Popped DEF LInv, IInv, ConnQueues
      <4>2. Fits("rqtRequests", line[c])
        BY <4>1 DEF LInv, IInv, LinesOK
      <4>3. line[c] \in Line
        BY <2>2, <4>2 DEF Fits, LInv, IInv, TypeOK
      <4> QED  BY <2>4, <4>3 DEF Line
    <3>2. PICK s \in Sids : s = line[c].sid
      BY <3>1
    <3>3. AQT(<<s, now>>, now + Window, f) \in Answer
      BY RQTAnswer DEF LInv, IInv
    <3>4. Promise!Tell(c, AQT(<<s, now>>, now + Window, f))
      <4>1. AQT(<<s, now>>, now + Window, f) # ERR
        BY DEF AQT, ERR
      <4> HIDE DEF c
      <4> QED  BY <2>2, <2>4, <3>2, <3>3, <4>1, SeenReply DEF LInv
    <3>5. Filing = None /\ Filing' = c
      BY <2>1, <2>4 DEF Filing, Goto, LInv, IInv, TypeOK, Threads
    <3>6. Promise!Deal(c, s, f)
      BY <2>1, <2>2, <3>4, <3>5 DEF Promise!Deal, AQT, Promise!AQT
    <3> QED  BY <2>2, <3>6 DEF Promise!Next
  <2> QED  BY <1>3, <2>3, <2>4 DEF ProcessRQTPop
<1>4. CASE ProcessRQTInsert
  <2> DEFINE c == cur[t]
  <2>1. /\ UNCHANGED <<now, line, answer, quiz, cur>> /\ pc[t] = "insert"
        /\ Filing = c /\ Filing' = None /\ UNCHANGED Seen
    BY <1>4, SameSeen DEF ProcessRQTInsert, Goto, Filing, LInv, IInv, TypeOK, Threads
  <2>2. UNCHANGED Desk
    BY <2>1 DEF Desk
  <2>3. c \in Clients /\ c # None /\ Answered(c, "AQT")
    BY <2>1, TesAssumption DEF LInv, IInv, LocalsOK, CurOK, TypeOK, TcpThreads
  <2>4. Seen[c] = answer[c]
    BY <2>3 DEF Seen, ToldOf, Answered, ERR
  <2>5. CASE questionaries' = [questionaries EXCEPT ![answer[c].qid] =
                [sid |-> answer[c].qid[1], deadline |-> answer[c].deadline,
                 file |-> answer[c].file]]
    <3>1. Promise!File(c)
      BY <2>1, <2>2, <2>4, <2>5 DEF Promise!File
    <3> QED  BY <2>3, <3>1 DEF Promise!Next
  <2>6. CASE UNCHANGED questionaries
    <3>1. Promise!Mislay
      BY <2>1, <2>2, <2>3, <2>6 DEF Promise!Mislay
    <3> QED  BY <3>1 DEF Promise!Next
  <2> QED  BY <1>4, <2>5, <2>6 DEF ProcessRQTInsert
<1>5. CASE ProcessRQTNoPdf
  BY <1>5, LedgerTerminate DEF ProcessRQTNoPdf
<1> QED  BY <1>2, <1>3, <1>4, <1>5 DEF ProcessRQT

\* What Mark gives is what the ledger's MarkOf gives, and is a score.
LEMMA MarkFits ==
  ASSUME IInv, NEW l \in Line, l.kind = "RQS", NEW z \in Quiz
  PROVE  /\ Mark(l, z) = Promise!MarkOf(z, l.sid, l.sheet)
         /\ AQS(l.qid, Mark(l, z)) \in Answer
<1>1. l.sid \in Sids /\ l.qid \in Qid /\ l.sheet \in Sheets /\ z.file \in Files
  BY DEF Line, Quiz
<1>2. Score[<<l.sheet, z.file>>] \in 0..100
  BY <1>1, TesAssumption
<1>3. Mark(l, z) \in -2..100
  BY <1>2 DEF Mark
<1>4. AQS(l.qid, Mark(l, z)) \in Answer
  BY <1>1, <1>3 DEF AQS, Answer
<1> QED  BY <1>4 DEF Mark, Promise!MarkOf

LEMMA LedgerRQS ==
  ASSUME LInv, ProcessRQS
  PROVE  [Promise!Next]_(Promise!vars)
<1> USE DEF peers, quizzes, udp
<1> DEFINE t == "processRQS"
           c == cur[t]
<1>0. /\ UNCHANGED <<now, line, cur["processRQT"]>>
      /\ ~MapRace => pc'["processRQT"] = pc["processRQT"]
  BY DEF ProcessRQS, ProcessRQSWait, Wait, ProcessRQSPop, ProcessRQSLock, ProcessRQSFind,
    ProcessRQSGrade, ProcessRQSPostUDP, ProcessRQSAnswer, ProcessRQSPost, MapRace, Again,
    Goto, Load, Drop, LInv, IInv, TypeOK, Threads, TcpThreads
<1>1. ~MapRace => UNCHANGED Filing
  BY <1>0 DEF Filing
<1>2. CASE MapRace
  BY <1>2, LedgerTerminate DEF MapRace
<1>3. ASSUME ~MapRace, UNCHANGED <<Seen, questionaries, quiz>>, quiz = None
      PROVE  [Promise!Next]_(Promise!vars)
  <2>1. UNCHANGED Desk
    BY <1>3 DEF Desk
  <2> QED  BY <1>0, <1>1, <1>3, <2>1, LedgerStutter
<1>4. CASE ~MapRace /\ (ProcessRQSWait \/ ProcessRQSLock \/ ProcessRQSPostUDP
                         \/ ProcessRQSAnswer \/ ProcessRQSPost)
  <2>1. quiz = None /\ UNCHANGED <<answer, questionaries, quiz>>
    BY <1>4 DEF ProcessRQSWait, Wait, ProcessRQSLock, ProcessRQSPostUDP, ProcessRQSAnswer,
                ProcessRQSPost, LInv, DeskOK
  <2> QED  BY <1>3, <1>4, <2>1, SameSeen
<1>5. CASE ~MapRace /\ ProcessRQSPop
  <2> DEFINE h == Head(queue["rqsRequests"])
  <2>1. /\ quiz = None /\ UNCHANGED <<questionaries, quiz>> /\ Pop("rqsRequests")
        /\ UNCHANGED answer \/ Reply(h, ERR)
    BY <1>5 DEF ProcessRQSPop, LInv, DeskOK
  <2>2. h \in Clients /\ answer[h] = None
    BY <2>1, BlankHead DEF BlankQueues, LInv
  <2>3. UNCHANGED Seen
    <3>1. CASE Reply(h, ERR)
      BY <2>2, <3>1, SeenReply DEF Answer, LInv
    <3> QED  BY <2>1, <3>1, SameSeen
  <2> QED  BY <1>3, <1>5, <2>1, <2>3
<1>6. CASE ~MapRace /\ (ProcessRQSFind \/ ProcessRQSGrade)
  <2> DEFINE l == line[c]
             q == l.qid
  <2>1. /\ c \in Clients /\ answer[c] = None /\ UNCHANGED cur
        /\ l \in Line /\ l.kind = "RQS"
    BY <1>6, Holding, TesAssumption
      DEF ProcessRQSFind, ProcessRQSGrade, LInv, AnswersOK, IInv, LinesOK, TypeOK, Marking
  <2>2. q \in Qid /\ l.sid \in Sids /\ l.sheet \in Sheets
    BY <2>1 DEF Line
  <2>3. CASE /\ ProcessRQSFind /\ questionaries[q] = None /\ Reply(c, AQS(q, -2))
             /\ UNCHANGED <<questionaries, quiz>>
    <3>1. AQS(q, -2) \in Answer /\ AQS(q, -2) # ERR
      BY <2>2 DEF AQS, Answer, ERR
    <3>2. Promise!Tell(c, AQS(q, -2))
      <4> HIDE DEF q, c
      <4> QED  BY <2>1, <2>3, <3>1, SeenReply DEF LInv
    <3>3. UNCHANGED Desk
      BY <1>0, <2>1, <2>3 DEF Desk, ProcessRQSFind, LInv, DeskOK
    <3>4. Promise!Refuse(c, q)
      BY <1>0, <1>1, <1>6, <2>3, <3>2, <3>3 DEF Promise!Refuse, AQS, Promise!AQS
    <3>5. q \in Promise!Qid
      BY <2>2 DEF Qid, Time, Promise!Qid, Promise!Time
    <3> HIDE DEF q, c
    <3> QED  BY <2>1, <3>4, <3>5 DEF Promise!Next
  <2>4. CASE /\ ProcessRQSFind /\ questionaries[q] # None /\ quiz' = questionaries[q]
             /\ questionaries' = Erased(q) /\ UNCHANGED answer
    <3>1. Desk = None /\ Desk' = [qid |-> q, quiz |-> questionaries[q]]
      BY <1>0, <2>1, <2>4 DEF Desk, ProcessRQSFind, LInv, DeskOK
    <3>2. Promise!Take(q)
      BY <1>0, <1>1, <1>6, <2>4, <3>1, SameSeen DEF Promise!Take, Erased
    <3>3. q \in Promise!Qid
      BY <2>2 DEF Qid, Time, Promise!Qid, Promise!Time
    <3> HIDE DEF q
    <3> QED  BY <3>2, <3>3 DEF Promise!Next
  <2>5. CASE ProcessRQSGrade
    <3>1. quiz # None /\ quiz \in Quiz /\ quiz' = None
      BY <2>5 DEF ProcessRQSGrade, LInv, IInv, LocalsOK, TypeOK
    <3>2. /\ Reply(c, AQS(q, Mark(l, quiz))) /\ UNCHANGED questionaries
      BY <2>5 DEF ProcessRQSGrade
    <3>3. /\ Mark(l, quiz) = Promise!MarkOf(quiz, l.sid, l.sheet)
          /\ AQS(q, Mark(l, quiz)) \in Answer
      <4> HIDE DEF c
      <4> QED  BY <2>1, <3>1, MarkFits DEF LInv
    <3>4. AQS(q, Mark(l, quiz)) # ERR
      BY DEF AQS, ERR
    <3>5. Promise!Tell(c, AQS(q, Mark(l, quiz)))
      <4> HIDE DEF q, l, c
      <4> QED  BY <2>1, <3>2, <3>3, <3>4, SeenReply DEF LInv
    <3>6. Desk = [qid |-> q, quiz |-> quiz] /\ Desk # None /\ Desk' = None
      <4>1. [qid |-> q, quiz |-> quiz] \in [qid : Qid, quiz : Quiz]
        BY <2>2, <3>1
      <4> QED  BY <3>1, <4>1, LedgerNone DEF Desk
    <3>7. PICK s \in Sids, sheet \in Sheets : s = l.sid /\ sheet = l.sheet
      BY <2>2
    <3>8. Promise!Mark(c, s, sheet)
      BY <1>0, <1>1, <1>6, <3>2, <3>3, <3>5, <3>6, <3>7 DEF Promise!Mark, AQS, Promise!AQS
    <3> QED  BY <2>1, <3>8 DEF Promise!Next
  <2> QED  BY <1>6, <2>3, <2>4, <2>5 DEF ProcessRQSFind
<1> QED  BY <1>2, <1>4, <1>5, <1>6 DEF ProcessRQS

\* Whatever the number of clients and of answerTCP threads and their
\* interleaving, the server does what the ledger allows.
THEOREM Implements == Spec => ImplementsLedger
<1>1. Init => Promise!Init
  BY TesAssumption
    DEF Init, Promise!Init, Seen, ToldOf, ERR, Answer, Filing, Desk, Threads,
        Qid, Promise!Qid, Time, Promise!Time
<1>2. LInv /\ [Next]_vars => [Promise!Next]_(Promise!vars)
  <2> SUFFICES ASSUME LInv, [Next]_vars PROVE [Promise!Next]_(Promise!vars)
    OBVIOUS
  <2>1. CASE Tick
    BY <2>1, LedgerTick
  <2>2. CASE AcceptTCP \/ ProcessTCP
    BY <2>2, LedgerTCP
  <2>3. CASE AcceptUDP \/ ProcessAWI \/ AnswerUDP \/ \E a \in Answerers : AnswerTCP(a)
    BY <2>3, LedgerUdpAnswer
  <2>4. CASE ProcessRQT
    BY <2>4, LedgerRQT
  <2>5. CASE ProcessRQS
    BY <2>5, LedgerRQS
  <2>6. CASE UNCHANGED vars
    BY <2>6, SameSeen, LedgerStutter DEF vars, Filing, Desk
  <2> QED  BY <2>1, <2>2, <2>3, <2>4, <2>5, <2>6 DEF Next
<1> QED  BY <1>1, <1>2, LedgerInductive, PTL DEF Spec, ImplementsLedger, Promise!Spec

\* What LedgerProofs shows of a ledger, for the one that is implemented here.
Facts == INSTANCE LedgerProofs WITH
  told   <- Seen,
  filing <- Filing,
  open   <- questionaries,
  desk   <- Desk

LEMMA LedgerFacts == Promise!Spec => []Facts!LInv
<1>1. Facts!ConstantsOK
  BY TesAssumption, LedgerNone
    DEF Facts!ConstantsOK, Facts!Told, Facts!Quiz, Facts!Qid, Facts!Time, Answer, Quiz,
        Qid, Time
<1>2. Facts!Spec => []Facts!LInv
  BY <1>1, Facts!LedgerInvariant, PTL
<1>3. Promise!Init => Facts!Init
  BY DEF Promise!Init, Facts!Init, Promise!Qid, Facts!Qid, Promise!Time, Facts!Time
<1>4. Promise!Next => Facts!Next
  BY DEF Promise!Next, Facts!Next, Promise!Tick, Facts!Tick, Promise!Deal, Facts!Deal,
    Promise!File, Facts!File, Promise!Mislay, Facts!Mislay, Promise!Refuse, Facts!Refuse,
    Promise!Take, Facts!Take, Promise!Mark, Facts!Mark, Promise!MarkOf, Facts!MarkOf,
    Promise!Tell, Facts!Tell, Promise!AQT, Facts!AQT, Promise!AQS, Facts!AQS,
    Promise!Qid, Facts!Qid, Promise!Time, Facts!Time
<1>5. [Promise!Next]_(Promise!vars) => [Facts!Next]_(Facts!vars)
  BY <1>4 DEF Promise!vars, Facts!vars
<1> QED  BY <1>2, <1>3, <1>5, PTL DEF Promise!Spec, Facts!Spec

\* The operators of FiniteSets are the same on both sides.
LEMMA SameCardinality ==
  ASSUME NEW S
  PROVE  /\ Facts!IsFiniteSet(S) <=> IsFiniteSet(S)
         /\ Facts!Cardinality(S) = Cardinality(S)
<1>1. Facts!IsFiniteSet(S) <=> IsFiniteSet(S)
  BY DEF Facts!IsFiniteSet, IsFiniteSet
<1>2. Facts!Cardinality(S) = Cardinality(S)
  BY Zenon DEF Facts!Cardinality, Cardinality
<1> QED  BY <1>1, <1>2

\* The ledger's questionnaires and marks are the server's.
LEMMA SameSets ==
  ASSUME NEW q \in Qid
  PROVE  /\ Facts!Dealt(q) = Issued(q)
         /\ Facts!Marked(q) = {c \in Graded : answer[c].qid = q}
         /\ Facts!Qid = Qid
<1>1. /\ \A c \in Clients : Seen[c] = IF answer[c] = ERR THEN None ELSE answer[c]
      /\ ERR.kind = "ERR"
  BY DEF Seen, ToldOf, ERR
<1>2. Facts!Dealt(q) = Issued(q)
  BY <1>1 DEF Facts!Dealt, Issued, Answered
<1>3. Facts!Marked(q) = {c \in Graded : answer[c].qid = q}
  BY <1>1 DEF Facts!Marked, Graded, Answered
<1> QED  BY <1>2, <1>3 DEF Facts!Qid, Facts!Time, Qid, Time

\* For any number of clients and threads, no questionnaire is graded more often
\* than it was issued: the server inherits it from the ledger.
THEOREM GradedOnceAlways == Spec => []GradedOnce
<1>1. Facts!LInv => GradedOnce
  <2> SUFFICES ASSUME Facts!LInv, NEW q \in Qid
               PROVE  Cardinality({c \in Graded : answer[c].qid = q})
                        + (IF questionaries[q] # None /\ pc["processRQT"] # "insert"
                           THEN 1 ELSE 0)
                        <= Cardinality(Issued(q))
    BY DEF GradedOnce
  <2> DEFINE m == Cardinality(Facts!Marked(q))
             d == Cardinality(Facts!Dealt(q))
  <2>1. /\ IsFiniteSet(Facts!Marked(q)) /\ IsFiniteSet(Facts!Dealt(q))
        /\ m + Facts!Open(q) + Facts!AtDesk(q) + Facts!Filing(q) <= d
    BY SameSets, SameCardinality DEF Facts!LInv, Facts!Balance
  <2>2. m \in Nat /\ d \in Nat
    BY <2>1, FS_CardinalityType
  <2>3. /\ Facts!Open(q) = IF questionaries[q] # None THEN 1 ELSE 0
        /\ Facts!AtDesk(q) \in {0, 1} /\ Facts!Filing(q) \in {0, 1}
    BY DEF Facts!Open, Facts!AtDesk, Facts!Filing
  <2>4. m + (IF questionaries[q] # None /\ pc["processRQT"] # "insert" THEN 1 ELSE 0) <= d
    <3> HIDE DEF m, d
    <3> QED  BY <2>1, <2>2, <2>3
  <2> QED  BY <2>4, SameSets
<1> QED  BY <1>1, LedgerFacts, Implements, PTL DEF ImplementsLedger

-----------------------------------------------------------------------------
(* What a step does to the lines and the answers.                          *)

\* A line is read once, from a connection that has no answer yet.
LEMMA LineSteps ==
  ASSUME LInv, [Next]_vars
  PROVE  \/ UNCHANGED line
         \/ \E c \in Clients : \E x : /\ line[c] = None /\ answer[c] = None
                                      /\ line' = [line EXCEPT ![c] = x]
<1> USE DEF peers, quizzes, udp
<1>1. CASE ProcessTCP
  <2>1. \/ UNCHANGED line
        \/ pc["processTCP"] = "read" /\ \E x : line' = [line EXCEPT ![cur["processTCP"]] = x]
    BY <1>1 DEF ProcessTCP, ProcessTCPWait, Wait, ProcessTCPPop, ProcessTCPSpin,
      ProcessTCPToRQT, ProcessTCPToRQS, ProcessTCPToERR, Read, ProcessTCPTimedOut
  <2>2. pc["processTCP"] = "read" =>
          /\ cur["processTCP"] \in Clients
          /\ line[cur["processTCP"]] = None /\ answer[cur["processTCP"]] = None
    BY Holding DEF LInv, IInv, LinesOK, AnswersOK, Reading
  <2> QED  BY <2>1, <2>2
<1>2. CASE ~ProcessTCP
  BY <1>2 DEF Next, vars, Tick, AcceptTCP, AcceptTCPBind, AcceptTCPInUse, AcceptTCPPost,
    AcceptTCPFail, AcceptTCPWake, AcceptTCPClient, AcceptUDP, AcceptUDPReceive, AcceptUDPPost,
    AcceptUDPLeave, ProcessRQT, ProcessRQTWait, Wait, ProcessRQTPop, ProcessRQTLock,
    ProcessRQTInsert, ProcessRQTAnswer, ProcessRQTNoPdf, ProcessRQS, ProcessRQSWait,
    ProcessRQSPop, ProcessRQSLock, ProcessRQSFind, ProcessRQSGrade, ProcessRQSPostUDP,
    ProcessRQSAnswer, ProcessRQSPost, MapRace, ProcessAWI, ProcessAWIWait, ProcessAWIPop,
    AnswerUDP, AnswerUDPWait, AnswerUDPSend, AnswerUDPStore, AnswerTCP, AnswerTCPWait,
    AnswerTCPPop, AnswerTCPWrite
<1> QED  BY <1>1, <1>2

\* The four ways a request is answered, each of a request without an answer.
Rejects == \E c \in Clients : answer[c] = None /\ Reply(c, ERR)

Deals ==
  \E c \in Clients, f \in Files :
    /\ answer[c] = None /\ line[c] \in Line /\ line[c].kind = "RQT"
    /\ Reply(c, AQT(<<line[c].sid, now>>, now + Window, f))
    /\ cur'["processRQT"] = c /\ pc'["processRQT"] = "lock"
    /\ UNCHANGED line

Submission(c) ==
  /\ c = cur["processRQS"] /\ c \in Clients /\ answer[c] = None
  /\ line[c] \in Line /\ line[c].kind = "RQS"
  /\ UNCHANGED line

Refuses == \E c \in Clients : Submission(c) /\ Reply(c, AQS(line[c].qid, -2))

Grades ==
  \E c \in Clients : /\ Submission(c) /\ quiz \in Quiz
                     /\ Reply(c, AQS(line[c].qid, Mark(line[c], quiz)))

LEMMA AnswerSteps ==
  ASSUME LInv, [Next]_vars
  PROVE  \/ UNCHANGED answer
         \/ ProcessTCP /\ Rejects
         \/ ProcessRQT /\ (Rejects \/ Deals)
         \/ ProcessRQS /\ Rejects
         \/ ProcessRQSFind /\ Refuses
         \/ ProcessRQSGrade /\ Grades
<1> USE DEF peers, quizzes, udp
<1>1. CASE ProcessTCP
  <2> DEFINE c == cur["processTCP"]
  <2>1. \/ UNCHANGED answer
        \/ pc["processTCP"] = "read" /\ Reply(c, ERR)
    <3>1. ProcessTCPToERR => pc["processTCP"] = "read" /\ Reply(c, ERR)
      BY DEF ProcessTCPToERR, Read
    <3>2. ProcessTCPTimedOut => pc["processTCP"] = "read" /\ Reply(c, ERR)
      BY DEF ProcessTCPTimedOut
    <3>3. (\/ ProcessTCPWait \/ ProcessTCPPop \/ ProcessTCPSpin
           \/ ProcessTCPToRQT \/ ProcessTCPToRQS) => UNCHANGED answer
      BY DEF ProcessTCPWait, Wait, ProcessTCPPop, ProcessTCPSpin, ProcessTCPToRQT,
             ProcessTCPToRQS
    <3> QED  BY <1>1, <3>1, <3>2, <3>3 DEF ProcessTCP
  <2>2. pc["processTCP"] = "read" => c \in Clients /\ answer[c] = None
    BY Holding DEF LInv, AnswersOK, Reading
  <2> QED  BY <1>1, <2>1, <2>2 DEF Rejects
<1>2. CASE ProcessRQTPop
  <2> DEFINE c == Head(queue["rqtRequests"])
  <2>1. /\ Pop("rqtRequests") /\ cur'["processRQT"] = c /\ pc["processRQT"] = "pop"
        /\ UNCHANGED line
    BY <1>2 DEF ProcessRQTPop, Load, LInv, IInv, TypeOK, TcpThreads
  <2>2. c \in Clients /\ answer[c] = None
    BY <2>1, BlankHead DEF BlankQueues, LInv
  <2>3. CASE Reply(c, ERR)
    BY <1>2, <2>2, <2>3 DEF ProcessRQT, Rejects
  <2>4. ASSUME NEW f \in Files, line[c].kind = "RQT", Goto("processRQT", "lock"),
               Reply(c, AQT(<<line[c].sid, now>>, now + Window, f))
        PROVE  Deals
    <3>1. line[c] \in Line
      <4>1. /\ c = queue["rqtRequests"][1] /\ 1 \in 1..Len(queue["rqtRequests"])
            /\ "rqtRequests" \in ConnQueues
        BY <2>1, Popped DEF LInv, IInv, ConnQueues
      <4>2. Fits("rqtRequests", line[c])
        BY <4>1 DEF LInv, IInv, LinesOK
      <4> QED  BY <2>2, <4>2 DEF Fits, LInv, IInv, TypeOK
    <3>2. pc'["processRQT"] = "lock"
      BY <2>4 DEF Goto, LInv, IInv, TypeOK, Threads
    <3> HIDE DEF c
    <3> QED  BY <2>1, <2>2, <2>4, <3>1, <3>2 DEF Deals
  <2> QED  BY <1>2, <2>3, <2>4 DEF ProcessRQTPop, ProcessRQT
<1>3. CASE ProcessRQT /\ ~ProcessRQTPop
  BY <1>3 DEF ProcessRQT, ProcessRQTWait, Wait, ProcessRQTLock, ProcessRQTInsert,
              ProcessRQTAnswer, ProcessRQTNoPdf
<1>4. CASE ProcessRQSPop
  <2> DEFINE c == Head(queue["rqsRequests"])
  <2>1. Pop("rqsRequests") /\ (UNCHANGED answer \/ Reply(c, ERR))
    BY <1>4 DEF ProcessRQSPop
  <2>2. c \in Clients /\ answer[c] = None
    BY <2>1, BlankHead DEF BlankQueues, LInv
  <2>3. Reply(c, ERR) => Rejects
    <3> HIDE DEF c
    <3> QED  BY <2>2 DEF Rejects
  <2>4. ProcessRQS
    BY <1>4 DEF ProcessRQS
  <2> QED  BY <2>1, <2>3, <2>4
<1>5. CASE ProcessRQSFind \/ ProcessRQSGrade
  <2> DEFINE c == cur["processRQS"]
  <2>1. Submission(c)
    BY <1>5, Holding, TesAssumption
      DEF ProcessRQSFind, ProcessRQSGrade, LInv, AnswersOK, IInv, LinesOK, TypeOK, Marking,
          Submission
  <2>2. CASE ProcessRQSFind
    <3>1. UNCHANGED answer \/ Reply(c, AQS(line[c].qid, -2))
      BY <2>2 DEF ProcessRQSFind
    <3>2. Reply(c, AQS(line[c].qid, -2)) => Refuses
      <4> HIDE DEF c
      <4> QED  BY <2>1 DEF Submission, Refuses
    <3>3. ProcessRQS
      BY <2>2 DEF ProcessRQS
    <3> QED  BY <2>2, <3>1, <3>2, <3>3
  <2>3. CASE ProcessRQSGrade
    <3>1. quiz \in Quiz
      BY <2>3 DEF ProcessRQSGrade, LInv, IInv, LocalsOK, TypeOK
    <3>2. Reply(c, AQS(line[c].qid, Mark(line[c], quiz)))
      BY <2>3 DEF ProcessRQSGrade
    <3> QED  BY <2>1, <2>3, <3>1, <3>2 DEF Submission, Grades, ProcessRQS
  <2> QED  BY <1>5, <2>2, <2>3
<1>6. CASE ProcessRQS /\ ~ProcessRQSPop /\ ~ProcessRQSFind /\ ~ProcessRQSGrade
  BY <1>6 DEF ProcessRQS, ProcessRQSWait, Wait, ProcessRQSLock, ProcessRQSPostUDP,
              ProcessRQSAnswer, ProcessRQSPost, MapRace
<1>7. CASE ~ProcessTCP /\ ~ProcessRQT /\ ~ProcessRQS
  BY <1>7 DEF Next, vars, Tick, AcceptTCP, AcceptTCPBind, AcceptTCPInUse, AcceptTCPPost,
    AcceptTCPFail, AcceptTCPWake, AcceptTCPClient, AcceptUDP, AcceptUDPReceive, AcceptUDPPost,
    AcceptUDPLeave, ProcessAWI, ProcessAWIWait, Wait, ProcessAWIPop, AnswerUDP, AnswerUDPWait,
    AnswerUDPSend, AnswerUDPStore, AnswerTCP, AnswerTCPWait, AnswerTCPPop, AnswerTCPWrite
<1> QED  BY <1>1, <1>2, <1>3, <1>4, <1>5, <1>6, <1>7

\* What was answered, and the line it answers, stand.
LEMMA AnswersStand ==
  ASSUME LInv, [Next]_vars
  PROVE  \A c \in Clients : /\ answer[c] # None => answer'[c] = answer[c]
                            /\ answer[c] # None \/ line[c] # None => line'[c] = line[c]
<1>1. \A c \in Clients : answer[c] # None \/ line[c] # None => line'[c] = line[c]
  BY LineSteps DEF LInv, IInv, TypeOK
<1>2. \A c \in Clients : answer[c] # None => answer'[c] = answer[c]
  BY AnswerSteps DEF LInv, IInv, TypeOK, Reply, Rejects, Deals, Refuses, Grades, Submission
<1> QED  BY <1>1, <1>2

-----------------------------------------------------------------------------
(* What a step leaves alone of the two threads that share _questionaries.  *)

LEMMA OtherSteps ==
  ASSUME LInv, [Next]_vars, ~ProcessRQT, ~ProcessRQS
  PROVE  /\ UNCHANGED <<questionaries, questionariesMutex, quiz>>
         /\ UNCHANGED <<cur["processRQT"], cur["processRQS"]>>
         /\ \/ UNCHANGED <<pc["processRQT"], pc["processRQS"]>>
            \/ /\ pc'["processRQT"] = "terminated" /\ pc'["processRQS"] = "terminated"
               /\ ~Running'
<1> USE DEF peers, quizzes, udp
<1>1. CASE Tick \/ AcceptTCP \/ UNCHANGED vars
  BY <1>1 DEF Tick, AcceptTCP, AcceptTCPBind, AcceptTCPInUse, AcceptTCPPost, AcceptTCPFail,
    AcceptTCPWake, AcceptTCPClient, vars, Again, Goto, Terminate, Running, LInv, IInv, TypeOK,
    Threads
<1>2. CASE AcceptUDP \/ ProcessAWI \/ AnswerUDP
  BY <1>2 DEF AcceptUDP, AcceptUDPReceive, AcceptUDPPost, AcceptUDPLeave, ProcessAWI,
    ProcessAWIWait, Wait, ProcessAWIPop, AnswerUDP, AnswerUDPWait, AnswerUDPSend,
    AnswerUDPStore, Again, Goto, LInv, IInv, TypeOK, Threads
<1>3. CASE ProcessTCP
  BY <1>3 DEF ProcessTCP, ProcessTCPWait, Wait, ProcessTCPPop, ProcessTCPSpin, ProcessTCPToRQT,
    ProcessTCPToRQS, ProcessTCPToERR, Read, ProcessTCPTimedOut, Again, Goto, Load, Drop,
    LInv, IInv, TypeOK, Threads, TcpThreads
<1>4. ASSUME NEW a \in Answerers, AnswerTCP(a)
      PROVE  /\ UNCHANGED <<questionaries, questionariesMutex, quiz>>
             /\ UNCHANGED <<cur["processRQT"], cur["processRQS"]>>
             /\ UNCHANGED <<pc["processRQT"], pc["processRQS"]>>
  BY <1>4, TesAssumption DEF AnswerTCP, AnswerTCPWait, Wait, AnswerTCPPop, AnswerTCPWrite,
    Again, Goto, Load, Drop, LInv, IInv, TypeOK, Threads, TcpThreads
<1> QED  BY <1>1, <1>2, <1>3, <1>4 DEF Next

LEMMA RQTSteps ==
  ASSUME LInv, ProcessRQT
  PROVE  /\ UNCHANGED <<quiz, line, cur["processRQS"]>>
         /\ UNCHANGED pc["processRQS"] \/ (pc'["processRQS"] = "terminated" /\ ~Running')
         /\ \/ ProcessRQTLock \/ ProcessRQTInsert
            \/ /\ UNCHANGED <<questionaries, questionariesMutex>>
               /\ pc'["processRQT"] # "insert" /\ pc["processRQT"] \notin {"lock", "insert"}
<1> USE DEF peers, quizzes, udp
<1> QED  BY DEF ProcessRQT, ProcessRQTWait, Wait, Woken, ProcessRQTPop, ProcessRQTAnswer,
    ProcessRQTNoPdf, ProcessRQTLock, ProcessRQTInsert, Again, Goto, Load, Drop, Terminate,
    Running, LInv, IInv, TypeOK, Threads, TcpThreads

LEMMA RQSSteps ==
  ASSUME LInv, ProcessRQS
  PROVE  /\ UNCHANGED <<line, cur["processRQT"]>>
         /\ UNCHANGED pc["processRQT"] \/ (pc'["processRQT"] = "terminated" /\ ~Running')
         /\ \/ ProcessRQSPop \/ ProcessRQSLock \/ ProcessRQSFind \/ ProcessRQSGrade
            \/ /\ UNCHANGED <<questionaries, questionariesMutex, quiz>>
               /\ pc'["processRQS"] \notin {"find", "grade"}
               /\ pc["processRQS"] # "grade" \/ ~Running'
<1> USE DEF peers, quizzes, udp
<1> QED  BY DEF ProcessRQS, ProcessRQSWait, Wait, Woken, ProcessRQSPop, ProcessRQSLock,
    ProcessRQSFind, ProcessRQSGrade, ProcessRQSPostUDP, ProcessRQSAnswer, ProcessRQSPost,
    MapRace, Again, Goto, Load, Drop, Terminate, Running, LInv, IInv, TypeOK, Threads,
    TcpThreads

\* The steps under _questionariesMutex.
LEMMA MapSteps ==
  ASSUME LInv
  PROVE  /\ ProcessRQTLock =>
              /\ questionariesMutex = None /\ questionariesMutex' = "processRQT"
              /\ pc["processRQT"] = "lock" /\ pc'["processRQT"] = "insert"
              /\ UNCHANGED <<questionaries, cur>>
         /\ ProcessRQTInsert =>
              LET c == cur["processRQT"] IN
              /\ pc["processRQT"] = "insert" /\ pc'["processRQT"] = "answer"
              /\ questionariesMutex' = None
              /\ Answered(c, "AQT") /\ c \in Clients /\ answer[c].qid \in Qid
              /\ \/ questionaries' = [questionaries EXCEPT ![answer[c].qid] =
                      [sid |-> answer[c].qid[1], deadline |-> answer[c].deadline,
                       file |-> answer[c].file]]
                 \/ pc["processRQS"] = "find" /\ UNCHANGED questionaries
         /\ ProcessRQSLock =>
              /\ questionariesMutex = None /\ questionariesMutex' = "processRQS"
              /\ pc["processRQS"] = "lock" /\ pc'["processRQS"] = "find"
              /\ UNCHANGED <<questionaries, quiz>>
         /\ ProcessRQSPop =>
              /\ pc["processRQS"] = "pop" /\ pc'["processRQS"] \notin {"find", "grade"}
              /\ UNCHANGED <<questionaries, quiz>>
              /\ UNCHANGED questionariesMutex \/ Misparsed
         /\ ProcessRQSFind =>
              LET c == cur["processRQS"] IN
              /\ c \in Clients /\ line[c] \in Line /\ line[c].kind = "RQS"
              /\ pc["processRQS"] = "find" /\ questionariesMutex' = None /\ UNCHANGED cur
              /\ \/ UNCHANGED <<questionaries, quiz>> /\ pc'["processRQS"] = "answer"
                 \/ /\ questionaries[line[c].qid] # None
                    /\ quiz' = questionaries[line[c].qid]
                    /\ questionaries' = [questionaries EXCEPT ![line[c].qid] = None]
                    /\ pc'["processRQS"] = "grade"
         /\ ProcessRQSGrade =>
              /\ pc["processRQS"] = "grade" /\ pc'["processRQS"] \notin {"find", "grade"}
              /\ cur["processRQS"] \in Clients
              /\ UNCHANGED <<questionaries, questionariesMutex, cur>> /\ quiz' = None
<1> USE DEF peers, quizzes, udp
<1>1. ProcessRQTLock =>
        /\ questionariesMutex = None /\ questionariesMutex' = "processRQT"
        /\ pc["processRQT"] = "lock" /\ pc'["processRQT"] = "insert"
        /\ UNCHANGED <<questionaries, cur>>
  BY DEF ProcessRQTLock, Goto, LInv, IInv, TypeOK, Threads
<1>2. ASSUME ProcessRQTInsert
      PROVE  LET c == cur["processRQT"] IN
        /\ pc["processRQT"] = "insert" /\ pc'["processRQT"] = "answer"
        /\ questionariesMutex' = None
        /\ Answered(c, "AQT") /\ c \in Clients /\ answer[c].qid \in Qid
        /\ \/ questionaries' = [questionaries EXCEPT ![answer[c].qid] =
                [sid |-> answer[c].qid[1], deadline |-> answer[c].deadline,
                 file |-> answer[c].file]]
           \/ pc["processRQS"] = "find" /\ UNCHANGED questionaries
  <2> DEFINE c == cur["processRQT"]
  <2>1. pc["processRQT"] = "insert" /\ pc'["processRQT"] = "answer"
    BY <1>2 DEF ProcessRQTInsert, Goto, LInv, IInv, TypeOK, Threads
  <2>2. c \in Clients /\ Answered(c, "AQT")
    BY <2>1 DEF LInv, IInv, LocalsOK, CurOK, TypeOK, TcpThreads
  <2>3. answer[c] \in Answer
    BY <2>2 DEF Answered, LInv, IInv, TypeOK
  <2>4. answer[c].qid \in Qid
    BY <2>2, <2>3 DEF Answered, Answer, ERR
  <2> QED  BY <1>2, <2>1, <2>2, <2>4 DEF ProcessRQTInsert
<1>3. ProcessRQSLock =>
        /\ questionariesMutex = None /\ questionariesMutex' = "processRQS"
        /\ pc["processRQS"] = "lock" /\ pc'["processRQS"] = "find"
        /\ UNCHANGED <<questionaries, quiz>>
  BY DEF ProcessRQSLock, Goto, LInv, IInv, TypeOK, Threads
<1>4. ASSUME ProcessRQSPop
      PROVE  /\ pc["processRQS"] = "pop" /\ pc'["processRQS"] \notin {"find", "grade"}
             /\ UNCHANGED <<questionaries, quiz>>
             /\ UNCHANGED questionariesMutex \/ Misparsed
  <2> DEFINE c == Head(queue["rqsRequests"])
  <2>1. pc["processRQS"] = "pop" /\ pc'["processRQS"] \notin {"find", "grade"}
    BY <1>4 DEF ProcessRQSPop, Goto, LInv, IInv, TypeOK, Threads
  <2>2. line[c] # None
    <3>1. /\ c = queue["rqsRequests"][1] /\ 1 \in 1..Len(queue["rqsRequests"])
          /\ "rqsRequests" \in ConnQueues
      BY <1>4, Popped DEF ProcessRQSPop, LInv, IInv, ConnQueues
    <3>2. Fits("rqsRequests", line[c])
      BY <3>1 DEF LInv, IInv, LinesOK
    <3> QED  BY <3>2 DEF Fits
  <2>3. c \in Clients
    BY <1>4, Popped DEF ProcessRQSPop, LInv, IInv, ConnQueues
  <2>4. UNCHANGED questionariesMutex \/ line[c].kind = "badRQS"
    BY <1>4 DEF ProcessRQSPop
  <2>5. UNCHANGED <<questionaries, quiz>>
    BY <1>4 DEF ProcessRQSPop
  <2> HIDE DEF c
  <2> QED  BY <2>1, <2>2, <2>3, <2>4, <2>5 DEF Misparsed
<1>5. ASSUME ProcessRQSFind
      PROVE  LET c == cur["processRQS"] IN
        /\ c \in Clients /\ line[c] \in Line /\ line[c].kind = "RQS"
        /\ pc["processRQS"] = "find" /\ questionariesMutex' = None /\ UNCHANGED cur
        /\ \/ UNCHANGED <<questionaries, quiz>> /\ pc'["processRQS"] = "answer"
           \/ /\ questionaries[line[c].qid] # None
              /\ quiz' = questionaries[line[c].qid]
              /\ questionaries' = [questionaries EXCEPT ![line[c].qid] = None]
              /\ pc'["processRQS"] = "grade"
  <2> DEFINE c == cur["processRQS"]
  <2>1. pc["processRQS"] = "find" /\ questionariesMutex' = None /\ UNCHANGED cur
    BY <1>5 DEF ProcessRQSFind, Released
  <2>2. c \in Clients /\ line[c] \in Line /\ line[c].kind = "RQS"
    BY <2>1, Holding DEF LInv, IInv, LinesOK, TypeOK, Marking
  <2>3. \/ UNCHANGED <<questionaries, quiz>> /\ pc'["processRQS"] = "answer"
        \/ /\ questionaries[line[c].qid] # None
           /\ quiz' = questionaries[line[c].qid]
           /\ questionaries' = [questionaries EXCEPT ![line[c].qid] = None]
           /\ pc'["processRQS"] = "grade"
    BY <1>5 DEF ProcessRQSFind, Erased, Goto, LInv, IInv, TypeOK, Threads
  <2> QED  BY <2>1, <2>2, <2>3
<1>6. ProcessRQSGrade =>
        /\ pc["processRQS"] = "grade" /\ pc'["processRQS"] \notin {"find", "grade"}
        /\ cur["processRQS"] \in Clients
        /\ UNCHANGED <<questionaries, questionariesMutex, cur>> /\ quiz' = None
  BY Holding DEF ProcessRQSGrade, Goto, LInv, IInv, TypeOK, Threads, Marking
<1> QED  BY <1>1, <1>2, <1>3, <1>4, <1>5, <1>6

-----------------------------------------------------------------------------
(* The invariants.                                                         *)

\* A questionnaire goes to the student who asked for it, and is registered and
\* graded under that name.
IssuedTo ==
  \A c \in Clients :
    Answered(c, "AQT") =>
      line[c] # None /\ line[c].kind = "RQT" /\ answer[c].qid[1] = line[c].sid

QuizSid ==
  /\ \A q \in Qid : questionaries[q] # None => questionaries[q].sid = q[1]
  /\ quiz # None /\ pc["processRQS"] = "grade" =>
       quiz.sid = line[cur["processRQS"]].qid[1]

\* Until somebody's line is malformed the mutex excludes.
Excludes ==
  ~Misparsed =>
    /\ pc["processRQT"] = "insert" => questionariesMutex = "processRQT"
    /\ pc["processRQS"] = "find" => questionariesMutex = "processRQS"

\* The questionnaire q is registered, or a submission of it took it out.
Available(q) ==
  \/ questionaries[q] # None
  \/ \E c \in Named(q) : Answered(c, "AQS")
  \/ pc["processRQS"] = "grade" /\ cur["processRQS"] \in Named(q)

BeingRegistered(c) == cur["processRQT"] = c /\ pc["processRQT"] \in {"lock", "insert"}

Registered ==
  Running /\ ~Misparsed =>
    \A c \in Clients :
      Answered(c, "AQT") => BeingRegistered(c) \/ Available(answer[c].qid)

GInv == IssuedTo /\ QuizSid /\ Excludes /\ Registered

LEMMA IssuedToStep ==
  ASSUME LInv, GInv, [Next]_vars
  PROVE  IssuedTo'
<1> SUFFICES ASSUME NEW c \in Clients, Answered(c, "AQT")'
             PROVE  line'[c] # None /\ line'[c].kind = "RQT" /\ answer'[c].qid[1] = line'[c].sid
  BY DEF IssuedTo
<1>1. CASE answer[c] # None
  <2>1. answer'[c] = answer[c] /\ line'[c] = line[c]
    BY <1>1, AnswersStand
  <2> QED  BY <2>1 DEF Answered, GInv, IssuedTo
<1>2. CASE answer[c] = None
  <2>1. answer'[c] # None /\ answer'[c].kind = "AQT"
    BY DEF Answered
  <2>2. ~Rejects /\ ~Refuses /\ ~Grades
    BY <1>2, <2>1 DEF Rejects, Refuses, Grades, Reply, ERR, AQS, LInv, IInv, TypeOK
  <2>3. Deals
    BY <1>2, <2>1, <2>2, AnswerSteps
  <2>4. PICK d \in Clients, f \in Files :
          /\ line[d] \in Line /\ line[d].kind = "RQT" /\ UNCHANGED line
          /\ Reply(d, AQT(<<line[d].sid, now>>, now + Window, f))
    BY <2>3 DEF Deals
  <2>5. d = c /\ answer'[c] = AQT(<<line[c].sid, now>>, now + Window, f)
    BY <1>2, <2>1, <2>4 DEF Reply, LInv, IInv, TypeOK
  <2> QED  BY <2>4, <2>5, TesAssumption DEF AQT
<1> QED  BY <1>1, <1>2

\* Nothing runs in a process that is gone.
LEMMA StaysTerminated ==
  ASSUME IInv, [Next]_vars, pc["acceptTCP"] = "terminated"
  PROVE  pc'["acceptTCP"] = "terminated"
<1>1. CASE AcceptTCP \/ Tick \/ UNCHANGED vars
  BY <1>1 DEF AcceptTCP, AcceptTCPBind, AcceptTCPInUse, AcceptTCPPost, AcceptTCPFail,
    AcceptTCPWake, AcceptTCPClient, Tick, vars
<1>2. CASE AcceptUDP \/ ProcessTCP \/ ProcessAWI \/ AnswerUDP
  BY <1>2 DEF AcceptUDP, AcceptUDPReceive, AcceptUDPPost, AcceptUDPLeave, ProcessTCP,
    ProcessTCPWait, Wait, ProcessTCPPop, ProcessTCPSpin, ProcessTCPToRQT, ProcessTCPToRQS,
    ProcessTCPToERR, Read, ProcessTCPTimedOut, ProcessAWI, ProcessAWIWait, ProcessAWIPop,
    AnswerUDP, AnswerUDPWait, AnswerUDPSend, AnswerUDPStore, Again, Goto, IInv, TypeOK, Threads
<1>3. CASE ProcessRQT \/ ProcessRQS
  BY <1>3 DEF ProcessRQT, ProcessRQTWait, Wait, ProcessRQTPop, ProcessRQTLock,
    ProcessRQTInsert, ProcessRQTAnswer, ProcessRQTNoPdf, ProcessRQS, ProcessRQSWait,
    ProcessRQSPop, ProcessRQSLock, ProcessRQSFind, ProcessRQSGrade, ProcessRQSPostUDP,
    ProcessRQSAnswer, ProcessRQSPost, MapRace, Again, Goto, Terminate, IInv, TypeOK, Threads
<1>4. ASSUME NEW a \in Answerers, AnswerTCP(a) PROVE pc'["acceptTCP"] = "terminated"
  BY <1>4, TesAssumption DEF AnswerTCP, AnswerTCPWait, Wait, AnswerTCPPop, AnswerTCPWrite,
    Again, Goto, IInv, TypeOK, Threads
<1> QED  BY <1>1, <1>2, <1>3, <1>4 DEF Next

LEMMA MisparsedStands ==
  ASSUME LInv, [Next]_vars, Misparsed
  PROVE  Misparsed'
BY AnswersStand DEF Misparsed

LEMMA QuizSidStep ==
  ASSUME LInv, GInv, [Next]_vars
  PROVE  QuizSid'
<1>1. DOMAIN questionaries = Qid
  BY DEF LInv, IInv, TypeOK
<1>2. CASE ~ProcessRQT /\ ~ProcessRQS
  <2>1. pc'["processRQS"] = "grade" =>
          /\ pc["processRQS"] = "grade" /\ cur["processRQS"] \in Clients
          /\ line[cur["processRQS"]] # None
    BY <1>2, OtherSteps, Holding DEF LInv, IInv, LinesOK, Marking
  <2> QED  BY <1>2, <2>1, OtherSteps, AnswersStand DEF GInv, QuizSid
<1>3. CASE ProcessRQT
  <2>1. /\ UNCHANGED <<quiz, line, cur["processRQS"]>>
        /\ pc'["processRQS"] = "grade" => pc["processRQS"] = "grade"
    BY <1>3, RQTSteps
  <2>2. CASE ProcessRQTInsert
    <3> DEFINE q == answer[cur["processRQT"]].qid
    <3>1. \A x \in Qid : questionaries'[x] # None =>
            questionaries'[x].sid = x[1] \/ questionaries'[x] = questionaries[x]
      BY <1>1, <2>2, MapSteps
    <3> QED  BY <2>1, <3>1 DEF GInv, QuizSid
  <2>3. CASE ~ProcessRQTInsert
    <3>1. UNCHANGED questionaries
      BY <1>3, <2>3, RQTSteps, MapSteps
    <3> QED  BY <2>1, <3>1 DEF GInv, QuizSid
  <2> QED  BY <2>2, <2>3
<1>4. CASE ProcessRQS
  <2>1. UNCHANGED line
    BY <1>4, RQSSteps
  <2>2. CASE ProcessRQSFind
    <3> DEFINE q == line[cur["processRQS"]].qid
    <3>1. q \in Qid
      BY <2>2, MapSteps DEF Line
    <3>2. \A x \in Qid : questionaries'[x] # None => questionaries'[x] = questionaries[x]
      BY <1>1, <2>2, MapSteps
    <3>3. pc'["processRQS"] = "grade" =>
            questionaries[q] # None /\ quiz' = questionaries[q] /\ UNCHANGED cur
      BY <2>2, MapSteps
    <3> QED  BY <2>1, <3>1, <3>2, <3>3 DEF GInv, QuizSid
  <2>3. CASE ~ProcessRQSFind
    <3>1. UNCHANGED questionaries /\ pc'["processRQS"] # "grade"
      BY <1>4, <2>3, RQSSteps, MapSteps
    <3> QED  BY <3>1 DEF GInv, QuizSid
  <2> QED  BY <2>2, <2>3
<1> QED  BY <1>2, <1>3, <1>4

LEMMA ExcludesStep ==
  ASSUME LInv, GInv, [Next]_vars
  PROVE  Excludes'
<1> SUFFICES ASSUME ~Misparsed'
             PROVE  /\ pc'["processRQT"] = "insert" => questionariesMutex' = "processRQT"
                    /\ pc'["processRQS"] = "find" => questionariesMutex' = "processRQS"
  BY DEF Excludes
<1>1. /\ ~Misparsed
      /\ pc["processRQT"] = "insert" => questionariesMutex = "processRQT"
      /\ pc["processRQS"] = "find" => questionariesMutex = "processRQS"
      /\ None # "processRQT" /\ None # "processRQS"
  BY MisparsedStands, TesAssumption DEF GInv, Excludes
<1>2. CASE ~ProcessRQT /\ ~ProcessRQS
  BY <1>1, <1>2, OtherSteps
<1>3. CASE ProcessRQT
  BY <1>1, <1>3, RQTSteps, MapSteps
<1>4. CASE ProcessRQS
  BY <1>1, <1>4, RQSSteps, MapSteps
<1> QED  BY <1>2, <1>3, <1>4

LEMMA AvailableStep ==
  ASSUME LInv, GInv, [Next]_vars, Running', ~Misparsed', NEW q \in Qid, Available(q)
  PROVE  Available(q)'
<1>1. \A c \in Named(q) : c \in Named(q)' /\ (Answered(c, "AQS") => Answered(c, "AQS")')
  BY AnswersStand DEF Named, Answered
<1>2. CASE \E c \in Named(q) : Answered(c, "AQS")
  BY <1>1, <1>2 DEF Available
<1>3. CASE questionaries[q] # None
  <2>1. CASE UNCHANGED questionaries
    BY <1>3, <2>1 DEF Available
  <2>2. CASE ProcessRQTInsert
    <3>1. PICK z : /\ z = questionaries[q] \/ z = [sid |-> q[1],
                          deadline |-> answer[cur["processRQT"]].deadline,
                          file |-> answer[cur["processRQT"]].file]
                   /\ questionaries'[q] = z
      BY <2>2, MapSteps DEF LInv, IInv, TypeOK
    <3>2. q[1] \in Sids
      BY DEF Qid
    <3>3. answer[cur["processRQT"]] \in Answer /\ Answered(cur["processRQT"], "AQT")
      BY <2>2, MapSteps DEF Answered, LInv, IInv, TypeOK
    <3>4. /\ answer[cur["processRQT"]].deadline \in Nat
          /\ answer[cur["processRQT"]].file \in Files
      BY <3>3 DEF Answered, Answer, ERR
    <3>5. [sid |-> q[1], deadline |-> answer[cur["processRQT"]].deadline,
           file |-> answer[cur["processRQT"]].file] \in Quiz
      BY <3>2, <3>4 DEF Quiz
    <3> QED  BY <1>3, <3>1, <3>5, TesAssumption DEF Available
  <2>3. CASE ProcessRQSFind
    <3>1. CASE q = line[cur["processRQS"]].qid /\ ~UNCHANGED questionaries
      <4>1. pc'["processRQS"] = "grade" /\ cur' = cur /\ cur["processRQS"] \in Named(q)
        BY <2>3, <3>1, MapSteps, TesAssumption DEF Named
      <4> QED  BY <1>1, <4>1 DEF Available
    <3>2. CASE q # line[cur["processRQS"]].qid
      BY <1>3, <2>3, <3>2, MapSteps DEF LInv, IInv, TypeOK, Available
    <3> QED  BY <2>1, <3>1, <3>2
  <2> QED  BY <2>1, <2>2, <2>3, OtherSteps, RQTSteps, RQSSteps, MapSteps
<1>4. CASE pc["processRQS"] = "grade" /\ cur["processRQS"] \in Named(q)
  <2> DEFINE c == cur["processRQS"]
  <2>1. CASE ProcessRQSGrade
    <3>1. /\ Reply(c, AQS(line[c].qid, Mark(line[c], quiz))) /\ c \in Clients
          /\ line[c] \in Line /\ line[c].kind = "RQS" /\ quiz \in Quiz
      BY <1>4, <2>1, Holding
        DEF ProcessRQSGrade, LInv, IInv, LinesOK, LocalsOK, TypeOK, Marking
    <3>2. answer'[c] = AQS(line[c].qid, Mark(line[c], quiz))
      BY <3>1 DEF Reply, LInv, IInv, TypeOK
    <3>3. AQS(line[c].qid, Mark(line[c], quiz)) \in Answer
      <4> HIDE DEF c
      <4> QED  BY <3>1, MarkFits DEF LInv
    <3>4. PICK d \in Named(q) : d = c
      BY <1>4
    <3>5. Answered(d, "AQS")'
      BY <3>2, <3>3, <3>4, TesAssumption DEF Answered, AQS
    <3> QED  BY <1>1, <3>5 DEF Available
  <2>2. CASE ~ProcessRQSGrade
    <3>1. pc'["processRQS"] = "grade" /\ cur'["processRQS"] = c
      BY <1>4, <2>2, OtherSteps, RQTSteps, RQSSteps, MapSteps
    <3> QED  BY <1>1, <1>4, <3>1 DEF Available
  <2> QED  BY <2>1, <2>2
<1> QED  BY <1>2, <1>3, <1>4 DEF Available

LEMMA RegisteredStep ==
  ASSUME LInv, GInv, [Next]_vars
  PROVE  Registered'
<1> SUFFICES ASSUME Running', ~Misparsed', NEW c \in Clients, Answered(c, "AQT")'
             PROVE  BeingRegistered(c)' \/ \E q \in Qid : answer'[c].qid = q /\ Available(q)'
  <2>1. ASSUME NEW c \in Clients, NEW q, answer'[c].qid = q, Available(q)'
        PROVE  Available(answer[c].qid)'
    BY <2>1 DEF Available, Named
  <2> QED  BY <2>1 DEF Registered
<1>1. Running /\ ~Misparsed
  <2>1. ASSUME pc["acceptTCP"] = "terminated" PROVE pc'["acceptTCP"] = "terminated"
    BY <2>1, StaysTerminated DEF LInv
  <2> QED  BY <2>1, MisparsedStands DEF Running
<1>2. CASE answer[c] # None
  <2>1. answer'[c] = answer[c] /\ Answered(c, "AQT")
    BY <1>2, AnswersStand DEF Answered
  <2>2. PICK q \in Qid : q = answer[c].qid
    BY <2>1 DEF Answered, Answer, ERR, LInv, IInv, TypeOK
  <2>3. CASE Available(q)
    BY <2>1, <2>2, <2>3, AvailableStep
  <2>4. CASE BeingRegistered(c)
    <3>1. CASE ProcessRQTInsert
      <4>1. ~(pc["processRQS"] = "find")
        BY <1>1, <3>1, MapSteps DEF GInv, Excludes
      <4>2. q[1] \in Sids /\ answer[c] \in Answer
        BY <2>1 DEF Qid, Answered, LInv, IInv, TypeOK
      <4>3. answer[c].deadline \in Nat /\ answer[c].file \in Files
        BY <2>1, <4>2 DEF Answered, Answer, ERR
      <4>4. [sid |-> q[1], deadline |-> answer[c].deadline, file |-> answer[c].file] \in Quiz
        BY <4>2, <4>3 DEF Quiz
      <4>5. questionaries'[q] =
              [sid |-> q[1], deadline |-> answer[c].deadline, file |-> answer[c].file]
        BY <2>2, <2>4, <3>1, <4>1, MapSteps DEF BeingRegistered, LInv, IInv, TypeOK
      <4> QED  BY <2>1, <2>2, <4>4, <4>5, TesAssumption DEF Available
    <3>2. CASE ~ProcessRQTInsert
      <4>1. cur'["processRQT"] = c /\ pc'["processRQT"] \in {"lock", "insert"}
        BY <2>4, <3>2, OtherSteps, RQTSteps, RQSSteps, MapSteps DEF BeingRegistered
      <4> QED  BY <4>1 DEF BeingRegistered
    <3> QED  BY <3>1, <3>2
  <2> QED  BY <1>1, <2>1, <2>2, <2>3, <2>4 DEF GInv, Registered
<1>3. CASE answer[c] = None
  <2>1. answer'[c] # None /\ answer'[c].kind = "AQT"
    BY DEF Answered
  <2>2. ~Rejects /\ ~Refuses /\ ~Grades
    BY <1>3, <2>1 DEF Rejects, Refuses, Grades, Reply, ERR, AQS, LInv, IInv, TypeOK
  <2>3. Deals
    BY <1>3, <2>1, <2>2, AnswerSteps
  <2>4. PICK d \in Clients : /\ \E a : Reply(d, a)
                             /\ cur'["processRQT"] = d /\ pc'["processRQT"] = "lock"
    BY <2>3 DEF Deals
  <2>5. d = c
    BY <1>3, <2>1, <2>4 DEF Reply, LInv, IInv, TypeOK
  <2> QED  BY <2>4, <2>5 DEF BeingRegistered
<1> QED  BY <1>2, <1>3

THEOREM GradingInductive == Spec => [](LInv /\ GInv)
<1>1. Init => GInv
  BY DEF Init, GInv, IssuedTo, QuizSid, Excludes, Registered, Answered, Threads
<1>2. LInv /\ GInv /\ [Next]_vars => GInv'
  BY IssuedToStep, QuizSidStep, ExcludesStep, RegisteredStep DEF GInv
<1> QED  BY <1>1, <1>2, LedgerInductive, PTL DEF Spec

-----------------------------------------------------------------------------
(* What the students get.                                                  *)

\* For every number of clients and of threads, a questionnaire that reached its
\* student can be handed in, until a submission takes it out: the registration
\* is never overtaken by the answer, as long as no line was malformed.
THEOREM QuizReadyAlways == Spec => []QuizReady
<1>1. LInv /\ GInv => QuizReady
  <2> SUFFICES ASSUME LInv, GInv, Running, ~Misparsed, NEW q \in Qid,
                      NEW c \in Issued(q), client[c] = "answered"
               PROVE  Available(q)
    BY DEF QuizReady, Available
  <2>1. c \in Clients /\ Answered(c, "AQT") /\ answer[c].qid = q /\ c # None
    BY TesAssumption DEF Issued
  <2>2. ~BeingRegistered(c)
    <3>1. cur["processRQT"] = c => client[c] = "open"
      BY <2>1, Holding DEF LInv, TcpThreads
    <3> QED  BY <3>1 DEF BeingRegistered
  <2> QED  BY <2>1, <2>2 DEF GInv, Registered
<1> QED  BY <1>1, GradingInductive, PTL

\* A score is given to the student the questionnaire was issued to, in time and
\* against the file that was sent, for every value of the constants.
THEOREM GradedAsIssuedAlways == Spec => GradedAsIssued
<1> DEFINE AsIssued ==
      \A c \in Graded' \ Graded :
        \E d \in Issued(line[c].qid) :
          /\ line[d].sid = line[c].sid
          /\ now < answer[d].deadline
          /\ answer'[c].score = Score[<<line[c].sheet, answer[d].file>>]
<1>1. LInv /\ GInv /\ Facts!LInv /\ [Next]_vars => [AsIssued]_vars
  <2> SUFFICES ASSUME LInv, GInv, Facts!LInv, Next, NEW c \in Graded', c \notin Graded
               PROVE  \E d \in Issued(line[c].qid) :
                        /\ line[d].sid = line[c].sid
                        /\ now < answer[d].deadline
                        /\ answer'[c].score = Score[<<line[c].sheet, answer[d].file>>]
    OBVIOUS
  <2>1. /\ c \in Clients /\ answer'[c] # None /\ answer'[c].kind = "AQS"
        /\ answer'[c].score >= 0 /\ answer'[c] # answer[c]
    BY DEF Graded, Answered
  <2>2. ~Rejects /\ ~Refuses /\ ~Deals /\ ~UNCHANGED answer
    BY <2>1 DEF Rejects, Refuses, Deals, Reply, ERR, AQS, AQT, LInv, IInv, TypeOK
  <2>3. ProcessRQSGrade /\ Grades
    BY <2>2, AnswerSteps
  <2>4. PICK d \in Clients :
          /\ Submission(d) /\ Reply(d, AQS(line[d].qid, Mark(line[d], quiz))) /\ quiz \in Quiz
    BY <2>3 DEF Grades
  <2>5. d = c
    BY <2>1, <2>4 DEF Reply, LInv, IInv, TypeOK
  <2> DEFINE l == line[c]
             q == l.qid
  <2>6. /\ l \in Line /\ l.kind = "RQS" /\ cur["processRQS"] = c
        /\ answer'[c].score = Mark(l, quiz)
    BY <2>1, <2>4, <2>5 DEF Submission, Reply, AQS, LInv, IInv, TypeOK
  <2>7. q \in Qid
    BY <2>6 DEF Line
  <2>8. /\ l.sid = quiz.sid /\ now < quiz.deadline
        /\ answer'[c].score = Score[<<l.sheet, quiz.file>>]
    BY <2>1, <2>6 DEF Mark
  <2>9. pc["processRQS"] = "grade" /\ quiz # None
    BY <2>3, <2>4, TesAssumption DEF ProcessRQSGrade
  <2>10. quiz.sid = q[1]
    BY <2>6, <2>9 DEF GInv, QuizSid
  <2>11. PICK x \in Issued(q) : quiz.deadline = answer[x].deadline /\ quiz.file = answer[x].file
    <3>1. Desk = [qid |-> q, quiz |-> quiz] /\ Desk # None
      BY <2>4, <2>6, <2>7, <2>9, LedgerNone DEF Desk
    <3>2. Facts!IsDealt(quiz, q)
      BY <3>1 DEF Facts!LInv, Facts!AsDealt
    <3>3. PICK x \in Facts!Dealt(q) :
             quiz.deadline = Seen[x].deadline /\ quiz.file = Seen[x].file
      BY <3>2 DEF Facts!IsDealt
    <3>4. x \in Issued(q)
      BY <2>7, <3>3, SameSets
    <3>5. Seen[x] = answer[x]
      BY <3>4 DEF Issued, Answered, Seen, ToldOf, ERR
    <3> QED  BY <3>3, <3>4, <3>5
  <2>12. line[x].sid = l.sid
    BY <2>8, <2>10, <2>11 DEF Issued, GInv, IssuedTo
  <2> QED  BY <2>8, <2>11, <2>12
<1>2. Spec => []Facts!LInv
  BY LedgerFacts, Implements, PTL DEF ImplementsLedger
<1> QED  BY <1>1, <1>2, GradingInductive, PTL DEF Spec, GradedAsIssued

-----------------------------------------------------------------------------
(* What the ECP server is told.                                            *)

Iqrs == sent \cup {answersUDP[k] : k \in Keys} \cup {iqr}

\* Only a submission that is graded adds an IQR, and it is its own.
LEMMA IqrSteps ==
  ASSUME LInv, [Next]_vars, NEW i \in Iqrs', i # None
  PROVE  \/ i \in Iqrs
         \/ \E c \in Graded' : i = IqrOf(c)'
<1> USE DEF peers, quizzes, udp
<1>1. CASE UNCHANGED <<answersUDP, sent, iqr>>
  BY <1>1 DEF Iqrs
<1>2. CASE ProcessAWIPop \/ AnswerUDPSend \/ AnswerUDPStore
  <2>1. DOMAIN answersUDP = Keys
    BY DEF LInv, IInv, TypeOK
  <2> QED  BY <1>2, <2>1 DEF ProcessAWIPop, AnswerUDPSend, AnswerUDPStore, Iqrs
<1>3. CASE ProcessRQSGrade
  <2> DEFINE c == cur["processRQS"]
             l == line[c]
             m == Mark(l, quiz)
             j == [sid |-> l.sid, qid |-> l.qid, score |-> m]
  <2>1. /\ Reply(c, AQS(l.qid, m)) /\ UNCHANGED <<sent, iqr, line>> /\ c \in Clients
        /\ UNCHANGED answersUDP \/ (m >= 0 /\ answersUDP' = Inserted(j))
        /\ l \in Line /\ l.kind = "RQS" /\ quiz \in Quiz
    BY <1>3, Holding
      DEF ProcessRQSGrade, Reported, LInv, IInv, LinesOK, LocalsOK, TypeOK, Marking
  <2>2. CASE UNCHANGED answersUDP
    BY <1>1, <2>1, <2>2
  <2>3. CASE m >= 0 /\ answersUDP' = Inserted(j)
    <3>1. AQS(l.qid, m) \in Answer /\ AQS(l.qid, m) # None
      <4>1. AQS(l.qid, m) \in Answer
        <5> HIDE DEF c
        <5> QED  BY <2>1, MarkFits DEF LInv
      <4> QED  BY <4>1, TesAssumption
    <3>2. answer'[c] = AQS(l.qid, m)
      BY <2>1 DEF Reply, LInv, IInv, TypeOK
    <3>3. PICK d \in Clients : d = c
      BY <2>1
    <3>4. d \in Graded' /\ IqrOf(d)' = j
      BY <2>1, <2>3, <3>1, <3>2, <3>3 DEF Graded, Answered, IqrOf, AQS
    <3>5. i = j \/ i \in Iqrs
      <4>1. DOMAIN answersUDP = Keys
        BY DEF LInv, IInv, TypeOK
      <4> QED  BY <2>1, <2>3, <4>1 DEF Inserted, Iqrs
    <3> QED  BY <3>4, <3>5
  <2> QED  BY <2>1, <2>2, <2>3
<1>4. CASE ~ProcessAWIPop /\ ~AnswerUDPSend /\ ~AnswerUDPStore /\ ~ProcessRQSGrade
  <2>1. UNCHANGED <<answersUDP, sent, iqr>>
    BY <1>4 DEF Next, vars, Tick, AcceptTCP, AcceptTCPBind, AcceptTCPInUse, AcceptTCPPost,
      AcceptTCPFail, AcceptTCPWake, AcceptTCPClient, AcceptUDP, AcceptUDPReceive,
      AcceptUDPPost, AcceptUDPLeave, ProcessTCP, ProcessTCPWait, Wait, ProcessTCPPop,
      ProcessTCPSpin, ProcessTCPToRQT, ProcessTCPToRQS, ProcessTCPToERR, Read,
      ProcessTCPTimedOut, ProcessRQT, ProcessRQTWait, ProcessRQTPop, ProcessRQTLock,
      ProcessRQTInsert, ProcessRQTAnswer, ProcessRQTNoPdf, ProcessRQS, ProcessRQSWait,
      ProcessRQSPop, ProcessRQSLock, ProcessRQSFind, ProcessRQSPostUDP, ProcessRQSAnswer,
      ProcessRQSPost, MapRace, ProcessAWI, ProcessAWIWait, AnswerUDP, AnswerUDPWait,
      AnswerTCP, AnswerTCPWait, AnswerTCPPop, AnswerTCPWrite
  <2> QED  BY <1>1, <2>1
<1> QED  BY <1>2, <1>3, <1>4

\* For every number of submissions, what the ECP server is told of a submission
\* is what was graded: the shared map never pairs one student's score with
\* another's, whatever the two threads that write it do.
THEOREM IqrHonestAlways == Spec => []IqrHonest
<1>1. Init => IqrHonest
  BY DEF Init, IqrHonest
<1>2. LInv /\ [Next]_vars /\ IqrHonest => IqrHonest'
  <2> SUFFICES ASSUME LInv, [Next]_vars, IqrHonest, NEW i \in Iqrs', i # None
               PROVE  \E c \in Graded' : i = IqrOf(c)'
    BY DEF IqrHonest, Iqrs
  <2>1. CASE i \in Iqrs
    <3>1. PICK c \in Graded : i = IqrOf(c)
      BY <2>1 DEF IqrHonest, Iqrs
    <3>2. c \in Clients /\ answer'[c] = answer[c] /\ line'[c] = line[c]
      BY AnswersStand DEF Graded, Answered
    <3> QED  BY <3>1, <3>2 DEF Graded, Answered, IqrOf
  <2> QED  BY <2>1, IqrSteps
<1> QED  BY <1>1, <1>2, LedgerInductive, PTL DEF Spec

-----------------------------------------------------------------------------
(* score().                                                                *)

LEMMA PointsFacts ==
  ASSUME NEW answers \in Sheet, NEW ans
  PROVE  \A i \in Questions :
           /\ Points(answers[i], ans[i]) \in {-5, 0, 20}
           /\ (Points(answers[i], ans[i]) = 20) <=> (answers[i] # "N" /\ answers[i] = ans[i])
BY DEF Points, Sheet, Answers

LEMMA FivePoints ==
  ASSUME NEW a \in {-5, 0, 20}, NEW b \in {-5, 0, 20}, NEW c \in {-5, 0, 20},
         NEW d \in {-5, 0, 20}, NEW e \in {-5, 0, 20}
  PROVE  /\ a + b + c + d + e \in Int /\ a + b + c + d + e <= 100
         /\ (a + b + c + d + e = 100)
              <=> (a = 20 /\ b = 20 /\ c = 20 /\ d = 20 /\ e = 20)
OBVIOUS

\* Five questions make at most 100 points, and 100 only together.
LEMMA TotalFacts ==
  ASSUME NEW answers \in Sheet, NEW ans
  PROVE  /\ Total(answers, ans) \in Int /\ Total(answers, ans) <= 100
         /\ (Total(answers, ans) = 100)
              <=> (\A i \in Questions : answers[i] # "N" /\ answers[i] = ans[i])
<1> DEFINE P(i) == Points(answers[i], ans[i])
<1>1. /\ P(0) \in {-5, 0, 20} /\ P(1) \in {-5, 0, 20} /\ P(2) \in {-5, 0, 20}
      /\ P(3) \in {-5, 0, 20} /\ P(4) \in {-5, 0, 20}
  BY PointsFacts DEF Questions
<1>2. (P(0) = 20 /\ P(1) = 20 /\ P(2) = 20 /\ P(3) = 20 /\ P(4) = 20)
        <=> (\A i \in Questions : answers[i] # "N" /\ answers[i] = ans[i])
  <2>1. \A i \in Questions : (P(i) = 20) <=> (answers[i] # "N" /\ answers[i] = ans[i])
    BY PointsFacts
  <2>2. \A i : i \in Questions <=> i = 0 \/ i = 1 \/ i = 2 \/ i = 3 \/ i = 4
    BY DEF Questions
  <2> HIDE DEF P
  <2> QED  BY <2>1, <2>2
<1>3. Total(answers, ans) = P(0) + P(1) + P(2) + P(3) + P(4)
  BY DEF Total
<1> HIDE DEF P
<1> QED  BY <1>1, <1>2, <1>3, FivePoints

LEMMA NotBelowZero ==
  ASSUME NEW t \in Int, t <= 100
  PROVE  (IF t < 0 THEN 0 ELSE t) \in 0..100
OBVIOUS

\* Whatever the file holds, however short it is, a sheet is worth 0 to 100
\* points, which TesAssumption asks of Score: no score is mistaken for -1 or -2.
THEOREM ScoreInRange ==
  \A answers \in Sheet, words \in Seq(STRING) : score(answers, words) \in 0..100
<1> TAKE answers \in Sheet, words \in Seq(STRING)
<1>1. PICK t \in Int : t = Total(answers, Ans(words)) /\ t <= 100
  BY TotalFacts
<1>2. score(answers, words) = IF t < 0 THEN 0 ELSE t
  BY <1>1 DEF score
<1> QED  BY <1>1, <1>2, NotBelowZero

\* Full marks mean that each answer is the letter the file has for it, or, of a
\* short file, the last it has.
THEOREM FullMarks ==
  \A answers \in Sheet, words \in Seq(STRING) :
    (score(answers, words) = 100)
      <=> (\A i \in Questions : answers[i] # "N" /\ answers[i] = Ans(words)[i])
<1> SUFFICES ASSUME NEW answers \in Sheet, NEW words \in Seq(STRING)
             PROVE  (score(answers, words) = 100)
                      <=> (\A i \in Questions : answers[i] # "N" /\ answers[i] = Ans(words)[i])
  OBVIOUS
<1>1. score(answers, words) = 100 <=> Total(answers, Ans(words)) = 100
  BY TotalFacts DEF score
<1> QED  BY <1>1, TotalFacts

\* A file of answers that is missing or empty fails no check: whatever the
\* student answered is worth nothing.
THEOREM NoFileNoMarks ==
  \A answers \in Sheet : score(answers, <<>>) = 0
<1> SUFFICES ASSUME NEW answers \in Sheet
             PROVE  score(answers, <<>>) = 0
  OBVIOUS
<1> DEFINE P(i) == Points(answers[i], Ans(<<>>)[i])
<1>1. \A i \in Questions : P(i) \in {-5, 0}
  BY DEF Points, Ans, NUL, Sheet, Answers
<1>2. /\ P(0) \in {-5, 0} /\ P(1) \in {-5, 0} /\ P(2) \in {-5, 0}
      /\ P(3) \in {-5, 0} /\ P(4) \in {-5, 0}
  BY <1>1 DEF Questions
<1>3. Total(answers, Ans(<<>>)) = P(0) + P(1) + P(2) + P(3) + P(4)
  BY DEF Total
<1> HIDE DEF P
<1>4. Total(answers, Ans(<<>>)) <= 0 /\ Total(answers, Ans(<<>>)) \in Int
  BY <1>2, <1>3
<1> QED  BY <1>4 DEF score

\* The sums of five terms, one of which changes, keep their order.
LEMMA OneTermMore ==
  ASSUME NEW f, NEW g, NEW i \in Questions,
         \A j \in Questions : f[j] \in Int /\ g[j] \in Int,
         \A j \in Questions : j # i => f[j] = g[j],
         f[i] <= g[i]
  PROVE  f[0] + f[1] + f[2] + f[3] + f[4] <= g[0] + g[1] + g[2] + g[3] + g[4]
BY DEF Questions

\* A sheet whose wrong answer i is left out, or put right, is never worth less,
\* whatever the file: the cut at zero keeps the order of the sums.
THEOREM NoWorseWithoutAWrongAnswer ==
  \A answers \in Sheet, words \in Seq(STRING), i \in Questions, a \in Answers :
    (a = "N" \/ a = Ans(words)[i]) /\ answers[i] # Ans(words)[i] =>
      score(answers, words) <= score([answers EXCEPT ![i] = a], words)
<1> SUFFICES ASSUME NEW answers \in Sheet, NEW words \in Seq(STRING), NEW i \in Questions,
                    NEW a \in Answers, a = "N" \/ a = Ans(words)[i],
                    answers[i] # Ans(words)[i]
             PROVE  score(answers, words) <= score([answers EXCEPT ![i] = a], words)
  OBVIOUS
<1> DEFINE ans == Ans(words)
           other == [answers EXCEPT ![i] = a]
           f == [j \in Questions |-> Points(answers[j], ans[j])]
           g == [j \in Questions |-> Points(other[j], ans[j])]
<1>1. other \in Sheet /\ other[i] = a /\ \A j \in Questions : j # i => other[j] = answers[j]
  BY DEF Sheet
<1>2. \A j \in Questions : f[j] \in Int /\ g[j] \in Int
  BY DEF Points
<1>3. \A j \in Questions : j # i => f[j] = g[j]
  BY <1>1
<1>4. f[i] <= g[i]
  BY <1>1 DEF Points
<1>5. f[0] + f[1] + f[2] + f[3] + f[4] <= g[0] + g[1] + g[2] + g[3] + g[4]
  <2> HIDE DEF f, g
  <2> QED  BY <1>2, <1>3, <1>4, OneTermMore
<1>6. 0 \in Questions /\ 1 \in Questions /\ 2 \in Questions /\ 3 \in Questions /\ 4 \in Questions
  BY DEF Questions
<1>7. /\ Total(answers, ans) = f[0] + f[1] + f[2] + f[3] + f[4]
      /\ Total(other, ans) = g[0] + g[1] + g[2] + g[3] + g[4]
  BY <1>6 DEF Total
<1>8. Total(answers, ans) <= Total(other, ans)
  BY <1>5, <1>7
<1>9. Total(answers, ans) \in Int /\ Total(other, ans) \in Int
  BY <1>1, TotalFacts
<1> HIDE DEF ans, other
<1> QED  BY <1>8, <1>9 DEF score, ans, other
=============================================================================
