----------------------------- MODULE EcpManager -----------------------------
(***************************************************************************)
(* The contact server, ECP/ECPManager.cpp: five threads and four queues    *)
(* around one UDP socket.                                                  *)
(*                                                                         *)
(*   acceptRequests --tqrRequests--> processTQR --+                        *)
(*         |   |  \-----terRequests--> processTER -+-answers-> sendAnswer  *)
(*         |    \-------iqrRequests--> processIQR -+                       *)
(*         +------------------answers--------------+                       *)
(*                                                                         *)
(* The socket object keeps a single address, _serverAddr: recvfrom() puts  *)
(* the sender there and sendto() sends there.  The receiving thread uses   *)
(* it under _UDPMutex, the sending one under _UDPSenderMutex, so neither   *)
(* keeps the other out, and every use of it is a step of its own.          *)
(*                                                                         *)
(* As in TesManager, a section under a mutex is one step.  Nothing in the  *)
(* ECP ever sets _exit, so its loops have no end.                          *)
(***************************************************************************)
EXTENDS Integers, Sequences, FiniteSets

CONSTANTS
  Peers,         \* the addresses that send: users and topic servers
  Lines,         \* the texts they send, or a buffer can hold, a subset of Line
  Results,       \* what an IQR reports
  Topics,        \* the number of topics in topics.txt
  MaxDatagrams,  \* bound of the number of datagrams received
  MayFail,       \* whether the port may be taken or bind() fail
  None           \* no value; as an address, INADDR_ANY

\* What the parsers tell apart.  A TER carries a topic number, an IQR a result;
\* hugeIQR has a score that std::stoi cannot convert, unterminated has no '\n'.
Line ==
  [kind : {"TQR", "badTER", "badIQR", "hugeIQR", "other", "unterminated", "tooLong"}]
    \cup [kind : {"TER"}, topic : 1..99]
    \cup [kind : {"IQR"}, result : Results]

Threads == {"acceptRequests", "processTQR", "processTER", "processIQR", "sendAnswer"}
Locals  == Threads \ {"acceptRequests"}  \* those with a local r
Workers == {"processTQR", "processTER", "processIQR"}
Queues  == {"tqrRequests", "terRequests", "iqrRequests", "answers"}

Ids == 1..MaxDatagrams

\* A RequestECP: the datagram it was made from, its line and its client.
Answer ==
  [kind : {"ERR", "AWT", "EOF"}]
    \cup [kind : {"AWTES"}, topic : 1..99]
    \cup [kind : {"AWI"}, result : Results]

Request ==
  [id : Ids, message : Line, client : Peers \cup {None}, answer : Answer \cup {None}]

ERR == [kind |-> "ERR"]
EOF == [kind |-> "EOF"]
AWI(x) == [kind |-> "AWI", result |-> x]

ASSUME EcpAssumption ==
  /\ Lines \subseteq Line
  /\ Topics \in 0..99 /\ MaxDatagrams \in Nat
  /\ MayFail \in BOOLEAN
  /\ None \notin Peers \cup Line \cup Request \cup Answer

VARIABLES
  serverAddr,   \* _socketUDP._serverAddr
  arrived,      \* the datagrams received: [from, line, open], with those not
                \* yet answered at that time
  read,         \* acceptRequests: the line receive() made of the last one
  client,       \* acceptRequests: its local client
  queue,        \* the four std::queue
  sem,          \* their semaphores
  cur,          \* the local r of the threads that have one
  pc,           \* where each thread is in its loop
  stats,        \* the results in stats.txt, in order
  unwritten,    \* history: those that did not get there, in order
  sent          \* the answers handed to sendto(), in order: [id, to, answer]

vars == <<serverAddr, arrived, read, client, queue, sem, cur, pc, stats, unwritten, sent>>

Init ==
  /\ serverAddr = None
  /\ arrived = <<>>
  /\ read = None
  /\ client = None
  /\ queue = [q \in Queues |-> <<>>]
  /\ sem = [q \in Queues |-> 0]
  /\ cur = [t \in Locals |-> None]
  /\ pc = [t \in Threads |-> IF t = "acceptRequests" THEN "bind" ELSE "wait"]
  /\ stats = <<>> /\ unwritten = <<>>
  /\ sent = <<>>

-----------------------------------------------------------------------------
Goto(t, label) == pc' = [pc EXCEPT ![t] = label]
Push(q, r) == queue' = [queue EXCEPT ![q] = Append(@, r)]

PostBinary(q) == sem' = [sem EXCEPT ![q] = 1]      \* mutant
Post(q)       == sem' = [sem EXCEPT ![q] = @ + 1]

\* An exception no handler catches, or exit(0).
Terminate ==
  /\ pc' = [t \in Threads |-> "terminated"]
  /\ UNCHANGED <<serverAddr, read, client, queue, sem, cur, stats, unwritten, sent>>

\* sem_wait.
TryWait(q) == sem' = [sem EXCEPT ![q] = @ - 1]     \* mutant
SemWait(q) == sem[q] > 0 /\ sem' = [sem EXCEPT ![q] = @ - 1]

Wait(t, q) ==
  /\ pc[t] = "wait"
  /\ SemWait(q)
  /\ Goto(t, "pop")
  /\ UNCHANGED <<serverAddr, arrived, read, client, queue, cur, stats, unwritten, sent>>

\* front() and pop().
TakeFront(t, q) == pc[t] = "pop" /\ queue[q] # <<>> /\ UNCHANGED queue  \* mutant
Take(t, q) ==
  /\ pc[t] = "pop"
  /\ queue[q] # <<>>
  /\ queue' = [queue EXCEPT ![q] = Tail(@)]

-----------------------------------------------------------------------------
(* acceptRequests.                                                         *)

AcceptBind ==
  /\ pc["acceptRequests"] = "bind"
  /\ Goto("acceptRequests", "receive")
  /\ UNCHANGED <<serverAddr, arrived, read, client, queue, sem, cur, stats, unwritten, sent>>

\* catch(SocketAlreadyInUse): exit(0).
AcceptInUse ==
  /\ MayFail /\ pc["acceptRequests"] = "bind"
  /\ Terminate /\ UNCHANGED arrived

\* catch(std::string): the thread returns and the process waits for nothing.
AcceptBindFails ==
  /\ MayFail /\ pc["acceptRequests"] = "bind"
  /\ Goto("acceptRequests", "done")
  /\ UNCHANGED <<serverAddr, arrived, read, client, queue, sem, cur, stats, unwritten, sent>>

\* The line receive() returns.  The buffer is neither cleared before the call
\* nor terminated after it: a datagram without '\n' overlays the beginning of
\* whatever the stack held, so that with what is left of it any line may come
\* of it, or none (UnknownFormatProtocol).
Received(l) ==
  {l} \cup {m \in Lines : l.kind = "unterminated" /\ m.kind # "tooLong"}

Unanswered == {i \in 1..Len(arrived) : \A j \in 1..Len(sent) : sent[j].id # i}

Datagram(p, l) == [from |-> p, line |-> l, open |-> Unanswered]

AcceptReceive(p, l) ==
  /\ pc["acceptRequests"] = "receive"
  /\ Len(arrived) < MaxDatagrams
  /\ l.kind # "tooLong"
  /\ arrived' = Append(arrived, Datagram(p, l))
  /\ serverAddr' = p
  /\ read' \in Received(l)
  /\ Goto("acceptRequests", "client")
  /\ UNCHANGED <<client, queue, sem, cur, stats, unwritten, sent>>

\* MessageTooLongUDP is not caught.
AcceptTooLong(p, l) ==
  /\ pc["acceptRequests"] = "receive"
  /\ Len(arrived) < MaxDatagrams
  /\ l.kind = "tooLong"
  /\ arrived' = Append(arrived, Datagram(p, l))
  /\ Terminate

\* client = _socketUDP.client().
SenderBefore ==                                    \* mutant
  IF Len(arrived) = 1 THEN None ELSE arrived[Len(arrived) - 1].from
Sender == serverAddr

AcceptClient ==
  /\ pc["acceptRequests"] = "client"
  /\ client' = Sender
  /\ Goto("acceptRequests", "push")
  /\ UNCHANGED <<serverAddr, arrived, read, queue, sem, cur, stats, unwritten, sent>>

\* The queue a line goes to, by its first letters and its spaces.
Route(l) ==
  CASE l.kind = "TQR"                         -> "tqrRequests"
    [] l.kind \in {"TER", "badTER"}            -> "terRequests"
    [] l.kind \in {"IQR", "badIQR", "hugeIQR"} -> "iqrRequests"
    [] OTHER                                  -> "answers"

AcceptPush ==
  /\ pc["acceptRequests"] = "push"
  /\ Push(Route(read),
          [id |-> Len(arrived), message |-> read, client |-> client,
           answer |-> IF Route(read) = "answers" THEN ERR ELSE None])
  /\ Goto("acceptRequests", "post")
  /\ UNCHANGED <<serverAddr, arrived, read, client, sem, cur, stats, unwritten, sent>>

\* catch(UnknownFormatProtocol) posts its answer too.
PostUnlessErr(q) == IF q = "answers" THEN UNCHANGED sem ELSE Post(q)  \* mutant
PostRouted(q)    == Post(q)

AcceptPost ==
  /\ pc["acceptRequests"] = "post"
  /\ PostRouted(Route(read))
  /\ read' = None /\ client' = None
  /\ Goto("acceptRequests", "receive")
  /\ UNCHANGED <<serverAddr, arrived, queue, cur, stats, unwritten, sent>>

-----------------------------------------------------------------------------
(* processTQR, processTER, processIQR: each pops a request, works out the  *)
(* answer in local variables and queues it.                                *)

Own(t) == CASE t = "processTQR" -> "tqrRequests"
            [] t = "processTER" -> "terRequests"
            [] t = "processIQR" -> "iqrRequests"
            [] t = "sendAnswer" -> "answers"

WorkerWait(t) == Wait(t, Own(t))

WorkerPush(t) ==
  /\ pc[t] = "push"
  /\ Push("answers", cur[t])
  /\ cur' = [cur EXCEPT ![t] = None]
  /\ Goto(t, "post")
  /\ UNCHANGED <<serverAddr, arrived, read, client, sem, stats, unwritten, sent>>

WorkerPost(t) ==
  /\ pc[t] = "post"
  /\ Post("answers")
  /\ Goto(t, "wait")
  /\ UNCHANGED <<serverAddr, arrived, read, client, queue, cur, stats, unwritten, sent>>

\* The request with its answer, ready to be queued.
Answers(t, a) ==
  /\ cur' = [cur EXCEPT ![t] = [Head(queue[Own(t)]) EXCEPT !.answer = a]]
  /\ Goto(t, "push")
  /\ UNCHANGED <<serverAddr, arrived, read, client, sem, sent>>

\* topics(): EOF (without its '\n') when the file lists none.
ProcessTQRPop ==
  /\ Take("processTQR", "tqrRequests")
  /\ Answers("processTQR", IF Topics = 0 THEN EOF ELSE [kind |-> "AWT"])
  /\ UNCHANGED <<stats, unwritten>>

TopicDataBelow(l) ==                               \* mutant
  CASE l.kind = "badTER" -> ERR
    [] l.kind = "TER" /\ l.topic \in 1..(Topics - 1) -> [kind |-> "AWTES", topic |-> l.topic]
    [] OTHER -> EOF

\* topicData(): InvalidTID when the file has fewer topics.
TopicData(l) ==
  CASE l.kind = "badTER"                       -> ERR
    [] l.kind = "TER" /\ l.topic \in 1..Topics -> [kind |-> "AWTES", topic |-> l.topic]
    [] OTHER                                   -> EOF

ProcessTERPop ==
  /\ Take("processTER", "terRequests")
  /\ Answers("processTER", TopicData(Head(queue["terRequests"]).message))
  /\ UNCHANGED <<stats, unwritten>>

\* The line a result adds to stats.txt, opened in append mode.
RecordOver(x) == <<x>>                             \* mutant
Record(x)     == Append(stats, x)

\* Nothing looks at whether open(), << and close() did their work; a line cut
\* short counts as not written.
Write(r) ==
  \/ /\ stats' = Record(r.message.result)
     /\ UNCHANGED unwritten
  \/ /\ unwritten' = Append(unwritten, r.message.result)
     /\ UNCHANGED stats

\* The file is written, or not, before the acknowledgement is queued.
ProcessIQRPop ==
  LET r == Head(queue["iqrRequests"]) IN
  /\ Take("processIQR", "iqrRequests")
  /\ \/ /\ r.message.kind = "IQR"
        /\ Write(r)
        /\ Answers("processIQR", AWI(r.message.result))
     \/ /\ r.message.kind = "badIQR"
        /\ Answers("processIQR", ERR)
        /\ UNCHANGED <<stats, unwritten>>

\* std::out_of_range is not caught.
ProcessIQRThrows ==
  /\ pc["processIQR"] = "pop"
  /\ queue["iqrRequests"] # <<>>
  /\ Head(queue["iqrRequests"]).message.kind = "hugeIQR"
  /\ Terminate /\ UNCHANGED arrived

-----------------------------------------------------------------------------
(* sendAnswer.                                                             *)

SendAnswerWait == Wait("sendAnswer", "answers")

SendAnswerPop ==
  /\ Take("sendAnswer", "answers")
  /\ cur' = [cur EXCEPT !["sendAnswer"] = Head(queue["answers"])]
  /\ Goto("sendAnswer", "address")
  /\ UNCHANGED <<serverAddr, arrived, read, client, sem, stats, unwritten, sent>>

\* _socketUDP.client(r.client()).
SendAnswerAddress ==
  /\ pc["sendAnswer"] = "address"
  /\ serverAddr' = cur["sendAnswer"].client
  /\ Goto("sendAnswer", "send")
  /\ UNCHANGED <<arrived, read, client, queue, sem, cur, stats, unwritten, sent>>

\* _socketUDP.send(r.answer()), to whatever address the socket has by now.
SendAnswerSend ==
  LET r == cur["sendAnswer"] IN
  /\ pc["sendAnswer"] = "send"
  /\ sent' = Append(sent, [id |-> r.id, to |-> serverAddr, answer |-> r.answer])
  /\ cur' = [cur EXCEPT !["sendAnswer"] = None]
  /\ Goto("sendAnswer", "wait")
  /\ UNCHANGED <<serverAddr, arrived, read, client, queue, sem, stats, unwritten>>

-----------------------------------------------------------------------------
AcceptRequests ==
  \/ AcceptBind \/ AcceptInUse \/ AcceptBindFails
  \/ AcceptClient \/ AcceptPush \/ AcceptPost
  \/ \E p \in Peers, l \in Lines : AcceptReceive(p, l) \/ AcceptTooLong(p, l)

Worker(t) == WorkerWait(t) \/ WorkerPush(t) \/ WorkerPost(t)

ProcessTQR == Worker("processTQR") \/ ProcessTQRPop
ProcessTER == Worker("processTER") \/ ProcessTERPop
ProcessIQR == Worker("processIQR") \/ ProcessIQRPop \/ ProcessIQRThrows

SendAnswer ==
  SendAnswerWait \/ SendAnswerPop \/ SendAnswerAddress \/ SendAnswerSend

Next ==
  AcceptRequests \/ ProcessTQR \/ ProcessTER \/ ProcessIQR \/ SendAnswer

Spec == Init /\ [][Next]_vars

\* Every thread that can go on does; nobody is asked to send anything.
Fairness ==
  /\ WF_vars(AcceptBind) /\ WF_vars(AcceptClient)
  /\ WF_vars(AcceptPush) /\ WF_vars(AcceptPost)
  /\ WF_vars(ProcessTQR) /\ WF_vars(ProcessTER) /\ WF_vars(ProcessIQR)
  /\ WF_vars(SendAnswer)

FairSpec == Spec /\ Fairness

-----------------------------------------------------------------------------
(* Properties.                                                             *)

Running == pc["acceptRequests"] # "terminated"

Labels == {"bind", "receive", "client", "push", "post", "wait", "pop",
           "address", "send", "done", "terminated"}

Addresses == Peers \cup {None}

\* Every variable holds what the fields and the locals of the code can hold.
TypeOK ==
  /\ serverAddr \in Addresses
  /\ arrived \in Seq([from : Peers, line : Lines, open : SUBSET Ids])
  /\ Len(arrived) <= MaxDatagrams
  /\ read \in Lines \cup {None}
  /\ client \in Addresses
  /\ queue \in [Queues -> Seq(Request)]
  /\ sem \in [Queues -> Nat]
  /\ cur \in [Locals -> Request \cup {None}]
  /\ pc \in [Threads -> Labels]
  /\ stats \in Seq(Results) /\ unwritten \in Seq(Results)
  /\ sent \in Seq([id : Ids, to : Addresses, answer : Answer])

At(t, label) == IF pc[t] = label THEN 1 ELSE 0

\* The thread that takes from q, between its sem_wait and its pop.
Popping(q) ==
  CASE q = "tqrRequests" -> At("processTQR", "pop")
    [] q = "terRequests" -> At("processTER", "pop")
    [] q = "iqrRequests" -> At("processIQR", "pop")
    [] q = "answers"     -> At("sendAnswer", "pop")

\* The items of q pushed and not yet posted.
Posting(q) ==
  (IF read # None /\ Route(read) = q THEN At("acceptRequests", "post") ELSE 0)
    + (IF q = "answers" THEN At("processTQR", "post") + At("processTER", "post")
                               + At("processIQR", "post")
                        ELSE 0)

\* The posts a queue has received and not yet spent, those still to come from
\* up to four threads and the thread about to pop account for every item:
\* front() is never called on an empty queue, and no request is left in one
\* with nobody to be woken for it.
SemCountsQueue ==
  Running => \A q \in Queues : sem[q] + Popping(q) + Posting(q) = Len(queue[q])

\* Where a datagram can be: with acceptRequests, in a queue, in the local r of
\* a thread, answered.
InHand(i)   == i = Len(arrived) /\ pc["acceptRequests"] \in {"client", "push"}
InQueue(i)  == \E q \in Queues : \E n \in 1..Len(queue[q]) : queue[q][n].id = i
InThread(i) == \E t \in Locals : cur[t] # None /\ cur[t].id = i
IsSent(i)   == \E n \in 1..Len(sent) : sent[n].id = i

Apart ==
  /\ \A p, q \in Queues : \A m \in 1..Len(queue[p]), n \in 1..Len(queue[q]) :
       queue[p][m].id = queue[q][n].id => p = q /\ m = n
  /\ \A t, u \in Locals :
       cur[t] # None /\ cur[u] # None /\ cur[t].id = cur[u].id => t = u
  /\ \A m, n \in 1..Len(sent) : sent[m].id = sent[n].id => m = n
  /\ \A i \in Ids :
       /\ ~(InQueue(i) /\ InThread(i))
       /\ ~(IsSent(i) /\ (InQueue(i) \/ InThread(i)))
       /\ ~(InHand(i) /\ (InQueue(i) \/ InThread(i) \/ IsSent(i)))

\* A datagram is in exactly one place: none is lost between the threads, none
\* is answered twice.
OnePlace ==
  Running =>
    /\ \A i \in 1..Len(arrived) : InHand(i) \/ InQueue(i) \/ InThread(i) \/ IsSent(i)
    /\ Apart

\* The answer to i waits, is held by a thread or was sent, and is a.
Given(i, a) ==
  \/ \E n \in 1..Len(queue["answers"]) :
       queue["answers"][n].id = i /\ queue["answers"][n].answer = a
  \/ \E t \in Locals : cur[t] # None /\ cur[t].id = i /\ cur[t].answer = a
  \/ \E n \in 1..Len(sent) : sent[n].id = i /\ sent[n].answer = a

Acked == {i \in Ids : \E x \in Results : Given(i, AWI(x))}

\* Every acknowledgement there is, waiting or sent, stands for one writing of
\* its result to stats.txt, which failed or left a line of its own: no line is
\* lost once it is written, none is written for a request nobody answers, and
\* nothing but the file system comes between a result and its line.
RecordedWhenAcknowledged ==
  /\ Len(stats) + Len(unwritten) = Cardinality(Acked)
  /\ \A i \in Ids, x \in Results :
       Given(i, AWI(x)) => \/ \E n \in 1..Len(stats) : stats[n] = x
                          \/ \E n \in 1..Len(unwritten) : unwritten[n] = x

Astray(s) == s.to # arrived[s.id].from

\* Datagrams of different senders that were in the server at the same time.
Overlap ==
  \E j \in 1..Len(arrived) : \E i \in arrived[j].open :
    arrived[i].from # arrived[j].from

\* As long as the requests of different senders do not overlap, every answer
\* goes to the sender of its request.
OwnAnswerUnlessOverlap ==
  (\E n \in 1..Len(sent) : Astray(sent[n])) => Overlap

\* The lines datagram i can have been read as: its own, or, when it has no
\* '\n', whatever it makes with what was left in the buffer.
ReadAs(i) == Received(arrived[i].line)

\* a is an answer the protocol has for line l.
Answering(a, l) ==
  \/ a.kind = "AWT" /\ l.kind = "TQR" /\ Topics > 0
  \/ a.kind = "AWTES" /\ l.kind = "TER" /\ l.topic = a.topic /\ a.topic <= Topics
  \/ a.kind = "AWI" /\ l.kind = "IQR" /\ l.result = a.result
  \/ a.kind = "EOF" /\ \/ l.kind = "TQR" /\ Topics = 0
                       \/ l.kind = "TER" /\ l.topic > Topics
  \/ a.kind = "ERR" /\ l.kind \in {"badTER", "badIQR", "other", "unterminated"}

\* Five threads hand a request on and answer it: what is sent for a datagram is
\* the answer to its own line, never to that of another that was in the server
\* with it.  Only a datagram without '\n' may be answered as if it were another.
AnswersItsDatagram ==
  \A n \in 1..Len(sent) : \E l \in ReadAs(sent[n].id) : Answering(sent[n].answer, l)

\* acceptRequests is in recvfrom(), or has returned, and every other thread is
\* blocked in its sem_wait.
Stuck ==
  /\ pc["acceptRequests"] \in {"receive", "done"}
  /\ \A t \in Locals : pc[t] = "wait" /\ sem[Own(t)] = 0

\* The threads are never all asleep over a datagram nobody has answered: no
\* sem_post was missed and none was given to the wrong queue.
StuckOnlyWhenAnswered == Stuck => \A i \in 1..Len(arrived) : IsSent(i)

\* Every datagram is answered, to somebody, unless the process ends.
EveryDatagramAnswered ==
  \A i \in Ids :
    i <= Len(arrived) ~> (\E n \in 1..Len(sent) : sent[n].id = i) \/ ~Running

-----------------------------------------------------------------------------
(* What the comments of the code say, and the code does not do.            *)

\* RequestECP.h: the address of a request "identifies the client socket and
\* will allow to answer to the client later".
OwnAnswer == \A n \in 1..Len(sent) : ~Astray(sent[n])
=============================================================================
