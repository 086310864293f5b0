-------------------------- MODULE TesManagerProofs --------------------------
(* Proofs about TesManager, for every value of its constants.              *)
EXTENDS TesManager, TLAPS, FiniteSetTheorems

-----------------------------------------------------------------------------
(* The inductive invariant behind TypeOK and OnePlace.                     *)

\* A thread holds a request from its pop to the end of its iteration.
CurOK ==
  \A t \in TcpThreads :
    pc[t] # "terminated" =>
      (cur[t] = None <=> pc[t] \in {"wait", "pop", "post", "done"})

\* What the parsers rely on: the line of a request is read once, and the
\* queue a request is in says which line it has.
Fits(q, l) ==
  CASE q = "requests"    -> l = None
    [] q = "rqtRequests" -> l # None /\ l.kind \in {"RQT", "badRQT"}
    [] q = "rqsRequests" -> l # None /\ l.kind \in {"RQS", "badRQS"}
    [] OTHER             -> TRUE

LinesOK ==
  /\ \A q \in ConnQueues : \A i \in 1..Len(queue[q]) : Fits(q, line[queue[q][i]])
  /\ pc["processTCP"] = "read" => line[cur["processTCP"]] = None
  /\ pc["processRQS"] \in {"lock", "find", "grade"} =>
       line[cur["processRQS"]] # None /\ line[cur["processRQS"]].kind = "RQS"
  /\ \A c \in Clients : client[c] = "idle" => line[c] = None

\* The locals and the answer a thread is about to use are set.
LocalsOK ==
  /\ pc["processRQT"] \in {"lock", "insert"} => Answered(cur["processRQT"], "AQT")
  /\ pc["processRQS"] = "grade" => quiz # None
  /\ pc["answerUDP"] = "store" => iqr # None

IInv == TypeOK /\ OnePlace /\ CurOK /\ LinesOK /\ LocalsOK

-----------------------------------------------------------------------------
(* How a request moves: it arrives, is taken from a queue, is given to a   *)
(* queue, and its connection is closed.                                    *)

LEMMA TakeKeepsOnePlace ==
  ASSUME TypeOK, OnePlace,
         NEW t \in TcpThreads, NEW q \in ConnQueues,
         cur[t] = None, Pop(q), Load(t, Head(queue[q])), UNCHANGED client
  PROVE  OnePlace'
<1> DEFINE h == Head(queue[q])
<1>1. /\ queue[q] \in Seq(Clients) /\ queue[q] # <<>>
      /\ h = queue[q][1] /\ h \in Clients /\ 1 \in 1..Len(queue[q])
  BY DEF TypeOK, QueuesOK, Pop
<1>2. /\ queue'[q] = Tail(queue[q])
      /\ Len(queue'[q]) = Len(queue[q]) - 1
      /\ \A i \in 1..Len(queue'[q]) :
           i + 1 \in 1..Len(queue[q]) /\ queue'[q][i] = queue[q][i + 1]
      /\ \A p \in ConnQueues : p # q => queue'[p] = queue[p]
  BY <1>1 DEF TypeOK, QueuesOK, Pop, Queues
<1>3. /\ cur'[t] = h
      /\ \A u \in TcpThreads : u # t => cur'[u] = cur[u]
  BY DEF Load, TypeOK, QueuesOK
<1>4. \A p \in ConnQueues : \A i \in 1..Len(queue'[p]) :
        \E j \in 1..Len(queue[p]) : queue'[p][i] = queue[p][j] /\ (p = q => j = i + 1)
                                                  /\ (p # q => j = i)
  BY <1>2
<1>5. \A p, r \in ConnQueues : \A i \in 1..Len(queue'[p]), j \in 1..Len(queue'[r]) :
        queue'[p][i] = queue'[r][j] => p = r /\ i = j
  <2> SUFFICES ASSUME NEW p \in ConnQueues, NEW r \in ConnQueues,
                      NEW i \in 1..Len(queue'[p]), NEW j \in 1..Len(queue'[r]),
                      queue'[p][i] = queue'[r][j]
               PROVE  p = r /\ i = j
    OBVIOUS
  <2>1. PICK k \in 1..Len(queue[p]) : queue'[p][i] = queue[p][k] /\ (p = q => k = i + 1)
                                                  /\ (p # q => k = i)
    BY <1>4
  <2>2. PICK l \in 1..Len(queue[r]) : queue'[r][j] = queue[r][l] /\ (r = q => l = j + 1)
                                                  /\ (r # q => l = j)
    BY <1>4
  <2>3. queue[p][k] = queue[r][l]
    BY <2>1, <2>2
  <2>4. p = r /\ k = l
    BY <2>3 DEF OnePlace
  <2> QED  BY <2>1, <2>2, <2>4
<1>6. \A u \in TcpThreads, p \in ConnQueues : \A i \in 1..Len(queue'[p]) :
        queue'[p][i] # cur'[u]
  <2> SUFFICES ASSUME NEW u \in TcpThreads, NEW p \in ConnQueues,
                      NEW i \in 1..Len(queue'[p])
               PROVE  queue'[p][i] # cur'[u]
    OBVIOUS
  <2>1. PICK k \in 1..Len(queue[p]) : queue'[p][i] = queue[p][k] /\ (p = q => k = i + 1)
    BY <1>4
  <2>2. CASE u = t
    <3>1. p = q => k # 1
      BY <2>1
    <3>2. queue[p][k] # queue[q][1]
      BY <3>1, <1>1 DEF OnePlace
    <3> QED  BY <3>2, <2>1, <2>2, <1>1, <1>3
  <2>3. CASE u # t
    BY <2>1, <2>3, <1>3 DEF OnePlace
  <2> QED  BY <2>2, <2>3
<1>7. \A u, w \in TcpThreads : cur'[u] = cur'[w] /\ cur'[u] # None => u = w
  <2>1. \A u \in TcpThreads : cur[u] # h
    BY <1>1 DEF OnePlace
  <2> QED  BY <2>1, <1>3 DEF OnePlace
<1>8. \A c \in Clients : Held(c)' <=> Held(c)
  <2> SUFFICES ASSUME NEW c \in Clients PROVE Held(c)' <=> Held(c)
    OBVIOUS
  <2>1. ASSUME Held(c)' PROVE Held(c)
    <3>1. CASE \E p \in ConnQueues : \E i \in 1..Len(queue'[p]) : queue'[p][i] = c
      BY <3>1, <1>4 DEF Held
    <3>2. CASE \E u \in TcpThreads : cur'[u] = c
      BY <3>2, <1>3, <1>1 DEF Held
    <3> QED  BY <2>1, <3>1, <3>2 DEF Held
  <2>2. ASSUME Held(c) PROVE Held(c)'
    <3>1. CASE \E p \in ConnQueues : \E i \in 1..Len(queue[p]) : queue[p][i] = c
      <4>p. PICK p \in ConnQueues : \E i \in 1..Len(queue[p]) : queue[p][i] = c
        BY <3>1
      <4>1. PICK i \in 1..Len(queue[p]) : queue[p][i] = c
        BY <4>p
      <4>2. CASE p = q /\ i = 1
        BY <4>1, <4>2, <1>1, <1>3 DEF Held
      <4>3. CASE p = q /\ i # 1
        <5>1. i - 1 \in 1..Len(queue'[q]) /\ queue'[q][i - 1] = c
          BY <4>1, <4>3, <1>1, <1>2
        <5> QED  BY <5>1 DEF Held
      <4>4. CASE p # q
        BY <4>1, <4>4, <1>2 DEF Held
      <4> QED  BY <4>2, <4>3, <4>4
    <3>2. CASE \E u \in TcpThreads : cur[u] = c
      BY <3>2, <1>3, TesAssumption DEF Held
    <3> QED  BY <2>2, <3>1, <3>2 DEF Held
  <2> QED  BY <2>1, <2>2
<1> QED  BY <1>5, <1>6, <1>7, <1>8 DEF OnePlace

LEMMA GiveKeepsOnePlace ==
  ASSUME TypeOK, OnePlace,
         NEW t \in TcpThreads, NEW q \in ConnQueues,
         cur[t] # None, Push(q, cur[t]), Drop(t), UNCHANGED client
  PROVE  OnePlace'
<1> DEFINE c == cur[t]
           n == Len(queue[q]) + 1
<1>1. c \in Clients /\ queue[q] \in Seq(Clients) /\ Len(queue[q]) \in Nat
  BY DEF TypeOK, QueuesOK
<1>2. /\ Len(queue'[q]) = n /\ queue'[q][n] = c
      /\ \A i \in 1..n : i # n => i \in 1..Len(queue[q]) /\ queue'[q][i] = queue[q][i]
      /\ \A p \in ConnQueues : p # q => queue'[p] = queue[p]
  BY <1>1 DEF TypeOK, QueuesOK, Push, Queues
<1>3. /\ cur'[t] = None
      /\ \A u \in TcpThreads : u # t => cur'[u] = cur[u]
  BY DEF Drop, TypeOK, QueuesOK
<1>4. /\ \A p \in ConnQueues : \A i \in 1..Len(queue[p]) : queue[p][i] # c
      /\ \A u \in TcpThreads : u # t => cur[u] # c
  BY DEF OnePlace
<1>5. \A p \in ConnQueues : \A i \in 1..Len(queue'[p]) :
        \/ p = q /\ i = n /\ queue'[p][i] = c
        \/ i \in 1..Len(queue[p]) /\ queue'[p][i] = queue[p][i]
  BY <1>2
<1>6. \A p, r \in ConnQueues : \A i \in 1..Len(queue'[p]), j \in 1..Len(queue'[r]) :
        queue'[p][i] = queue'[r][j] => p = r /\ i = j
  <2> SUFFICES ASSUME NEW p \in ConnQueues, NEW r \in ConnQueues,
                      NEW i \in 1..Len(queue'[p]), NEW j \in 1..Len(queue'[r]),
                      queue'[p][i] = queue'[r][j]
               PROVE  p = r /\ i = j
    OBVIOUS
  <2> QED  BY <1>4, <1>5 DEF OnePlace
<1>7. \A u \in TcpThreads, p \in ConnQueues : \A i \in 1..Len(queue'[p]) :
        queue'[p][i] # cur'[u]
  <2> SUFFICES ASSUME NEW u \in TcpThreads, NEW p \in ConnQueues,
                      NEW i \in 1..Len(queue'[p])
               PROVE  queue'[p][i] # cur'[u]
    OBVIOUS
  <2>1. \A j \in 1..Len(queue[p]) : queue[p][j] \in Clients
    BY DEF TypeOK, QueuesOK
  <2>2. CASE u = t
    BY <2>1, <2>2, <1>1, <1>3, <1>5, TesAssumption
  <2>3. CASE u # t
    BY <2>3, <1>3, <1>4, <1>5 DEF OnePlace
  <2> QED  BY <2>2, <2>3
<1>8. \A u, w \in TcpThreads : cur'[u] = cur'[w] /\ cur'[u] # None => u = w
  BY <1>3 DEF OnePlace
<1>9. \A d \in Clients : Held(d)' <=> Held(d)
  <2> SUFFICES ASSUME NEW d \in Clients PROVE Held(d)' <=> Held(d)
    OBVIOUS
  <2>1. CASE d = c
    <3>1. Held(d)
      BY <2>1 DEF Held
    <3>2. n \in 1..Len(queue'[q]) /\ queue'[q][n] = d
      BY <2>1, <1>1, <1>2
    <3> QED  BY <3>1, <3>2 DEF Held
  <2>2. CASE d # c
    <3>1. (\E p \in ConnQueues : \E i \in 1..Len(queue'[p]) : queue'[p][i] = d)
            <=> \E p \in ConnQueues : \E i \in 1..Len(queue[p]) : queue[p][i] = d
      <4>1. ASSUME NEW p \in ConnQueues, NEW i \in 1..Len(queue'[p]), queue'[p][i] = d
            PROVE  i \in 1..Len(queue[p]) /\ queue[p][i] = d
        BY <4>1, <2>2, <1>5
      <4>2. ASSUME NEW p \in ConnQueues, NEW i \in 1..Len(queue[p]), queue[p][i] = d
            PROVE  i \in 1..Len(queue'[p]) /\ queue'[p][i] = d
        BY <4>2, <1>1, <1>2
      <4> QED  BY <4>1, <4>2
    <3>2. (\E u \in TcpThreads : cur'[u] = d) <=> \E u \in TcpThreads : cur[u] = d
      BY <2>2, <1>3, TesAssumption
    <3> QED  BY <3>1, <3>2 DEF Held
  <2> QED  BY <2>1, <2>2
<1> QED  BY <1>6, <1>7, <1>8, <1>9 DEF OnePlace

LEMMA ArriveKeepsOnePlace ==
  ASSUME TypeOK, OnePlace,
         NEW c \in Clients, client[c] = "idle",
         client' = [client EXCEPT ![c] = "open"],
         Push("requests", c), UNCHANGED cur
  PROVE  OnePlace'
<1> DEFINE q == "requests"
           n == Len(queue[q]) + 1
<1>1. q \in ConnQueues /\ queue[q] \in Seq(Clients) /\ Len(queue[q]) \in Nat
  BY DEF TypeOK, QueuesOK, ConnQueues
<1>2. /\ Len(queue'[q]) = n /\ queue'[q][n] = c
      /\ \A i \in 1..n : i # n => i \in 1..Len(queue[q]) /\ queue'[q][i] = queue[q][i]
      /\ \A p \in ConnQueues : p # q => queue'[p] = queue[p]
  BY <1>1 DEF TypeOK, QueuesOK, Push, Queues
<1>3. ~Held(c)
  BY DEF OnePlace
<1>4. /\ \A p \in ConnQueues : \A i \in 1..Len(queue[p]) : queue[p][i] # c
      /\ \A u \in TcpThreads : cur[u] # c
  BY <1>3 DEF Held
<1>5. \A p \in ConnQueues : \A i \in 1..Len(queue'[p]) :
        \/ p = q /\ i = n /\ queue'[p][i] = c
        \/ i \in 1..Len(queue[p]) /\ queue'[p][i] = queue[p][i]
  BY <1>2
<1>6. \A p, r \in ConnQueues : \A i \in 1..Len(queue'[p]), j \in 1..Len(queue'[r]) :
        queue'[p][i] = queue'[r][j] => p = r /\ i = j
  <2> SUFFICES ASSUME NEW p \in ConnQueues, NEW r \in ConnQueues,
                      NEW i \in 1..Len(queue'[p]), NEW j \in 1..Len(queue'[r]),
                      queue'[p][i] = queue'[r][j]
               PROVE  p = r /\ i = j
    OBVIOUS
  <2> QED  BY <1>4, <1>5 DEF OnePlace
<1>7. \A u \in TcpThreads, p \in ConnQueues : \A i \in 1..Len(queue'[p]) :
        queue'[p][i] # cur'[u]
  BY <1>4, <1>5 DEF OnePlace
<1>8. \A d \in Clients : client'[d] = "open" <=> Held(d)'
  <2> SUFFICES ASSUME NEW d \in Clients PROVE client'[d] = "open" <=> Held(d)'
    OBVIOUS
  <2>1. CASE d = c
    <3>1. n \in 1..Len(queue'[q]) /\ queue'[q][n] = d
      BY <2>1, <1>1, <1>2
    <3> QED  BY <3>1, <2>1, <1>1 DEF Held, TypeOK, QueuesOK
  <2>2. CASE d # c
    <3>1. ASSUME NEW p \in ConnQueues
          PROVE  (\E i \in 1..Len(queue'[p]) : queue'[p][i] = d)
                   <=> \E i \in 1..Len(queue[p]) : queue[p][i] = d
      <4>1. \A i \in 1..Len(queue[q]) :
              i \in 1..Len(queue'[q]) /\ queue'[q][i] = queue[q][i]
        BY <1>1, <1>2
      <4>2. \A i \in 1..Len(queue'[q]) : queue'[q][i] = d =>
              i \in 1..Len(queue[q]) /\ queue'[q][i] = queue[q][i]
        BY <2>2, <1>2
      <4>3. CASE p = q
        BY <4>1, <4>2, <4>3
      <4>4. CASE p # q
        BY <4>4, <1>2
      <4> QED  BY <4>3, <4>4
    <3>2. Held(d)' <=> Held(d)
      BY <3>1 DEF Held
    <3> QED  BY <3>2, <2>2 DEF OnePlace, TypeOK, QueuesOK
  <2> QED  BY <2>1, <2>2
<1> QED  BY <1>6, <1>7, <1>8 DEF OnePlace

LEMMA CloseKeepsOnePlace ==
  ASSUME TypeOK, OnePlace,
         NEW t \in TcpThreads, NEW s, s # "open",
         cur[t] # None, client' = [client EXCEPT ![cur[t]] = s],
         Drop(t), UNCHANGED queue
  PROVE  OnePlace'
<1>1. cur[t] \in Clients
  BY DEF TypeOK, QueuesOK
<1>2. /\ cur'[t] = None
      /\ \A u \in TcpThreads : u # t => cur'[u] = cur[u]
  BY DEF Drop, TypeOK, QueuesOK
<1>3. /\ \A p \in ConnQueues : \A i \in 1..Len(queue[p]) : queue[p][i] # cur[t]
      /\ \A u \in TcpThreads : u # t => cur[u] # cur[t]
  BY DEF OnePlace
<1>4. \A u \in TcpThreads, p \in ConnQueues : \A i \in 1..Len(queue'[p]) :
        queue'[p][i] # cur'[u]
  <2> SUFFICES ASSUME NEW u \in TcpThreads, NEW p \in ConnQueues,
                      NEW i \in 1..Len(queue[p])
               PROVE  queue[p][i] # cur'[u]
    OBVIOUS
  <2>1. queue[p][i] \in Clients
    BY DEF TypeOK, QueuesOK
  <2> QED  BY <2>1, <1>2, TesAssumption DEF OnePlace
<1>5. \A u, w \in TcpThreads : cur'[u] = cur'[w] /\ cur'[u] # None => u = w
  BY <1>2 DEF OnePlace
<1>6. \A d \in Clients : client'[d] = "open" <=> Held(d)'
  <2> SUFFICES ASSUME NEW d \in Clients PROVE client'[d] = "open" <=> Held(d)'
    OBVIOUS
  <2>1. CASE d = cur[t]
    <3>1. client'[d] = s
      BY <2>1, <1>1 DEF TypeOK
    <3>2. \A u \in TcpThreads : cur'[u] # d
      BY <2>1, <1>1, <1>2, <1>3, TesAssumption
    <3>3. ~Held(d)'
      BY <2>1, <3>2, <1>3 DEF Held
    <3> QED  BY <3>1, <3>3
  <2>2. CASE d # cur[t]
    <3>1. (\E u \in TcpThreads : cur'[u] = d) <=> \E u \in TcpThreads : cur[u] = d
      BY <2>2, <1>2, TesAssumption
    <3>2. Held(d)' <=> Held(d)
      BY <3>1 DEF Held
    <3> QED  BY <3>2, <2>2, <1>1 DEF TypeOK, QueuesOK, OnePlace
  <2> QED  BY <2>1, <2>2
<1> QED  BY <1>4, <1>5, <1>6 DEF OnePlace

LEMMA SameKeepsOnePlace ==
  ASSUME OnePlace, \A q \in ConnQueues : queue'[q] = queue[q],
         UNCHANGED <<client, cur>>
  PROVE  OnePlace'
BY DEF OnePlace, Held

-----------------------------------------------------------------------------
(* Each step preserves the invariant.                                      *)

LEMMA PopQueuesOK ==
  ASSUME QueuesOK, NEW q \in Queues, Pop(q)
  PROVE  QueuesOK'
<1>1. queue'[q] = Tail(queue[q]) /\ \A p \in Queues : p # q => queue'[p] = queue[p]
  BY DEF QueuesOK, Pop
<1>2. queue' \in [Queues -> Seq(Clients \cup Qid \cup {None})]
  BY DEF QueuesOK, Pop
<1>3. \A p \in ConnQueues : queue'[p] \in Seq(Clients)
  <2> SUFFICES ASSUME NEW p \in ConnQueues PROVE queue'[p] \in Seq(Clients)
    OBVIOUS
  <2>1. CASE p = q
    <3>1. queue[q] \in Seq(Clients) /\ queue[q] # <<>>
      BY <2>1 DEF QueuesOK, Pop
    <3>2. Tail(queue[q]) \in Seq(Clients)
      BY <3>1
    <3> QED  BY <3>2, <2>1, <1>1
  <2>2. CASE p # q
    BY <2>2, <1>1 DEF QueuesOK, Queues
  <2> QED  BY <2>1, <2>2
<1>4. queue'["awiRequests"] \in Seq(Qid \cup {None})
  <2>1. CASE q = "awiRequests"
    <3>1. queue[q] \in Seq(Qid \cup {None}) /\ queue[q] # <<>>
      BY <2>1 DEF QueuesOK, Pop
    <3>2. Tail(queue[q]) \in Seq(Qid \cup {None})
      BY <3>1
    <3> QED  BY <3>2, <2>1, <1>1
  <2>2. CASE q # "awiRequests"
    BY <2>2, <1>1 DEF QueuesOK, Queues
  <2> QED  BY <2>1, <2>2
<1> QED  BY <1>2, <1>3, <1>4 DEF QueuesOK

LEMMA PushQueuesOK ==
  ASSUME QueuesOK, NEW q \in ConnQueues, NEW c \in Clients, Push(q, c)
  PROVE  QueuesOK'
<1>1. /\ queue'[q] = Append(queue[q], c)
      /\ \A p \in Queues : p # q => queue'[p] = queue[p]
  BY DEF QueuesOK, Push, Queues
<1>2. queue' \in [Queues -> Seq(Clients \cup Qid \cup {None})]
  <2>1. queue[q] \in Seq(Clients \cup Qid \cup {None})
    BY DEF QueuesOK, Queues
  <2>2. Append(queue[q], c) \in Seq(Clients \cup Qid \cup {None})
    BY <2>1
  <2> QED  BY <2>2 DEF QueuesOK, Push
<1>3. \A p \in ConnQueues : queue'[p] \in Seq(Clients)
  <2> SUFFICES ASSUME NEW p \in ConnQueues PROVE queue'[p] \in Seq(Clients)
    OBVIOUS
  <2>1. queue[p] \in Seq(Clients) /\ Append(queue[p], c) \in Seq(Clients)
    BY DEF QueuesOK
  <2> QED  BY <2>1, <1>1 DEF Queues
<1>4. queue'["awiRequests"] \in Seq(Qid \cup {None})
  BY <1>1 DEF QueuesOK, Queues, ConnQueues
<1> QED  BY <1>2, <1>3, <1>4 DEF QueuesOK

LEMMA PushAwiQueuesOK ==
  ASSUME QueuesOK, NEW d \in Qid \cup {None}, Push("awiRequests", d)
  PROVE  QueuesOK'
<1>1. /\ queue'["awiRequests"] = Append(queue["awiRequests"], d)
      /\ \A p \in Queues : p # "awiRequests" => queue'[p] = queue[p]
  BY DEF QueuesOK, Push, Queues
<1>2. queue' \in [Queues -> Seq(Clients \cup Qid \cup {None})]
  <2>1. queue["awiRequests"] \in Seq(Clients \cup Qid \cup {None})
    BY DEF QueuesOK, Queues
  <2>2. Append(queue["awiRequests"], d) \in Seq(Clients \cup Qid \cup {None})
    BY <2>1
  <2> QED  BY <2>2 DEF QueuesOK, Push
<1>3. \A p \in ConnQueues : queue'[p] \in Seq(Clients)
  BY <1>1 DEF QueuesOK, Queues, ConnQueues
<1>4. queue'["awiRequests"] \in Seq(Qid \cup {None})
  BY <1>1 DEF QueuesOK
<1> QED  BY <1>2, <1>3, <1>4 DEF QueuesOK

\* What a pop and a push leave in the queues.
LEMMA Popped ==
  ASSUME TypeOK, NEW q \in ConnQueues, Pop(q)
  PROVE  /\ Head(queue[q]) \in Clients /\ Head(queue[q]) # None
         /\ Head(queue[q]) = queue[q][1] /\ 1 \in 1..Len(queue[q])
         /\ \A p \in ConnQueues : \A i \in 1..Len(queue'[p]) :
              \E j \in 1..Len(queue[p]) : queue'[p][i] = queue[p][j]
<1>1. queue[q] \in Seq(Clients) /\ queue[q] # <<>>
  BY DEF TypeOK, QueuesOK, Pop
<1>2. queue'[q] = Tail(queue[q]) /\ \A p \in ConnQueues : p # q => queue'[p] = queue[p]
  BY DEF TypeOK, QueuesOK, Pop, Queues
<1>3. \A i \in 1..Len(queue'[q]) :
        i + 1 \in 1..Len(queue[q]) /\ queue'[q][i] = queue[q][i + 1]
  BY <1>1, <1>2
<1>4. \A p \in ConnQueues : \A i \in 1..Len(queue'[p]) :
        \E j \in 1..Len(queue[p]) : queue'[p][i] = queue[p][j]
  BY <1>2, <1>3
<1>5. /\ Head(queue[q]) = queue[q][1] /\ 1 \in 1..Len(queue[q])
      /\ Head(queue[q]) \in Clients
  BY <1>1
<1>6. Head(queue[q]) # None
  BY <1>5, TesAssumption
<1> QED  BY <1>4, <1>5, <1>6

LEMMA Pushed ==
  ASSUME TypeOK, NEW q \in ConnQueues, NEW c \in Clients, Push(q, c)
  PROVE  \A p \in ConnQueues : \A i \in 1..Len(queue'[p]) :
           \/ p = q /\ queue'[p][i] = c
           \/ \E j \in 1..Len(queue[p]) : queue'[p][i] = queue[p][j]
<1>1. queue[q] \in Seq(Clients)
  BY DEF TypeOK, QueuesOK
<1>2. /\ queue'[q] = Append(queue[q], c)
      /\ \A p \in ConnQueues : p # q => queue'[p] = queue[p]
  BY DEF TypeOK, QueuesOK, Push, Queues
<1>3. /\ Len(queue'[q]) = Len(queue[q]) + 1 /\ Len(queue[q]) \in Nat
      /\ queue'[q][Len(queue[q]) + 1] = c
      /\ \A i \in 1..Len(queue[q]) : queue'[q][i] = queue[q][i]
  BY <1>1, <1>2
<1> QED  BY <1>2, <1>3

\* A request is not in two threads, nor in a thread and in a queue.
LEMMA Apart ==
  ASSUME OnePlace
  PROVE  /\ \A t, u \in TcpThreads : t # u /\ cur[t] # None => cur[t] # cur[u]
         /\ \A t \in TcpThreads, q \in ConnQueues :
              \A i \in 1..Len(queue[q]) : queue[q][i] # cur[t]
BY DEF OnePlace

LEMMA WaitInv ==
  ASSUME IInv, NEW t \in Threads, NEW q \in Sems, Wait(t, q)
  PROVE  IInv'
<1> USE DEF IInv
<1>1. TypeOK'
  BY DEF TypeOK, QueuesOK, Wait, SemWait, Goto, Woken, peers, quizzes, udp, Labels
<1>2. OnePlace'
  BY SameKeepsOnePlace DEF Wait, peers
<1>3. CurOK'
  BY DEF CurOK, TypeOK, Wait, Goto, Woken, Threads, TcpThreads
<1>4. LinesOK'
  BY DEF LinesOK, TypeOK, QueuesOK, Wait, Goto, Woken, peers, Threads
<1>5. LocalsOK'
  BY DEF LocalsOK, Answered, TypeOK, Wait, Goto, Woken, quizzes, udp, Threads
<1> QED  BY <1>1, <1>2, <1>3, <1>4, <1>5

LEMMA TerminateInv ==
  ASSUME IInv, Terminate,
         UNCHANGED <<peers, answer, queue, sem, exit, quizzes, udp, cur>>
  PROVE  IInv'
<1> USE DEF IInv
<1>1. TypeOK'
  BY DEF TypeOK, QueuesOK, Terminate, peers, quizzes, udp, Labels
<1>2. OnePlace'
  BY SameKeepsOnePlace DEF peers
<1>3. CurOK'
  BY DEF CurOK, Terminate, Threads, TcpThreads
<1>4. LinesOK'
  BY DEF LinesOK, Terminate, peers, Threads
<1>5. LocalsOK'
  BY DEF LocalsOK, Terminate, Threads
<1> QED  BY <1>1, <1>2, <1>3, <1>4, <1>5

LEMMA AcceptTCPInv ==
  ASSUME IInv, AcceptTCP
  PROVE  IInv'
<1> USE DEF IInv
<1>1. CASE AcceptTCPBind
  <2>1. TypeOK'
    BY <1>1, TesAssumption
      DEF TypeOK, QueuesOK, AcceptTCPBind, Goto, peers, quizzes, udp, Threads,
        TcpThreads, Queues, ConnQueues, Sems, Labels
  <2>2. OnePlace'
    BY <1>1, SameKeepsOnePlace DEF AcceptTCPBind, peers
  <2>3. CurOK'
    BY <1>1, TesAssumption
      DEF CurOK, TypeOK, AcceptTCPBind, Goto, peers, quizzes, udp, Threads,
        TcpThreads, ConnQueues
  <2>4. LinesOK'
    BY <1>1
      DEF LinesOK, TypeOK, QueuesOK, OnePlace, CurOK, AcceptTCPBind,
        Goto, peers, quizzes, udp, Threads, TcpThreads, Queues, ConnQueues
  <2>5. LocalsOK'
    BY <1>1
      DEF LocalsOK, Answered, TypeOK, AcceptTCPBind, Goto, peers, quizzes, udp,
        Threads, TcpThreads
  <2> QED  BY <2>1, <2>2, <2>3, <2>4, <2>5
<1>2. CASE AcceptTCPInUse
  BY <1>2, TerminateInv DEF AcceptTCPInUse, peers, quizzes, udp
<1>3. CASE AcceptTCPPost
  <2>1. TypeOK'
    BY <1>3, TesAssumption
      DEF TypeOK, QueuesOK, AcceptTCPPost, Post, Again, peers, quizzes, udp,
        Goto, Threads, TcpThreads, Queues, ConnQueues, Sems, Labels
  <2>2. OnePlace'
    BY <1>3, SameKeepsOnePlace DEF AcceptTCPPost, peers
  <2>3. CurOK'
    BY <1>3, TesAssumption
      DEF CurOK, TypeOK, AcceptTCPPost, Again, peers, quizzes, udp, Goto,
        Threads, TcpThreads, ConnQueues
  <2>4. LinesOK'
    BY <1>3
      DEF LinesOK, TypeOK, QueuesOK, OnePlace, CurOK, AcceptTCPPost,
        Again, peers, quizzes, udp, Goto, Threads, TcpThreads, Queues,
        ConnQueues
  <2>5. LocalsOK'
    BY <1>3
      DEF LocalsOK, Answered, TypeOK, AcceptTCPPost, Again, peers, quizzes, udp,
        Goto, Threads, TcpThreads
  <2> QED  BY <2>1, <2>2, <2>3, <2>4, <2>5
<1>4. CASE AcceptTCPFail
  <2>1. TypeOK'
    BY <1>4, TesAssumption
      DEF TypeOK, QueuesOK, AcceptTCPFail, Goto, peers, quizzes, udp, Threads,
        TcpThreads, Queues, ConnQueues, Sems, Labels
  <2>2. OnePlace'
    BY <1>4, SameKeepsOnePlace DEF AcceptTCPFail, peers
  <2>3. CurOK'
    BY <1>4, TesAssumption
      DEF CurOK, TypeOK, AcceptTCPFail, Goto, peers, quizzes, udp, Threads,
        TcpThreads, ConnQueues
  <2>4. LinesOK'
    BY <1>4
      DEF LinesOK, TypeOK, QueuesOK, OnePlace, CurOK, AcceptTCPFail,
        Goto, peers, quizzes, udp, Threads, TcpThreads, Queues, ConnQueues
  <2>5. LocalsOK'
    BY <1>4
      DEF LocalsOK, Answered, TypeOK, AcceptTCPFail, Goto, peers, quizzes, udp,
        Threads, TcpThreads
  <2> QED  BY <2>1, <2>2, <2>3, <2>4, <2>5
<1>5. CASE AcceptTCPWake
  <2>1. TypeOK'
    <3>1. \A q \in Sems : WakeUps(q) \in Nat
      BY FS_CardinalityType, TesAssumption DEF WakeUps
    <3>2. sem' \in [Sems -> Nat]
      BY <1>5, <3>1 DEF AcceptTCPWake, TypeOK
    <3> QED  BY <1>5, <3>2
      DEF TypeOK, QueuesOK, AcceptTCPWake, Goto, peers, quizzes, udp, Labels
  <2>2. OnePlace'
    BY <1>5, SameKeepsOnePlace DEF AcceptTCPWake, peers
  <2>3. CurOK'
    BY <1>5, TesAssumption
      DEF CurOK, TypeOK, AcceptTCPWake, Goto, peers, quizzes, udp, Threads,
        TcpThreads, ConnQueues
  <2>4. LinesOK'
    BY <1>5
      DEF LinesOK, TypeOK, QueuesOK, OnePlace, CurOK, AcceptTCPWake,
        Goto, peers, quizzes, udp, Threads, TcpThreads, Queues, ConnQueues
  <2>5. LocalsOK'
    BY <1>5
      DEF LocalsOK, Answered, TypeOK, AcceptTCPWake, Goto, peers, quizzes, udp,
        Threads, TcpThreads
  <2> QED  BY <2>1, <2>2, <2>3, <2>4, <2>5
<1>6. ASSUME NEW c \in Clients, AcceptTCPClient(c) PROVE IInv'
  <2>1. TypeOK'
    <3>1. QueuesOK'
      BY <1>6, PushQueuesOK DEF AcceptTCPClient, TypeOK, ConnQueues
    <3>2. client' \in [Clients -> ClientStates]
      BY <1>6 DEF AcceptTCPClient, TypeOK, ClientStates
    <3>3. pc' \in [Threads -> Labels]
      BY <1>6 DEF AcceptTCPClient, Goto, TypeOK, Labels
    <3> QED  BY <1>6, <3>1, <3>2, <3>3
      DEF TypeOK, AcceptTCPClient, quizzes, udp
  <2>2. OnePlace'
    BY <1>6, ArriveKeepsOnePlace DEF AcceptTCPClient
  <2>3. CurOK'
    BY <1>6, TesAssumption
      DEF CurOK, TypeOK, AcceptTCPClient, Push, Goto, quizzes, udp, Threads,
        TcpThreads, ConnQueues
  <2>4. LinesOK'
    <3>1. line[c] = None /\ UNCHANGED line
      BY <1>6 DEF LinesOK, AcceptTCPClient
    <3>2a. TypeOK /\ "requests" \in ConnQueues /\ Push("requests", c)
      BY <1>6 DEF AcceptTCPClient, ConnQueues
    <3>2. \A p \in ConnQueues : \A i \in 1..Len(queue'[p]) :
            \/ p = "requests" /\ queue'[p][i] = c
            \/ \E j \in 1..Len(queue[p]) : queue'[p][i] = queue[p][j]
      BY <3>2a, Pushed
    <3>3. \A p \in ConnQueues : \A i \in 1..Len(queue'[p]) : Fits(p, line'[queue'[p][i]])
      BY <3>1, <3>2 DEF LinesOK, Fits
    <3>4. /\ pc'["processTCP"] = pc["processTCP"] /\ pc'["processRQS"] = pc["processRQS"]
          /\ UNCHANGED cur
      BY <1>6 DEF AcceptTCPClient, Goto, TypeOK, Threads
    <3>5. \A d \in Clients : client'[d] = "idle" => client[d] = "idle"
      BY <1>6 DEF AcceptTCPClient, TypeOK
    <3> QED  BY <3>1, <3>3, <3>4, <3>5 DEF LinesOK
  <2>5. LocalsOK'
    BY <1>6
      DEF LocalsOK, Answered, TypeOK, AcceptTCPClient, Push, Goto, quizzes, udp,
        Threads, TcpThreads
  <2> QED  BY <2>1, <2>2, <2>3, <2>4, <2>5
<1> QED
  BY <1>1, <1>2, <1>3, <1>4, <1>5, <1>6 DEF AcceptTCP

LEMMA AcceptUDPInv ==
  ASSUME IInv, AcceptUDP
  PROVE  IInv'
<1> USE DEF IInv
<1>1. ASSUME NEW d \in Datagram, AcceptUDPReceive(d) PROVE IInv'
  <2>1. TypeOK'
    <3>1. QueuesOK'
      BY <1>1, PushAwiQueuesOK DEF AcceptUDPReceive, Datagram, TypeOK, Iqr
    <3> QED  BY <1>1, <3>1, TesAssumption
      DEF TypeOK, AcceptUDPReceive, Goto, peers, quizzes, udp, Threads,
        TcpThreads, Queues, ConnQueues, Sems, Labels
  <2>2. OnePlace'
    BY <1>1, SameKeepsOnePlace
      DEF AcceptUDPReceive, Push, peers, TypeOK, QueuesOK, Queues, ConnQueues
  <2>3. CurOK'
    BY <1>1, TesAssumption
      DEF CurOK, TypeOK, AcceptUDPReceive, Push, Goto, peers, quizzes, udp,
        Threads, TcpThreads, ConnQueues
  <2>4. LinesOK'
    BY <1>1
      DEF LinesOK, TypeOK, QueuesOK, OnePlace, CurOK,
        AcceptUDPReceive, Push, Goto, peers, quizzes, udp, Threads,
        TcpThreads, Queues, ConnQueues
  <2>5. LocalsOK'
    BY <1>1
      DEF LocalsOK, Answered, TypeOK, AcceptUDPReceive, Push, Goto, peers,
        quizzes, udp, Threads, TcpThreads
  <2> QED  BY <2>1, <2>2, <2>3, <2>4, <2>5
<1>2. CASE AcceptUDPPost
  <2>1. TypeOK'
    BY <1>2, TesAssumption
      DEF TypeOK, QueuesOK, AcceptUDPPost, Post, Again, peers, quizzes, udp,
        Goto, Threads, TcpThreads, Queues, ConnQueues, Sems, Labels
  <2>2. OnePlace'
    BY <1>2, SameKeepsOnePlace DEF AcceptUDPPost, peers
  <2>3. CurOK'
    BY <1>2, TesAssumption
      DEF CurOK, TypeOK, AcceptUDPPost, Again, peers, quizzes, udp, Goto,
        Threads, TcpThreads, ConnQueues
  <2>4. LinesOK'
    BY <1>2
      DEF LinesOK, TypeOK, QueuesOK, OnePlace, CurOK, AcceptUDPPost,
        Again, peers, quizzes, udp, Goto, Threads, TcpThreads, Queues,
        ConnQueues
  <2>5. LocalsOK'
    BY <1>2
      DEF LocalsOK, Answered, TypeOK, AcceptUDPPost, Again, peers, quizzes, udp,
        Goto, Threads, TcpThreads
  <2> QED  BY <2>1, <2>2, <2>3, <2>4, <2>5
<1>3. CASE AcceptUDPLeave
  <2>1. TypeOK'
    BY <1>3, TesAssumption
      DEF TypeOK, QueuesOK, AcceptUDPLeave, Goto, peers, quizzes, udp, Threads,
        TcpThreads, Queues, ConnQueues, Sems, Labels
  <2>2. OnePlace'
    BY <1>3, SameKeepsOnePlace DEF AcceptUDPLeave, peers
  <2>3. CurOK'
    BY <1>3, TesAssumption
      DEF CurOK, TypeOK, AcceptUDPLeave, Goto, peers, quizzes, udp, Threads,
        TcpThreads, ConnQueues
  <2>4. LinesOK'
    BY <1>3
      DEF LinesOK, TypeOK, QueuesOK, OnePlace, CurOK, AcceptUDPLeave,
        Goto, peers, quizzes, udp, Threads, TcpThreads, Queues, ConnQueues
  <2>5. LocalsOK'
    BY <1>3
      DEF LocalsOK, Answered, TypeOK, AcceptUDPLeave, Goto, peers, quizzes, udp,
        Threads, TcpThreads
  <2> QED  BY <2>1, <2>2, <2>3, <2>4, <2>5
<1> QED
  BY <1>1, <1>2, <1>3 DEF AcceptUDP

LEMMA ProcessTCPInv ==
  ASSUME IInv, ProcessTCP
  PROVE  IInv'
<1> USE DEF IInv
<1>1. CASE ProcessTCPWait
  BY <1>1, WaitInv DEF ProcessTCPWait, Threads, Sems, Queues, ConnQueues
<1>2. CASE ProcessTCPPop
  <2>1. TypeOK'
    <3>1. QueuesOK'
      BY <1>2, PopQueuesOK DEF ProcessTCPPop, TypeOK, Queues, ConnQueues
    <3>2. Head(queue["requests"]) \in Clients
      BY <1>2, Popped DEF ProcessTCPPop, ConnQueues
    <3>3. cur' \in [TcpThreads -> Clients \cup {None}]
      BY <1>2, <3>2 DEF ProcessTCPPop, Load, TypeOK
    <3>4. pc' \in [Threads -> Labels]
      BY <1>2 DEF ProcessTCPPop, Goto, TypeOK, Labels
    <3> QED  BY <1>2, <3>1, <3>3, <3>4
      DEF TypeOK, ProcessTCPPop, peers, quizzes, udp
  <2>2. OnePlace'
    <3>1. "processTCP" \in TcpThreads /\ "processTCP" \in Threads /\ "requests" \in ConnQueues
      BY DEF Threads, TcpThreads, ConnQueues
    <3>2. cur["processTCP"] = None
      BY <1>2, <3>1 DEF ProcessTCPPop, CurOK
    <3> QED  BY <1>2, <3>1, <3>2, TakeKeepsOnePlace DEF ProcessTCPPop, peers
  <2>3. CurOK'
    <3>1. Head(queue["requests"]) # None
      BY <1>2, Popped DEF ProcessTCPPop, ConnQueues
    <3>2. /\ cur'["processTCP"] # None
          /\ pc'["processTCP"] \in {"read"}
          /\ \A t \in TcpThreads : t # "processTCP" => cur'[t] = cur[t] /\ pc'[t] = pc[t]
      BY <1>2, <3>1 DEF ProcessTCPPop, Load, Goto, TypeOK, TcpThreads, Threads
    <3> QED  BY <3>2 DEF CurOK
  <2>4. LinesOK'
    <3>1. \A p \in ConnQueues : \A i \in 1..Len(queue'[p]) :
            \E j \in 1..Len(queue[p]) : queue'[p][i] = queue[p][j]
      BY <1>2, Popped DEF ProcessTCPPop, ConnQueues
    <3>2. UNCHANGED <<client, line>>
      BY <1>2 DEF ProcessTCPPop, peers
    <3>3. \A p \in ConnQueues : \A i \in 1..Len(queue'[p]) : Fits(p, line'[queue'[p][i]])
      BY <3>1, <3>2 DEF LinesOK
    <3>4. Fits("requests", line[Head(queue["requests"])])
      BY <1>2, Popped DEF ProcessTCPPop, LinesOK, ConnQueues
    <3>5. /\ cur'["processTCP"] = Head(queue["requests"])
          /\ cur'["processRQS"] = cur["processRQS"] /\ pc'["processRQS"] = pc["processRQS"]
      BY <1>2 DEF ProcessTCPPop, Load, Goto, TypeOK, Threads, TcpThreads
    <3> QED  BY <3>2, <3>3, <3>4, <3>5 DEF LinesOK, Fits
  <2>5. LocalsOK'
    BY <1>2
      DEF LocalsOK, Answered, TypeOK, ProcessTCPPop, Pop, Load, Goto, peers,
        quizzes, udp, Threads, TcpThreads
  <2> QED  BY <2>1, <2>2, <2>3, <2>4, <2>5
<1>3. CASE ProcessTCPToRQT
  <2>1. TypeOK'
    <3>0. cur["processTCP"] \in Clients
      BY <1>3 DEF ProcessTCPToRQT, Read, CurOK, TypeOK, Threads, TcpThreads
    <3>1. QueuesOK'
      BY <1>3, <3>0, PushQueuesOK DEF ProcessTCPToRQT, Read, Hand, TypeOK, ConnQueues
    <3> QED  BY <1>3, <3>0, <3>1, TesAssumption
      DEF TypeOK, ProcessTCPToRQT, Read, Hand, Drop, Again, quizzes, udp, Goto,
        Post, Threads, TcpThreads, Queues, ConnQueues, Sems, Labels
  <2>2. OnePlace'
    <3>1. "processTCP" \in TcpThreads /\ "processTCP" \in Threads /\ "rqtRequests" \in ConnQueues
      BY DEF Threads, TcpThreads, ConnQueues
    <3>2. cur["processTCP"] # None
      BY <1>3, <3>1 DEF ProcessTCPToRQT, Read, CurOK
    <3> QED  BY <1>3, <3>1, <3>2, GiveKeepsOnePlace DEF ProcessTCPToRQT, Read, Hand
  <2>3. CurOK'
    BY <1>3, TesAssumption
      DEF CurOK, TypeOK, ProcessTCPToRQT, Read, Hand, Drop, Again, quizzes, udp,
        Goto, Push, Threads, TcpThreads, ConnQueues
  <2>4. LinesOK'
    <3> DEFINE c == cur["processTCP"]
    <3>0. c \in Clients /\ c # None
      BY <1>3, TesAssumption DEF ProcessTCPToRQT, Read, CurOK, TypeOK, Threads, TcpThreads
    <3>1. PICK l \in Line : l.kind \in Kinds /\ line' = [line EXCEPT ![c] = l]
          /\ Fits("rqtRequests", l)
      BY <1>3, TesAssumption DEF ProcessTCPToRQT, Read, Fits, Line
    <3>2. line'[c] = l /\ \A d \in Clients : d # c => line'[d] = line[d]
      BY <3>0, <3>1 DEF TypeOK
    <3>3a. TypeOK /\ "rqtRequests" \in ConnQueues /\ Push("rqtRequests", c)
      BY <1>3 DEF ProcessTCPToRQT, Read, Hand, ConnQueues
    <3>3. \A p \in ConnQueues : \A i \in 1..Len(queue'[p]) :
            \/ p = "rqtRequests" /\ queue'[p][i] = c
            \/ \E j \in 1..Len(queue[p]) : queue'[p][i] = queue[p][j]
      BY <3>3a, <3>0, Pushed
    <3>4. \A p \in ConnQueues : \A i \in 1..Len(queue[p]) :
            queue[p][i] \in Clients /\ queue[p][i] # c
      BY Apart DEF TypeOK, QueuesOK, TcpThreads
    <3>5. \A p \in ConnQueues : \A i \in 1..Len(queue'[p]) : Fits(p, line'[queue'[p][i]])
      BY <3>1, <3>2, <3>3, <3>4 DEF LinesOK
    <3>6. /\ pc'["processTCP"] # "read"
          /\ pc'["processRQS"] = pc["processRQS"] /\ cur'["processRQS"] = cur["processRQS"]
      BY <1>3 DEF ProcessTCPToRQT, Read, Again, Goto, Drop, TypeOK, Threads, TcpThreads
    <3>7. pc["processRQS"] \in {"lock", "find", "grade"} =>
            cur["processRQS"] \in Clients /\ cur["processRQS"] # c
      BY <3>0, Apart DEF CurOK, TypeOK, TcpThreads, Threads
    <3>8. client[c] = "open" /\ UNCHANGED client
      BY <1>3, <3>0 DEF ProcessTCPToRQT, Read, OnePlace, Held, TcpThreads
    <3> QED  BY <3>2, <3>5, <3>6, <3>7, <3>8 DEF LinesOK
  <2>5. LocalsOK'
    BY <1>3
      DEF LocalsOK, Answered, TypeOK, ProcessTCPToRQT, Read, Hand, Drop, Again,
        quizzes, udp, Goto, Push, Threads, TcpThreads
  <2> QED  BY <2>1, <2>2, <2>3, <2>4, <2>5
<1>4. CASE ProcessTCPToRQS
  <2>1. TypeOK'
    <3>0. cur["processTCP"] \in Clients
      BY <1>4 DEF ProcessTCPToRQS, Read, CurOK, TypeOK, Threads, TcpThreads
    <3>1. QueuesOK'
      BY <1>4, <3>0, PushQueuesOK DEF ProcessTCPToRQS, Read, Hand, TypeOK, ConnQueues
    <3> QED  BY <1>4, <3>0, <3>1, TesAssumption
      DEF TypeOK, ProcessTCPToRQS, Read, Hand, Drop, Again, quizzes, udp, Goto,
        Post, Threads, TcpThreads, Queues, ConnQueues, Sems, Labels
  <2>2. OnePlace'
    <3>1. "processTCP" \in TcpThreads /\ "processTCP" \in Threads /\ "rqsRequests" \in ConnQueues
      BY DEF Threads, TcpThreads, ConnQueues
    <3>2. cur["processTCP"] # None
      BY <1>4, <3>1 DEF ProcessTCPToRQS, Read, CurOK
    <3> QED  BY <1>4, <3>1, <3>2, GiveKeepsOnePlace DEF ProcessTCPToRQS, Read, Hand
  <2>3. CurOK'
    BY <1>4, TesAssumption
      DEF CurOK, TypeOK, ProcessTCPToRQS, Read, Hand, Drop, Again, quizzes, udp,
        Goto, Push, Threads, TcpThreads, ConnQueues
  <2>4. LinesOK'
    <3> DEFINE c == cur["processTCP"]
    <3>0. c \in Clients /\ c # None
      BY <1>4, TesAssumption DEF ProcessTCPToRQS, Read, CurOK, TypeOK, Threads, TcpThreads
    <3>1. PICK l \in Line : l.kind \in Kinds /\ line' = [line EXCEPT ![c] = l]
          /\ Fits("rqsRequests", l)
      BY <1>4, TesAssumption DEF ProcessTCPToRQS, Read, Fits, Line
    <3>2. line'[c] = l /\ \A d \in Clients : d # c => line'[d] = line[d]
      BY <3>0, <3>1 DEF TypeOK
    <3>3a. TypeOK /\ "rqsRequests" \in ConnQueues /\ Push("rqsRequests", c)
      BY <1>4 DEF ProcessTCPToRQS, Read, Hand, ConnQueues
    <3>3. \A p \in ConnQueues : \A i \in 1..Len(queue'[p]) :
            \/ p = "rqsRequests" /\ queue'[p][i] = c
            \/ \E j \in 1..Len(queue[p]) : queue'[p][i] = queue[p][j]
      BY <3>3a, <3>0, Pushed
    <3>4. \A p \in ConnQueues : \A i \in 1..Len(queue[p]) :
            queue[p][i] \in Clients /\ queue[p][i] # c
      BY Apart DEF TypeOK, QueuesOK, TcpThreads
    <3>5. \A p \in ConnQueues : \A i \in 1..Len(queue'[p]) : Fits(p, line'[queue'[p][i]])
      BY <3>1, <3>2, <3>3, <3>4 DEF LinesOK
    <3>6. /\ pc'["processTCP"] # "read"
          /\ pc'["processRQS"] = pc["processRQS"] /\ cur'["processRQS"] = cur["processRQS"]
      BY <1>4 DEF ProcessTCPToRQS, Read, Again, Goto, Drop, TypeOK, Threads, TcpThreads
    <3>7. pc["processRQS"] \in {"lock", "find", "grade"} =>
            cur["processRQS"] \in Clients /\ cur["processRQS"] # c
      BY <3>0, Apart DEF CurOK, TypeOK, TcpThreads, Threads
    <3>8. client[c] = "open" /\ UNCHANGED client
      BY <1>4, <3>0 DEF ProcessTCPToRQS, Read, OnePlace, Held, TcpThreads
    <3> QED  BY <3>2, <3>5, <3>6, <3>7, <3>8 DEF LinesOK
  <2>5. LocalsOK'
    BY <1>4
      DEF LocalsOK, Answered, TypeOK, ProcessTCPToRQS, Read, Hand, Drop, Again,
        quizzes, udp, Goto, Push, Threads, TcpThreads
  <2> QED  BY <2>1, <2>2, <2>3, <2>4, <2>5
<1>5. CASE ProcessTCPToERR
  <2>1. TypeOK'
    <3>0. cur["processTCP"] \in Clients
      BY <1>5 DEF ProcessTCPToERR, Read, CurOK, TypeOK, Threads, TcpThreads
    <3>1. QueuesOK'
      BY <1>5, <3>0, PushQueuesOK DEF ProcessTCPToERR, Read, Hand, TypeOK, ConnQueues
    <3>2. answer' \in [Clients -> Answer \cup {None}]
      BY <1>5, <3>0 DEF ProcessTCPToERR, Reply, ERR, Answer, TypeOK
    <3>3. sem' \in [Sems -> Nat]
      BY <1>5 DEF ProcessTCPToERR, Read, Hand, Post, TypeOK, Sems, Queues, ConnQueues
    <3>4. pc' \in [Threads -> Labels]
      BY <1>5 DEF ProcessTCPToERR, Read, Again, Goto, Labels, TypeOK
    <3>5. cur' \in [TcpThreads -> Clients \cup {None}]
      BY <1>5 DEF ProcessTCPToERR, Read, Drop, TypeOK
    <3>6. line' \in [Clients -> Line \cup {None}] /\ UNCHANGED client
      BY <1>5, <3>0 DEF ProcessTCPToERR, Read, peers, TypeOK
    <3> QED  BY <1>5, <3>1, <3>2, <3>3, <3>4, <3>5, <3>6
      DEF TypeOK, ProcessTCPToERR, Read, peers, quizzes, udp
  <2>2. OnePlace'
    <3>1. "processTCP" \in TcpThreads /\ "processTCP" \in Threads /\ "answers" \in ConnQueues
      BY DEF Threads, TcpThreads, ConnQueues
    <3>2. cur["processTCP"] # None
      BY <1>5, <3>1 DEF ProcessTCPToERR, Read, CurOK
    <3> QED  BY <1>5, <3>1, <3>2, GiveKeepsOnePlace DEF ProcessTCPToERR, Read, Hand
  <2>3. CurOK'
    BY <1>5, TesAssumption
      DEF CurOK, TypeOK, ProcessTCPToERR, Read, Hand, Drop, Again, quizzes, udp,
        Goto, Push, Threads, TcpThreads, ConnQueues
  <2>4. LinesOK'
    <3> DEFINE c == cur["processTCP"]
    <3>0. c \in Clients /\ c # None
      BY <1>5, TesAssumption DEF ProcessTCPToERR, Read, CurOK, TypeOK, Threads, TcpThreads
    <3>1. PICK l \in Line : l.kind \in Kinds /\ line' = [line EXCEPT ![c] = l]
          /\ Fits("answers", l)
      BY <1>5, TesAssumption DEF ProcessTCPToERR, Read, Fits, Line
    <3>2. line'[c] = l /\ \A d \in Clients : d # c => line'[d] = line[d]
      BY <3>0, <3>1 DEF TypeOK
    <3>3a. TypeOK /\ "answers" \in ConnQueues /\ Push("answers", c)
      BY <1>5 DEF ProcessTCPToERR, Read, Hand, ConnQueues
    <3>3. \A p \in ConnQueues : \A i \in 1..Len(queue'[p]) :
            \/ p = "answers" /\ queue'[p][i] = c
            \/ \E j \in 1..Len(queue[p]) : queue'[p][i] = queue[p][j]
      BY <3>3a, <3>0, Pushed
    <3>4. \A p \in ConnQueues : \A i \in 1..Len(queue[p]) :
            queue[p][i] \in Clients /\ queue[p][i] # c
      BY Apart DEF TypeOK, QueuesOK, TcpThreads
    <3>5. \A p \in ConnQueues : \A i \in 1..Len(queue'[p]) : Fits(p, line'[queue'[p][i]])
      BY <3>1, <3>2, <3>3, <3>4 DEF LinesOK
    <3>6. /\ pc'["processTCP"] # "read"
          /\ pc'["processRQS"] = pc["processRQS"] /\ cur'["processRQS"] = cur["processRQS"]
      BY <1>5 DEF ProcessTCPToERR, Read, Again, Goto, Drop, TypeOK, Threads, TcpThreads
    <3>7. pc["processRQS"] \in {"lock", "find", "grade"} =>
            cur["processRQS"] \in Clients /\ cur["processRQS"] # c
      BY <3>0, Apart DEF CurOK, TypeOK, TcpThreads, Threads
    <3>8. client[c] = "open" /\ UNCHANGED client
      BY <1>5, <3>0 DEF ProcessTCPToERR, Read, OnePlace, Held, TcpThreads
    <3> QED  BY <3>2, <3>5, <3>6, <3>7, <3>8 DEF LinesOK
  <2>5. LocalsOK'
    <3>1. cur["processTCP"] \in Clients /\ cur["processTCP"] # None
      BY <1>5, TesAssumption DEF ProcessTCPToERR, Read, CurOK, TypeOK, Threads, TcpThreads
    <3>2. pc["processRQT"] \in {"lock", "insert"} =>
            /\ cur["processRQT"] \in Clients
            /\ cur["processRQT"] # cur["processTCP"]
      BY <3>1, Apart DEF CurOK, TypeOK, Threads, TcpThreads
    <3>3. \A t \in Threads : t # "processTCP" => pc'[t] = pc[t]
      BY <1>5 DEF ProcessTCPToERR, Read, Again, Goto, TypeOK
    <3>4. cur'["processRQT"] = cur["processRQT"]
      BY <1>5 DEF ProcessTCPToERR, Read, Drop, TypeOK, TcpThreads
    <3>5. pc["processRQT"] \in {"lock", "insert"} =>
            answer'[cur["processRQT"]] = answer[cur["processRQT"]]
      BY <1>5, <3>1, <3>2 DEF ProcessTCPToERR, Reply, TypeOK
    <3>6. UNCHANGED <<quiz, iqr>>
      BY <1>5 DEF ProcessTCPToERR, Read, quizzes, udp
    <3> QED  BY <3>3, <3>4, <3>5, <3>6 DEF LocalsOK, Answered, Threads
  <2> QED  BY <2>1, <2>2, <2>3, <2>4, <2>5
<1>6. CASE ProcessTCPTimedOut
  <2>1. TypeOK'
    <3>0. cur["processTCP"] \in Clients
      BY <1>6 DEF ProcessTCPTimedOut, CurOK, TypeOK, Threads, TcpThreads
    <3>1. QueuesOK'
      BY <1>6, <3>0, PushQueuesOK DEF ProcessTCPTimedOut, Hand, TypeOK, ConnQueues
    <3>2. answer' \in [Clients -> Answer \cup {None}]
      BY <1>6, <3>0 DEF ProcessTCPTimedOut, Reply, ERR, Answer, TypeOK
    <3>3. sem' \in [Sems -> Nat]
      BY <1>6 DEF ProcessTCPTimedOut, Hand, Post, TypeOK, Sems, Queues, ConnQueues
    <3>4. pc' \in [Threads -> Labels]
      BY <1>6 DEF ProcessTCPTimedOut, Again, Goto, Labels, TypeOK
    <3>5. cur' \in [TcpThreads -> Clients \cup {None}]
      BY <1>6 DEF ProcessTCPTimedOut, Drop, TypeOK
    <3>6. line' \in [Clients -> Line \cup {None}] /\ UNCHANGED client
      BY <1>6, <3>0 DEF ProcessTCPTimedOut, peers, TypeOK
    <3> QED  BY <1>6, <3>1, <3>2, <3>3, <3>4, <3>5, <3>6
      DEF TypeOK, ProcessTCPTimedOut, peers, quizzes, udp
  <2>2. OnePlace'
    <3>1. "processTCP" \in TcpThreads /\ "processTCP" \in Threads /\ "answers" \in ConnQueues
      BY DEF Threads, TcpThreads, ConnQueues
    <3>2. cur["processTCP"] # None
      BY <1>6, <3>1 DEF ProcessTCPTimedOut, CurOK
    <3> QED  BY <1>6, <3>1, <3>2, GiveKeepsOnePlace DEF ProcessTCPTimedOut, Hand, peers
  <2>3. CurOK'
    BY <1>6, TesAssumption
      DEF CurOK, TypeOK, ProcessTCPTimedOut, Hand, Drop, Again, peers, quizzes,
        udp, Goto, Push, Threads, TcpThreads, ConnQueues
  <2>4. LinesOK'
    <3>1. cur["processTCP"] \in Clients
      BY <1>6 DEF ProcessTCPTimedOut, CurOK, TypeOK, Threads, TcpThreads
    <3>2a. TypeOK /\ "answers" \in ConnQueues /\ Push("answers", cur["processTCP"])
      BY <1>6 DEF ProcessTCPTimedOut, Hand, ConnQueues
    <3>2. \A p \in ConnQueues : \A i \in 1..Len(queue'[p]) :
            \/ p = "answers"
            \/ \E j \in 1..Len(queue[p]) : queue'[p][i] = queue[p][j]
      BY <3>2a, <3>1, Pushed
    <3>3. UNCHANGED <<client, line>>
      BY <1>6 DEF ProcessTCPTimedOut, peers
    <3>4. \A p \in ConnQueues : \A i \in 1..Len(queue'[p]) : Fits(p, line'[queue'[p][i]])
      BY <3>2, <3>3 DEF LinesOK, Fits
    <3>5. /\ pc'["processTCP"] = "read" =>
                pc["processTCP"] = "read" /\ cur'["processTCP"] = cur["processTCP"]
          /\ pc'["processRQS"] \in {"lock", "find", "grade"} =>
                pc["processRQS"] = pc'["processRQS"] /\ cur'["processRQS"] = cur["processRQS"]
      BY <1>6 DEF ProcessTCPTimedOut, Again, Goto, Drop, TypeOK, Threads, TcpThreads
    <3> QED  BY <3>3, <3>4, <3>5 DEF LinesOK
  <2>5. LocalsOK'
    <3>1. cur["processTCP"] \in Clients /\ cur["processTCP"] # None
      BY <1>6, TesAssumption DEF ProcessTCPTimedOut, CurOK, TypeOK, Threads, TcpThreads
    <3>2. pc["processRQT"] \in {"lock", "insert"} =>
            /\ cur["processRQT"] \in Clients
            /\ cur["processRQT"] # cur["processTCP"]
      BY <3>1, Apart DEF CurOK, TypeOK, Threads, TcpThreads
    <3>3. \A t \in Threads : t # "processTCP" => pc'[t] = pc[t]
      BY <1>6 DEF ProcessTCPTimedOut, Again, Goto, TypeOK
    <3>4. cur'["processRQT"] = cur["processRQT"]
      BY <1>6 DEF ProcessTCPTimedOut, Drop, TypeOK, TcpThreads
    <3>5. pc["processRQT"] \in {"lock", "insert"} =>
            answer'[cur["processRQT"]] = answer[cur["processRQT"]]
      BY <1>6, <3>1, <3>2 DEF ProcessTCPTimedOut, Reply, TypeOK
    <3>6. UNCHANGED <<quiz, iqr>>
      BY <1>6 DEF ProcessTCPTimedOut, quizzes, udp
    <3> QED  BY <3>3, <3>4, <3>5, <3>6 DEF LocalsOK, Answered, Threads
  <2> QED  BY <2>1, <2>2, <2>3, <2>4, <2>5
<1>7. CASE ProcessTCPSpin
  <2>1. TypeOK'
    BY <1>7, TesAssumption
      DEF TypeOK, QueuesOK, ProcessTCPSpin, Goto, peers, quizzes, udp, Threads,
        TcpThreads, Queues, ConnQueues, Sems, Labels
  <2>2. OnePlace'
    BY <1>7, SameKeepsOnePlace DEF ProcessTCPSpin, peers
  <2>3. CurOK'
    BY <1>7, TesAssumption
      DEF CurOK, TypeOK, ProcessTCPSpin, Goto, peers, quizzes, udp, Threads,
        TcpThreads, ConnQueues
  <2>4. LinesOK'
    BY <1>7
      DEF LinesOK, TypeOK, QueuesOK, OnePlace, CurOK, ProcessTCPSpin,
        Goto, peers, quizzes, udp, Threads, TcpThreads, Queues, ConnQueues
  <2>5. LocalsOK'
    BY <1>7
      DEF LocalsOK, Answered, TypeOK, ProcessTCPSpin, Goto, peers, quizzes, udp,
        Threads, TcpThreads
  <2> QED  BY <2>1, <2>2, <2>3, <2>4, <2>5
<1> QED
  BY <1>1, <1>2, <1>3, <1>4, <1>5, <1>6, <1>7 DEF ProcessTCP

LEMMA RQTAnswer ==
  ASSUME TypeOK, NEW s \in Sids, NEW f \in Files
  PROVE  /\ AQT(<<s, now>>, now + Window, f) \in Answer
         /\ AQT(<<s, now>>, now + Window, f) # None
<1>1. now \in Nat /\ now + Window \in Nat
  BY TesAssumption DEF TypeOK, Time
<1>2. <<s, now>> \in Qid
  BY DEF Qid, TypeOK
<1>3. AQT(<<s, now>>, now + Window, f) \in Answer
  BY <1>1, <1>2 DEF AQT, Answer
<1> QED  BY <1>3, TesAssumption

LEMMA ProcessRQTInv ==
  ASSUME IInv, ProcessRQT
  PROVE  IInv'
<1> USE DEF IInv
<1>1. CASE ProcessRQTWait
  BY <1>1, WaitInv DEF ProcessRQTWait, Threads, Sems, Queues, ConnQueues
<1>2. CASE ProcessRQTPop
  <2>1. TypeOK'
    <3>1. QueuesOK'
      BY <1>2, PopQueuesOK DEF ProcessRQTPop, TypeOK, Queues, ConnQueues
    <3>2. Head(queue["rqtRequests"]) \in Clients
      BY <1>2, Popped DEF ProcessRQTPop, ConnQueues
    <3>3. cur' \in [TcpThreads -> Clients \cup {None}]
      BY <1>2, <3>2 DEF ProcessRQTPop, Load, TypeOK
    <3>4. pc' \in [Threads -> Labels]
      BY <1>2 DEF ProcessRQTPop, Goto, TypeOK, Labels
    <3>5. answer' \in [Clients -> Answer \cup {None}]
      <4> DEFINE c == Head(queue["rqtRequests"])
      <4>1. c = queue["rqtRequests"][1] /\ 1 \in 1..Len(queue["rqtRequests"])
        BY <1>2, Popped DEF ProcessRQTPop, ConnQueues
      <4>2. line[c] \in Line
        BY <4>1, <3>2 DEF LinesOK, Fits, ConnQueues, TypeOK
      <4>3. line[c].kind = "RQT" => line[c].sid \in Sids
        BY <4>2 DEF Line
      <4>4. ERR \in Answer
        BY DEF ERR, Answer
      <4>5. ASSUME line[c].kind = "RQT", NEW f \in Files
            PROVE  AQT(<<line[c].sid, now>>, now + Window, f) \in Answer
        BY <4>3, <4>5, RQTAnswer
      <4> QED  BY <1>2, <3>2, <4>4, <4>5 DEF ProcessRQTPop, Reply, TypeOK
    <3> QED  BY <1>2, <3>1, <3>3, <3>4, <3>5
      DEF TypeOK, ProcessRQTPop, peers, quizzes, udp
  <2>2. OnePlace'
    <3>1. "processRQT" \in TcpThreads /\ "processRQT" \in Threads /\ "rqtRequests" \in ConnQueues
      BY DEF Threads, TcpThreads, ConnQueues
    <3>2. cur["processRQT"] = None
      BY <1>2, <3>1 DEF ProcessRQTPop, CurOK
    <3> QED  BY <1>2, <3>1, <3>2, TakeKeepsOnePlace DEF ProcessRQTPop, peers
  <2>3. CurOK'
    <3>1. Head(queue["rqtRequests"]) # None
      BY <1>2, Popped DEF ProcessRQTPop, ConnQueues
    <3>2. /\ cur'["processRQT"] # None
          /\ pc'["processRQT"] \in {"answer", "lock"}
          /\ \A t \in TcpThreads : t # "processRQT" => cur'[t] = cur[t] /\ pc'[t] = pc[t]
      BY <1>2, <3>1 DEF ProcessRQTPop, Load, Goto, TypeOK, TcpThreads, Threads
    <3> QED  BY <3>2 DEF CurOK
  <2>4. LinesOK'
    <3>1. \A p \in ConnQueues : \A i \in 1..Len(queue'[p]) :
            \E j \in 1..Len(queue[p]) : queue'[p][i] = queue[p][j]
      BY <1>2, Popped DEF ProcessRQTPop, ConnQueues
    <3>2. UNCHANGED <<client, line>>
      BY <1>2 DEF ProcessRQTPop, peers
    <3>3. \A p \in ConnQueues : \A i \in 1..Len(queue'[p]) : Fits(p, line'[queue'[p][i]])
      BY <3>1, <3>2 DEF LinesOK
    <3>4. Fits("rqtRequests", line[Head(queue["rqtRequests"])])
      BY <1>2, Popped DEF ProcessRQTPop, LinesOK, ConnQueues
    <3>5. /\ cur'["processTCP"] = cur["processTCP"] /\ pc'["processTCP"] = pc["processTCP"]
          /\ cur'["processRQS"] = cur["processRQS"] /\ pc'["processRQS"] = pc["processRQS"]
      BY <1>2 DEF ProcessRQTPop, Load, Goto, TypeOK, Threads, TcpThreads
    <3> QED  BY <3>2, <3>3, <3>4, <3>5 DEF LinesOK, Fits
  <2>5. LocalsOK'
    <3> DEFINE c == Head(queue["rqtRequests"])
    <3>1. c \in Clients
      BY <1>2, Popped DEF ProcessRQTPop, ConnQueues
    <3>0. line[c].kind = "RQT" => line[c].sid \in Sids
      <4>1. c = queue["rqtRequests"][1] /\ 1 \in 1..Len(queue["rqtRequests"])
        BY <1>2, Popped DEF ProcessRQTPop, ConnQueues
      <4>2. line[c] \in Line
        BY <4>1, <3>1 DEF LinesOK, Fits, ConnQueues, TypeOK
      <4> QED  BY <4>2 DEF Line
    <3>2. cur'["processRQT"] = c
      BY <1>2 DEF ProcessRQTPop, Load, TypeOK, TcpThreads
    <3>3. pc'["processRQT"] \in {"lock", "insert"} =>
            answer'[c] # None /\ answer'[c].kind = "AQT"
      <4>1. CASE line[c].kind = "badRQT"
        BY <1>2, <4>1 DEF ProcessRQTPop, Goto, TypeOK, Threads
      <4>2. CASE line[c].kind = "RQT"
        <5>1. PICK f \in Files :
                answer' = [answer EXCEPT ![c] = AQT(<<line[c].sid, now>>, now + Window, f)]
          BY <1>2, <4>2 DEF ProcessRQTPop, Reply
        <5>2. answer'[c] = AQT(<<line[c].sid, now>>, now + Window, f)
          BY <5>1, <3>1 DEF TypeOK
        <5>3. answer'[c].kind = "AQT"
          BY <5>2 DEF AQT
        <5>4. answer'[c] # None
          BY <5>2, <3>0, <4>2, RQTAnswer
        <5> QED  BY <5>3, <5>4
      <4> QED  BY <1>2, <4>1, <4>2 DEF ProcessRQTPop
    <3>4. /\ \A t \in Threads : t # "processRQT" => pc'[t] = pc[t]
          /\ UNCHANGED <<quiz, iqr>>
      BY <1>2 DEF ProcessRQTPop, Goto, TypeOK, quizzes, udp
    <3> QED  BY <3>2, <3>3, <3>4 DEF LocalsOK, Answered, Threads
  <2> QED  BY <2>1, <2>2, <2>3, <2>4, <2>5
<1>3. CASE ProcessRQTLock
  <2>1. TypeOK'
    BY <1>3, TesAssumption
      DEF TypeOK, QueuesOK, ProcessRQTLock, Goto, peers, udp, Threads,
        TcpThreads, Queues, ConnQueues, Sems, Labels
  <2>2. OnePlace'
    BY <1>3, SameKeepsOnePlace DEF ProcessRQTLock, peers
  <2>3. CurOK'
    BY <1>3, TesAssumption
      DEF CurOK, TypeOK, ProcessRQTLock, Goto, peers, udp, Threads, TcpThreads,
        ConnQueues
  <2>4. LinesOK'
    BY <1>3
      DEF LinesOK, TypeOK, QueuesOK, OnePlace, CurOK, ProcessRQTLock,
        Goto, peers, udp, Threads, TcpThreads, Queues, ConnQueues
  <2>5. LocalsOK'
    BY <1>3
      DEF LocalsOK, Answered, TypeOK, ProcessRQTLock, Goto, peers, udp, Threads,
        TcpThreads
  <2> QED  BY <2>1, <2>2, <2>3, <2>4, <2>5
<1>4. CASE ProcessRQTInsert
  <2>1. TypeOK'
    <3> DEFINE c == cur["processRQT"]
               z == [sid |-> answer[c].qid[1], deadline |-> answer[c].deadline,
                     file |-> answer[c].file]
    <3>1. answer[c] \in Answer /\ answer[c].kind = "AQT"
      BY <1>4 DEF ProcessRQTInsert, LocalsOK, Answered, CurOK, TypeOK, Threads, TcpThreads
    <3>2. answer[c].qid \in Qid /\ answer[c].deadline \in Nat /\ answer[c].file \in Files
      BY <3>1 DEF Answer, ERR
    <3>3. z \in Quiz
      BY <3>2 DEF Qid, Quiz
    <3>4. questionaries' \in [Qid -> Quiz \cup {None}]
      BY <1>4, <3>3 DEF ProcessRQTInsert, TypeOK
    <3>5. pc' \in [Threads -> Labels]
      BY <1>4 DEF ProcessRQTInsert, Goto, Labels, TypeOK
    <3> QED  BY <1>4, <3>4, <3>5 DEF TypeOK, QueuesOK, ProcessRQTInsert, peers, udp
  <2>2. OnePlace'
    BY <1>4, SameKeepsOnePlace DEF ProcessRQTInsert, peers
  <2>3. CurOK'
    BY <1>4, TesAssumption
      DEF CurOK, TypeOK, ProcessRQTInsert, Goto, peers, udp, Threads,
        TcpThreads, ConnQueues
  <2>4. LinesOK'
    BY <1>4
      DEF LinesOK, TypeOK, QueuesOK, OnePlace, CurOK,
        ProcessRQTInsert, Goto, peers, udp, Threads, TcpThreads, Queues,
        ConnQueues
  <2>5. LocalsOK'
    BY <1>4
      DEF LocalsOK, Answered, TypeOK, ProcessRQTInsert, Goto, peers, udp,
        Threads, TcpThreads
  <2> QED  BY <2>1, <2>2, <2>3, <2>4, <2>5
<1>5. CASE ProcessRQTAnswer
  <2>1. TypeOK'
    <3>0. cur["processRQT"] \in Clients
      BY <1>5 DEF ProcessRQTAnswer, CurOK, TypeOK, Threads, TcpThreads
    <3>1. QueuesOK'
      BY <1>5, <3>0, PushQueuesOK DEF ProcessRQTAnswer, Hand, TypeOK, ConnQueues
    <3> QED  BY <1>5, <3>0, <3>1, TesAssumption
      DEF TypeOK, ProcessRQTAnswer, AQT, Hand, Drop, Again, peers, quizzes, udp,
        Goto, Post, Threads, TcpThreads, Queues, ConnQueues, Sems, Labels
  <2>2. OnePlace'
    <3>1. "processRQT" \in TcpThreads /\ "processRQT" \in Threads /\ "answers" \in ConnQueues
      BY DEF Threads, TcpThreads, ConnQueues
    <3>2. cur["processRQT"] # None
      BY <1>5, <3>1 DEF ProcessRQTAnswer, CurOK
    <3> QED  BY <1>5, <3>1, <3>2, GiveKeepsOnePlace DEF ProcessRQTAnswer, Hand, peers
  <2>3. CurOK'
    BY <1>5, TesAssumption
      DEF CurOK, TypeOK, ProcessRQTAnswer, Hand, Drop, Again, peers, quizzes,
        udp, Goto, Push, Threads, TcpThreads, ConnQueues
  <2>4. LinesOK'
    <3>1. cur["processRQT"] \in Clients
      BY <1>5 DEF ProcessRQTAnswer, CurOK, TypeOK, Threads, TcpThreads
    <3>2a. TypeOK /\ "answers" \in ConnQueues /\ Push("answers", cur["processRQT"])
      BY <1>5 DEF ProcessRQTAnswer, Hand, ConnQueues
    <3>2. \A p \in ConnQueues : \A i \in 1..Len(queue'[p]) :
            \/ p = "answers"
            \/ \E j \in 1..Len(queue[p]) : queue'[p][i] = queue[p][j]
      BY <3>2a, <3>1, Pushed
    <3>3. UNCHANGED <<client, line>>
      BY <1>5 DEF ProcessRQTAnswer, peers
    <3>4. \A p \in ConnQueues : \A i \in 1..Len(queue'[p]) : Fits(p, line'[queue'[p][i]])
      BY <3>2, <3>3 DEF LinesOK, Fits
    <3>5. /\ pc'["processTCP"] = "read" =>
                pc["processTCP"] = "read" /\ cur'["processTCP"] = cur["processTCP"]
          /\ pc'["processRQS"] \in {"lock", "find", "grade"} =>
                pc["processRQS"] = pc'["processRQS"] /\ cur'["processRQS"] = cur["processRQS"]
      BY <1>5 DEF ProcessRQTAnswer, Again, Goto, Drop, TypeOK, Threads, TcpThreads
    <3> QED  BY <3>3, <3>4, <3>5 DEF LinesOK
  <2>5. LocalsOK'
    BY <1>5
      DEF LocalsOK, Answered, TypeOK, ProcessRQTAnswer, AQT, Hand, Drop, Again,
        peers, quizzes, udp, Goto, Push, Threads, TcpThreads
  <2> QED  BY <2>1, <2>2, <2>3, <2>4, <2>5
<1>6. CASE ProcessRQTNoPdf
  BY <1>6, TerminateInv DEF ProcessRQTNoPdf, peers, quizzes, udp
<1> QED
  BY <1>1, <1>2, <1>3, <1>4, <1>5, <1>6 DEF ProcessRQT

LEMMA ProcessRQSInv ==
  ASSUME IInv, ProcessRQS
  PROVE  IInv'
<1> USE DEF IInv
<1>1. CASE ProcessRQSWait
  BY <1>1, WaitInv DEF ProcessRQSWait, Threads, Sems, Queues, ConnQueues
<1>2. CASE ProcessRQSPop
  <2>1. TypeOK'
    <3>1. QueuesOK'
      BY <1>2, PopQueuesOK DEF ProcessRQSPop, TypeOK, Queues, ConnQueues
    <3>2. Head(queue["rqsRequests"]) \in Clients
      BY <1>2, Popped DEF ProcessRQSPop, ConnQueues
    <3>3. cur' \in [TcpThreads -> Clients \cup {None}]
      BY <1>2, <3>2 DEF ProcessRQSPop, Load, TypeOK
    <3>4. pc' \in [Threads -> Labels]
      BY <1>2 DEF ProcessRQSPop, Goto, TypeOK, Labels
    <3>5. answer' \in [Clients -> Answer \cup {None}]
      BY <1>2, <3>2 DEF ProcessRQSPop, Reply, TypeOK, ERR, Answer
    <3> QED  BY <1>2, <3>1, <3>3, <3>4, <3>5
      DEF TypeOK, ProcessRQSPop, peers, quizzes, udp
  <2>2. OnePlace'
    <3>1. "processRQS" \in TcpThreads /\ "processRQS" \in Threads /\ "rqsRequests" \in ConnQueues
      BY DEF Threads, TcpThreads, ConnQueues
    <3>2. cur["processRQS"] = None
      BY <1>2, <3>1 DEF ProcessRQSPop, CurOK
    <3> QED  BY <1>2, <3>1, <3>2, TakeKeepsOnePlace DEF ProcessRQSPop, peers
  <2>3. CurOK'
    <3>1. Head(queue["rqsRequests"]) # None
      BY <1>2, Popped DEF ProcessRQSPop, ConnQueues
    <3>2. /\ cur'["processRQS"] # None
          /\ pc'["processRQS"] \in {"answer", "lock"}
          /\ \A t \in TcpThreads : t # "processRQS" => cur'[t] = cur[t] /\ pc'[t] = pc[t]
      BY <1>2, <3>1 DEF ProcessRQSPop, Load, Goto, TypeOK, TcpThreads, Threads
    <3> QED  BY <3>2 DEF CurOK
  <2>4. LinesOK'
    <3>1. \A p \in ConnQueues : \A i \in 1..Len(queue'[p]) :
            \E j \in 1..Len(queue[p]) : queue'[p][i] = queue[p][j]
      BY <1>2, Popped DEF ProcessRQSPop, ConnQueues
    <3>2. UNCHANGED <<client, line>>
      BY <1>2 DEF ProcessRQSPop, peers
    <3>3. \A p \in ConnQueues : \A i \in 1..Len(queue'[p]) : Fits(p, line'[queue'[p][i]])
      BY <3>1, <3>2 DEF LinesOK
    <3>4. Fits("rqsRequests", line[Head(queue["rqsRequests"])])
      BY <1>2, Popped DEF ProcessRQSPop, LinesOK, ConnQueues
    <3>5. /\ cur'["processTCP"] = cur["processTCP"] /\ pc'["processTCP"] = pc["processTCP"]
          /\ cur'["processRQS"] = Head(queue["rqsRequests"])
          /\ pc'["processRQS"] \in {"lock", "find", "grade"} =>
               line[Head(queue["rqsRequests"])].kind = "RQS"
      BY <1>2 DEF ProcessRQSPop, Load, Goto, TypeOK, Threads, TcpThreads
    <3> QED  BY <3>2, <3>3, <3>4, <3>5 DEF LinesOK, Fits
  <2>5. LocalsOK'
    <3> DEFINE c == Head(queue["rqsRequests"])
    <3>1. c \in Clients /\ c = queue["rqsRequests"][1] /\ 1 \in 1..Len(queue["rqsRequests"])
      BY <1>2, Popped DEF ProcessRQSPop, ConnQueues
    <3>2. c # cur["processRQT"]
      BY <3>1, Apart DEF TcpThreads, ConnQueues
    <3>3. pc["processRQT"] \in {"lock", "insert"} =>
            answer'[cur["processRQT"]] = answer[cur["processRQT"]]
      BY <1>2, <3>1, <3>2 DEF ProcessRQSPop, Reply, CurOK, TypeOK, Threads, TcpThreads
    <3>4. /\ pc'["processRQS"] # "grade"
          /\ \A t \in Threads : t # "processRQS" => pc'[t] = pc[t]
          /\ cur'["processRQT"] = cur["processRQT"] /\ UNCHANGED iqr
      BY <1>2 DEF ProcessRQSPop, Goto, Load, TypeOK, Threads, TcpThreads, udp
    <3> QED  BY <3>3, <3>4 DEF LocalsOK, Answered, Threads
  <2> QED  BY <2>1, <2>2, <2>3, <2>4, <2>5
<1>3. CASE ProcessRQSLock
  <2>1. TypeOK'
    BY <1>3, TesAssumption
      DEF TypeOK, QueuesOK, ProcessRQSLock, Goto, peers, udp, Threads,
        TcpThreads, Queues, ConnQueues, Sems, Labels
  <2>2. OnePlace'
    BY <1>3, SameKeepsOnePlace DEF ProcessRQSLock, peers
  <2>3. CurOK'
    BY <1>3, TesAssumption
      DEF CurOK, TypeOK, ProcessRQSLock, Goto, peers, udp, Threads, TcpThreads,
        ConnQueues
  <2>4. LinesOK'
    BY <1>3
      DEF LinesOK, TypeOK, QueuesOK, OnePlace, CurOK, ProcessRQSLock,
        Goto, peers, udp, Threads, TcpThreads, Queues, ConnQueues
  <2>5. LocalsOK'
    BY <1>3
      DEF LocalsOK, Answered, TypeOK, ProcessRQSLock, Goto, peers, udp, Threads,
        TcpThreads
  <2> QED  BY <2>1, <2>2, <2>3, <2>4, <2>5
<1>4. CASE ProcessRQSFind
  <2>1. TypeOK'
    <3> DEFINE c == cur["processRQS"]
               l == line[c]
    <3>0. c \in Clients
      BY <1>4 DEF ProcessRQSFind, CurOK, TypeOK, Threads, TcpThreads
    <3>1. c \in Clients /\ l \in Line /\ l.kind = "RQS"
      BY <1>4, <3>0 DEF ProcessRQSFind, LinesOK, TypeOK
    <3>2. l.qid \in Qid /\ l.sid \in Sids /\ l.sheet \in Sheets
      BY <3>1 DEF Line
    <3>3. answer' \in [Clients -> Answer \cup {None}]
      BY <1>4, <3>1, <3>2 DEF ProcessRQSFind, Reply, AQS, Answer, TypeOK
    <3>4. questionaries' \in [Qid -> Quiz \cup {None}] /\ quiz' \in Quiz \cup {None}
      BY <1>4, <3>2 DEF ProcessRQSFind, Erased, TypeOK
    <3>5. pc' \in [Threads -> Labels] /\ questionariesMutex' = None
      BY <1>4 DEF ProcessRQSFind, Released, Goto, Labels, TypeOK
    <3> QED  BY <1>4, <3>3, <3>4, <3>5 DEF TypeOK, QueuesOK, ProcessRQSFind, peers, udp
  <2>2. OnePlace'
    BY <1>4, SameKeepsOnePlace DEF ProcessRQSFind, peers
  <2>3. CurOK'
    BY <1>4, TesAssumption
      DEF CurOK, TypeOK, ProcessRQSFind, Goto, peers, udp, Threads, TcpThreads,
        ConnQueues
  <2>4. LinesOK'
    BY <1>4
      DEF LinesOK, TypeOK, QueuesOK, OnePlace, CurOK, ProcessRQSFind,
        Reply, Released, Goto, Erased, peers, udp, Threads, TcpThreads,
        Queues, ConnQueues
  <2>5. LocalsOK'
    <3> DEFINE c == cur["processRQS"]
    <3>1. c \in Clients /\ c # None
      BY <1>4, TesAssumption DEF ProcessRQSFind, CurOK, TypeOK, Threads, TcpThreads
    <3>2. pc["processRQT"] \in {"lock", "insert"} =>
            cur["processRQT"] \in Clients /\ cur["processRQT"] # c
      BY <3>1, Apart DEF CurOK, TypeOK, Threads, TcpThreads
    <3>3. pc["processRQT"] \in {"lock", "insert"} =>
            answer'[cur["processRQT"]] = answer[cur["processRQT"]]
      BY <1>4, <3>1, <3>2 DEF ProcessRQSFind, Reply, TypeOK
    <3>4. /\ pc'["processRQS"] = "grade" => quiz' # None
          /\ \A t \in Threads : t # "processRQS" => pc'[t] = pc[t]
          /\ UNCHANGED <<cur, iqr>>
      BY <1>4 DEF ProcessRQSFind, Goto, TypeOK, Threads, udp
    <3> QED  BY <3>3, <3>4 DEF LocalsOK, Answered, Threads
  <2> QED  BY <2>1, <2>2, <2>3, <2>4, <2>5
<1>5. CASE ProcessRQSGrade
  <2>1. TypeOK'
    <3> DEFINE c == cur["processRQS"]
               l == line[c]
    <3>0. c \in Clients
      BY <1>5 DEF ProcessRQSGrade, CurOK, TypeOK, Threads, TcpThreads
    <3>1. c \in Clients /\ l \in Line /\ l.kind = "RQS"
      BY <1>5, <3>0 DEF ProcessRQSGrade, LinesOK, TypeOK
    <3>2. l.qid \in Qid /\ l.sid \in Sids /\ l.sheet \in Sheets
      BY <3>1 DEF Line
    <3>3. quiz \in Quiz
      BY <1>5 DEF ProcessRQSGrade, LocalsOK, TypeOK
    <3>4. Mark(l, quiz) \in -2..100 /\ (Mark(l, quiz) >= 0 => Mark(l, quiz) \in 0..100)
      <4>1. Score[<<l.sheet, quiz.file>>] \in 0..100
        BY <3>2, <3>3, TesAssumption DEF Quiz
      <4>2. Mark(l, quiz) \in {-2, -1} \cup 0..100
        BY <4>1 DEF Mark
      <4> QED  BY <4>2
    <3>5. answer' \in [Clients -> Answer \cup {None}]
      BY <1>5, <3>1, <3>2, <3>4 DEF ProcessRQSGrade, Reply, AQS, Answer, TypeOK
    <3>6. answersUDP' \in [Keys -> Iqr \cup {None}]
      BY <1>5, <3>2, <3>4 DEF ProcessRQSGrade, Inserted, Reported, Iqr, TypeOK
    <3>7. pc' \in [Threads -> Labels]
      BY <1>5 DEF ProcessRQSGrade, Goto, Labels, TypeOK
    <3> QED  BY <1>5, <3>5, <3>6, <3>7 DEF TypeOK, QueuesOK, ProcessRQSGrade, peers
  <2>2. OnePlace'
    BY <1>5, SameKeepsOnePlace DEF ProcessRQSGrade, peers
  <2>3. CurOK'
    <3>1. /\ pc["processRQS"] = "grade" /\ pc'["processRQS"] \in {"answer", "postUDP"}
          /\ \A t \in Threads : t # "processRQS" => pc'[t] = pc[t]
      BY <1>5 DEF ProcessRQSGrade, Goto, TypeOK, Threads
    <3>2. UNCHANGED cur
      BY <1>5 DEF ProcessRQSGrade
    <3> QED  BY <3>1, <3>2 DEF CurOK, Threads, TcpThreads
  <2>4. LinesOK'
    BY <1>5
      DEF LinesOK, TypeOK, QueuesOK, OnePlace, CurOK, ProcessRQSGrade,
        Mark, Reply, Reported, Goto, peers, Threads, TcpThreads, Queues,
        ConnQueues
  <2>5. LocalsOK'
    <3> DEFINE c == cur["processRQS"]
    <3>1. c \in Clients /\ c # None
      BY <1>5, TesAssumption DEF ProcessRQSGrade, CurOK, TypeOK, Threads, TcpThreads
    <3>2. pc["processRQT"] \in {"lock", "insert"} =>
            cur["processRQT"] \in Clients /\ cur["processRQT"] # c
      BY <3>1, Apart DEF CurOK, TypeOK, Threads, TcpThreads
    <3>3. pc["processRQT"] \in {"lock", "insert"} =>
            answer'[cur["processRQT"]] = answer[cur["processRQT"]]
      BY <1>5, <3>1, <3>2 DEF ProcessRQSGrade, Reply, TypeOK
    <3>4. /\ pc'["processRQS"] = "grade" => quiz' # None
          /\ \A t \in Threads : t # "processRQS" => pc'[t] = pc[t]
          /\ UNCHANGED <<cur, iqr>>
      BY <1>5 DEF ProcessRQSGrade, Goto, TypeOK, Threads, udp
    <3> QED  BY <3>3, <3>4 DEF LocalsOK, Answered, Threads
  <2> QED  BY <2>1, <2>2, <2>3, <2>4, <2>5
<1>6. CASE ProcessRQSPostUDP
  <2>1. TypeOK'
    BY <1>6, TesAssumption
      DEF TypeOK, QueuesOK, ProcessRQSPostUDP, Post, Goto, peers, quizzes, udp,
        Threads, TcpThreads, Queues, ConnQueues, Sems, Labels
  <2>2. OnePlace'
    BY <1>6, SameKeepsOnePlace DEF ProcessRQSPostUDP, peers
  <2>3. CurOK'
    BY <1>6, TesAssumption
      DEF CurOK, TypeOK, ProcessRQSPostUDP, Goto, peers, quizzes, udp, Threads,
        TcpThreads, ConnQueues
  <2>4. LinesOK'
    BY <1>6
      DEF LinesOK, TypeOK, QueuesOK, OnePlace, CurOK,
        ProcessRQSPostUDP, Goto, peers, quizzes, udp, Threads, TcpThreads,
        Queues, ConnQueues
  <2>5. LocalsOK'
    BY <1>6
      DEF LocalsOK, Answered, TypeOK, ProcessRQSPostUDP, Goto, peers, quizzes,
        udp, Threads, TcpThreads
  <2> QED  BY <2>1, <2>2, <2>3, <2>4, <2>5
<1>7. CASE ProcessRQSAnswer
  <2>1. TypeOK'
    <3>0. cur["processRQS"] \in Clients
      BY <1>7 DEF ProcessRQSAnswer, CurOK, TypeOK, Threads, TcpThreads
    <3>1. QueuesOK'
      BY <1>7, <3>0, PushQueuesOK DEF ProcessRQSAnswer, TypeOK, ConnQueues
    <3> QED  BY <1>7, <3>0, <3>1, TesAssumption
      DEF TypeOK, ProcessRQSAnswer, Drop, Goto, peers, quizzes, udp, Threads,
        TcpThreads, Queues, ConnQueues, Sems, Labels
  <2>2. OnePlace'
    <3>1. "processRQS" \in TcpThreads /\ "processRQS" \in Threads /\ "answers" \in ConnQueues
      BY DEF Threads, TcpThreads, ConnQueues
    <3>2. cur["processRQS"] # None
      BY <1>7, <3>1 DEF ProcessRQSAnswer, CurOK
    <3> QED  BY <1>7, <3>1, <3>2, GiveKeepsOnePlace DEF ProcessRQSAnswer, peers
  <2>3. CurOK'
    BY <1>7, TesAssumption
      DEF CurOK, TypeOK, ProcessRQSAnswer, Push, Drop, Goto, peers, quizzes,
        udp, Threads, TcpThreads, ConnQueues
  <2>4. LinesOK'
    <3>1. cur["processRQS"] \in Clients
      BY <1>7 DEF ProcessRQSAnswer, CurOK, TypeOK, Threads, TcpThreads
    <3>2a. TypeOK /\ "answers" \in ConnQueues /\ Push("answers", cur["processRQS"])
      BY <1>7 DEF ProcessRQSAnswer, ConnQueues
    <3>2. \A p \in ConnQueues : \A i \in 1..Len(queue'[p]) :
            \/ p = "answers"
            \/ \E j \in 1..Len(queue[p]) : queue'[p][i] = queue[p][j]
      BY <3>2a, <3>1, Pushed
    <3>3. UNCHANGED <<client, line>>
      BY <1>7 DEF ProcessRQSAnswer, peers
    <3>4. \A p \in ConnQueues : \A i \in 1..Len(queue'[p]) : Fits(p, line'[queue'[p][i]])
      BY <3>2, <3>3 DEF LinesOK, Fits
    <3>5. /\ pc'["processTCP"] = "read" =>
                pc["processTCP"] = "read" /\ cur'["processTCP"] = cur["processTCP"]
          /\ pc'["processRQS"] \in {"lock", "find", "grade"} =>
                pc["processRQS"] = pc'["processRQS"] /\ cur'["processRQS"] = cur["processRQS"]
      BY <1>7 DEF ProcessRQSAnswer, Goto, Drop, TypeOK, Threads, TcpThreads
    <3> QED  BY <3>3, <3>4, <3>5 DEF LinesOK
  <2>5. LocalsOK'
    BY <1>7
      DEF LocalsOK, Answered, TypeOK, ProcessRQSAnswer, Push, Drop, Goto, peers,
        quizzes, udp, Threads, TcpThreads
  <2> QED  BY <2>1, <2>2, <2>3, <2>4, <2>5
<1>8. CASE ProcessRQSPost
  <2>1. TypeOK'
    BY <1>8, TesAssumption
      DEF TypeOK, QueuesOK, ProcessRQSPost, Post, Again, peers, quizzes, udp,
        Goto, Threads, TcpThreads, Queues, ConnQueues, Sems, Labels
  <2>2. OnePlace'
    BY <1>8, SameKeepsOnePlace DEF ProcessRQSPost, peers
  <2>3. CurOK'
    BY <1>8, TesAssumption
      DEF CurOK, TypeOK, ProcessRQSPost, Again, peers, quizzes, udp, Goto,
        Threads, TcpThreads, ConnQueues
  <2>4. LinesOK'
    BY <1>8
      DEF LinesOK, TypeOK, QueuesOK, OnePlace, CurOK, ProcessRQSPost,
        Again, peers, quizzes, udp, Goto, Threads, TcpThreads, Queues,
        ConnQueues
  <2>5. LocalsOK'
    BY <1>8
      DEF LocalsOK, Answered, TypeOK, ProcessRQSPost, Again, peers, quizzes,
        udp, Goto, Threads, TcpThreads
  <2> QED  BY <2>1, <2>2, <2>3, <2>4, <2>5
<1>9. CASE MapRace
  BY <1>9, TerminateInv DEF MapRace, peers, quizzes, udp
<1> QED
  BY <1>1, <1>2, <1>3, <1>4, <1>5, <1>6, <1>7, <1>8, <1>9 DEF ProcessRQS

LEMMA ProcessAWIInv ==
  ASSUME IInv, ProcessAWI
  PROVE  IInv'
<1> USE DEF IInv
<1>1. CASE ProcessAWIWait
  BY <1>1, WaitInv DEF ProcessAWIWait, Threads, Sems, Queues, ConnQueues
<1>2. CASE ProcessAWIPop
  <2>1. TypeOK'
    <3>1. QueuesOK'
      BY <1>2, PopQueuesOK DEF ProcessAWIPop, TypeOK, Queues, ConnQueues
    <3> QED  BY <1>2, <3>1, TesAssumption
      DEF TypeOK, ProcessAWIPop, Again, peers, quizzes, Goto, Threads,
        TcpThreads, Queues, ConnQueues, Sems, Labels
  <2>2. OnePlace'
    BY <1>2, SameKeepsOnePlace
      DEF ProcessAWIPop, Pop, peers, TypeOK, QueuesOK, Queues, ConnQueues
  <2>3. CurOK'
    BY <1>2, TesAssumption
      DEF CurOK, TypeOK, ProcessAWIPop, Pop, Again, peers, quizzes, Goto,
        Threads, TcpThreads, ConnQueues
  <2>4. LinesOK'
    BY <1>2
      DEF LinesOK, TypeOK, QueuesOK, OnePlace, CurOK, ProcessAWIPop,
        Pop, Again, peers, quizzes, Goto, Threads, TcpThreads, Queues,
        ConnQueues
  <2>5. LocalsOK'
    BY <1>2
      DEF LocalsOK, Answered, TypeOK, ProcessAWIPop, Pop, Again, peers, quizzes,
        Goto, Threads, TcpThreads
  <2> QED  BY <2>1, <2>2, <2>3, <2>4, <2>5
<1> QED
  BY <1>1, <1>2 DEF ProcessAWI

LEMMA AnswerUDPInv ==
  ASSUME IInv, AnswerUDP
  PROVE  IInv'
<1> USE DEF IInv
<1>1. CASE AnswerUDPWait
  BY <1>1, WaitInv DEF AnswerUDPWait, Threads, Sems, Queues, ConnQueues
<1>2. CASE AnswerUDPSend
  <2>1. TypeOK'
    BY <1>2, TesAssumption
      DEF TypeOK, QueuesOK, AnswerUDPSend, Goto, peers, quizzes, Threads,
        TcpThreads, Queues, ConnQueues, Sems, Labels
  <2>2. OnePlace'
    BY <1>2, SameKeepsOnePlace DEF AnswerUDPSend, peers
  <2>3. CurOK'
    BY <1>2, TesAssumption
      DEF CurOK, TypeOK, AnswerUDPSend, Goto, peers, quizzes, Threads,
        TcpThreads, ConnQueues
  <2>4. LinesOK'
    BY <1>2
      DEF LinesOK, TypeOK, QueuesOK, OnePlace, CurOK, AnswerUDPSend,
        Goto, peers, quizzes, Threads, TcpThreads, Queues, ConnQueues
  <2>5. LocalsOK'
    BY <1>2
      DEF LocalsOK, Answered, TypeOK, AnswerUDPSend, Goto, peers, quizzes,
        Threads, TcpThreads
  <2> QED  BY <2>1, <2>2, <2>3, <2>4, <2>5
<1>3. CASE AnswerUDPStore
  <2>1. TypeOK'
    BY <1>3, TesAssumption
      DEF TypeOK, QueuesOK, AnswerUDPStore, Again, peers, quizzes,
        Goto, Threads, TcpThreads, Queues, ConnQueues, Sems, Labels
  <2>2. OnePlace'
    BY <1>3, SameKeepsOnePlace DEF AnswerUDPStore, peers
  <2>3. CurOK'
    BY <1>3, TesAssumption
      DEF CurOK, TypeOK, AnswerUDPStore, Again, peers, quizzes, Goto, Threads,
        TcpThreads, ConnQueues
  <2>4. LinesOK'
    BY <1>3
      DEF LinesOK, TypeOK, QueuesOK, OnePlace, CurOK, AnswerUDPStore,
        Again, peers, quizzes, Goto, Threads, TcpThreads, Queues,
        ConnQueues
  <2>5. LocalsOK'
    BY <1>3
      DEF LocalsOK, Answered, TypeOK, AnswerUDPStore, Again, peers,
        quizzes, Goto, Threads, TcpThreads
  <2> QED  BY <2>1, <2>2, <2>3, <2>4, <2>5
<1> QED
  BY <1>1, <1>2, <1>3 DEF AnswerUDP

LEMMA AnswerTCPInv ==
  ASSUME IInv, NEW a \in Answerers, AnswerTCP(a)
  PROVE  IInv'
<1> USE DEF IInv
<1>1. CASE AnswerTCPWait(a)
  BY <1>1, WaitInv DEF AnswerTCPWait, Threads, Sems, Queues, ConnQueues
<1>2. CASE AnswerTCPPop(a)
  <2>1. TypeOK'
    <3>1. QueuesOK'
      BY <1>2, PopQueuesOK DEF AnswerTCPPop, TypeOK, Queues, ConnQueues
    <3>2. Head(queue["answers"]) \in Clients
      BY <1>2, Popped DEF AnswerTCPPop, ConnQueues
    <3>3. cur' \in [TcpThreads -> Clients \cup {None}]
      BY <1>2, <3>2 DEF AnswerTCPPop, Load, TypeOK
    <3>4. pc' \in [Threads -> Labels]
      BY <1>2 DEF AnswerTCPPop, Goto, TypeOK, Labels
    <3> QED  BY <1>2, <3>1, <3>3, <3>4
      DEF TypeOK, AnswerTCPPop, peers, quizzes, udp
  <2>2. OnePlace'
    <3>1. a \in TcpThreads /\ a \in Threads /\ "answers" \in ConnQueues
      BY DEF Threads, TcpThreads, ConnQueues
    <3>2. cur[a] = None
      BY <1>2, <3>1 DEF AnswerTCPPop, CurOK
    <3> QED  BY <1>2, <3>1, <3>2, TakeKeepsOnePlace DEF AnswerTCPPop, peers
  <2>3. CurOK'
    <3>1. Head(queue["answers"]) # None
      BY <1>2, Popped DEF AnswerTCPPop, ConnQueues
    <3>2. /\ cur'[a] # None
          /\ pc'[a] = "write"
          /\ \A t \in TcpThreads : t # a => cur'[t] = cur[t] /\ pc'[t] = pc[t]
      BY <1>2, <3>1 DEF AnswerTCPPop, Load, Goto, TypeOK, TcpThreads, Threads
    <3> QED  BY <3>2 DEF CurOK
  <2>4. LinesOK'
    <3>1. \A p \in ConnQueues : \A i \in 1..Len(queue'[p]) :
            \E j \in 1..Len(queue[p]) : queue'[p][i] = queue[p][j]
      BY <1>2, Popped DEF AnswerTCPPop, ConnQueues
    <3>2. UNCHANGED <<client, line>>
      BY <1>2 DEF AnswerTCPPop, peers
    <3>3. \A p \in ConnQueues : \A i \in 1..Len(queue'[p]) : Fits(p, line'[queue'[p][i]])
      BY <3>1, <3>2 DEF LinesOK
    <3>4. Fits("answers", line[Head(queue["answers"])])
      BY <1>2, Popped DEF AnswerTCPPop, LinesOK, ConnQueues
    <3>5. /\ cur'["processTCP"] = cur["processTCP"] /\ pc'["processTCP"] = pc["processTCP"]
          /\ cur'["processRQS"] = cur["processRQS"] /\ pc'["processRQS"] = pc["processRQS"]
      BY <1>2, TesAssumption DEF AnswerTCPPop, Load, Goto, TypeOK, Threads, TcpThreads
    <3> QED  BY <3>2, <3>3, <3>4, <3>5 DEF LinesOK, Fits
  <2>5. LocalsOK'
    BY <1>2
      DEF LocalsOK, Answered, TypeOK, AnswerTCPPop, Pop, Load, Goto, peers,
        quizzes, udp, Threads, TcpThreads
  <2> QED  BY <2>1, <2>2, <2>3, <2>4, <2>5
<1>3. CASE AnswerTCPWrite(a)
  <2>1. TypeOK'
    <3>1. cur[a] \in Clients
      BY <1>3, TesAssumption DEF AnswerTCPWrite, CurOK, TypeOK, Threads, TcpThreads
    <3>2. client' \in [Clients -> ClientStates]
      BY <1>3, <3>1 DEF AnswerTCPWrite, TypeOK, ClientStates
    <3>3. cur' \in [TcpThreads -> Clients \cup {None}]
      BY <1>3 DEF AnswerTCPWrite, Drop, TypeOK
    <3>4. pc' \in [Threads -> Labels]
      BY <1>3 DEF AnswerTCPWrite, Again, Goto, Labels, TypeOK
    <3> QED  BY <1>3, <3>2, <3>3, <3>4 DEF TypeOK, QueuesOK, AnswerTCPWrite, quizzes, udp
  <2>2. OnePlace'
    <3>1. a \in TcpThreads /\ a \in Threads
      BY DEF Threads, TcpThreads
    <3>2. cur[a] # None
      BY <1>3, <3>1 DEF AnswerTCPWrite, CurOK
    <3> QED  BY <1>3, <3>1, <3>2, CloseKeepsOnePlace DEF AnswerTCPWrite
  <2>3. CurOK'
    BY <1>3, TesAssumption
      DEF CurOK, TypeOK, AnswerTCPWrite, Drop, Again, quizzes, udp, Goto,
        Threads, TcpThreads, ConnQueues
  <2>4. LinesOK'
    BY <1>3
      DEF LinesOK, TypeOK, QueuesOK, OnePlace, CurOK, AnswerTCPWrite,
        Drop, Again, quizzes, udp, Goto, Threads, TcpThreads, Queues,
        ConnQueues
  <2>5. LocalsOK'
    BY <1>3
      DEF LocalsOK, Answered, TypeOK, AnswerTCPWrite, Drop, Again, quizzes, udp,
        Goto, Threads, TcpThreads
  <2> QED  BY <2>1, <2>2, <2>3, <2>4, <2>5
<1> QED
  BY <1>1, <1>2, <1>3 DEF AnswerTCP

LEMMA InitInv == Init => IInv
<1> SUFFICES ASSUME Init PROVE IInv
  OBVIOUS
<1>1. TypeOK
  <2>1. now \in Time
    BY TesAssumption DEF Init, Time
  <2>2. QueuesOK
    BY DEF Init, QueuesOK, Queues, ConnQueues
  <2>3. pc \in [Threads -> Labels]
    BY DEF Init, Labels
  <2> QED  BY <2>1, <2>2, <2>3 DEF Init, TypeOK, ClientStates
<1>2. \A q \in ConnQueues : queue[q] = <<>>
  BY DEF Init, Queues
<1>3. OnePlace
  <2>1. \A c \in Clients : ~Held(c)
    BY <1>2, TesAssumption DEF Init, Held
  <2>2. \A c \in Clients : client[c] # "open"
    BY DEF Init
  <2>3. \A t \in TcpThreads : cur[t] = None
    BY DEF Init
  <2> QED  BY <1>2, <2>1, <2>2, <2>3 DEF OnePlace
<1>4. CurOK
  BY TesAssumption DEF Init, CurOK, Threads, TcpThreads
<1>5. LinesOK
  BY <1>2 DEF Init, LinesOK, Threads
<1>6. LocalsOK
  BY DEF Init, LocalsOK, Threads
<1> QED  BY <1>1, <1>3, <1>4, <1>5, <1>6 DEF IInv

LEMMA TickInv ==
  ASSUME IInv, Tick
  PROVE  IInv'
<1> USE DEF IInv
<1>1. now' \in Time
  BY TesAssumption DEF TypeOK, Tick, Time
<1>2. TypeOK'
  BY <1>1 DEF TypeOK, QueuesOK, Tick, quizzes, udp
<1>3. OnePlace'
  BY SameKeepsOnePlace DEF Tick
<1>4. CurOK' /\ LinesOK' /\ LocalsOK'
  BY DEF CurOK, LinesOK, LocalsOK, Answered, Tick, quizzes, udp
<1> QED  BY <1>2, <1>3, <1>4

LEMMA StutterInv ==
  ASSUME IInv, UNCHANGED vars
  PROVE  IInv'
<1> USE DEF IInv
<1>1. TypeOK'
  BY DEF TypeOK, QueuesOK, vars
<1>2. OnePlace'
  BY SameKeepsOnePlace DEF vars
<1>3. CurOK' /\ LinesOK' /\ LocalsOK'
  BY DEF CurOK, LinesOK, LocalsOK, Answered, vars
<1> QED  BY <1>1, <1>2, <1>3

\* Every reachable state satisfies the inductive invariant.
THEOREM Inductive == Spec => []IInv
<1>1. Init => IInv
  BY InitInv
<1>2. IInv /\ [Next]_vars => IInv'
  <2> SUFFICES ASSUME IInv, [Next]_vars PROVE IInv'
    OBVIOUS
  <2>1. CASE Tick
    BY <2>1, TickInv
  <2>2. CASE AcceptTCP
    BY <2>2, AcceptTCPInv
  <2>3. CASE AcceptUDP
    BY <2>3, AcceptUDPInv
  <2>4. CASE ProcessTCP
    BY <2>4, ProcessTCPInv
  <2>5. CASE ProcessRQT
    BY <2>5, ProcessRQTInv
  <2>6. CASE ProcessRQS
    BY <2>6, ProcessRQSInv
  <2>7. CASE ProcessAWI
    BY <2>7, ProcessAWIInv
  <2>8. CASE AnswerUDP
    BY <2>8, AnswerUDPInv
  <2>9. CASE \E a \in Answerers : AnswerTCP(a)
    BY <2>9, AnswerTCPInv
  <2>10. CASE UNCHANGED vars
    BY <2>10, StutterInv
  <2> QED
    BY <2>1, <2>2, <2>3, <2>4, <2>5, <2>6, <2>7, <2>8, <2>9, <2>10 DEF Next
<1> QED  BY <1>1, <1>2, PTL DEF Spec

\* Whatever the clients send and however the threads interleave, no field, no
\* local variable and no answer of the server leaves its type: in particular a
\* score that leaves in an AQS is -2, -1 or in 0..100.
THEOREM TypeCorrect == Spec => []TypeOK
<1>1. IInv => TypeOK
  BY DEF IInv
<1> QED  BY <1>1, Inductive, PTL

\* For any number of clients and of answerTCP threads, an accepted connection is
\* in exactly one queue or one thread until it is closed, and nowhere after.
THEOREM OnePlaceAlways == Spec => []OnePlace
<1>1. IInv => OnePlace
  BY DEF IInv
<1> QED  BY <1>1, Inductive, PTL

-----------------------------------------------------------------------------
(* The semaphores count what the queues hold: SemCountsQueue               *)
(* and NoPopFromEmpty for any number of clients and of answerTCP threads.  *)
(*                                                                         *)
(* While the server runs, the posts a queue has received and not spent,    *)
(* the post to come and the threads about to pop add up to its items.  At  *)
(* the shutdown that balance gives Popping <= Len, which no later step can *)
(* break, since a thread that wakes up after _exit was set does not pop.   *)

Balanced == \A q \in Queues : sem[q] + Popping(q) + Posting(q) = Len(queue[q])

CInv ==
  /\ NoPopFromEmpty
  /\ Running /\ ~exit => Balanced
  /\ pc["acceptTCP"] = "wake" => exit
  /\ ~Running => \A t \in Threads : pc[t] = "terminated"

\* The thread that pushes to q and posts its semaphore after the unlock.
PostsLater(t, q) ==
  \/ t = "acceptTCP"  /\ q = "requests"
  \/ t = "processRQS" /\ q = "answers"
  \/ t = "acceptUDP"  /\ q = "awiRequests"

-----------------------------------------------------------------------------
(* What the step of one thread does to the two counts.                     *)

LEMMA ConsumersOK ==
  ASSUME NEW q \in Queues
  PROVE  IsFiniteSet(Consumers(q)) /\ Consumers(q) \subseteq Threads
<1>1. CASE q = "answers"
  BY <1>1, TesAssumption DEF Consumers, Threads
<1>2. CASE q # "answers"
  <2>1. PICK t \in Threads : Consumers(q) = {t}
    BY <1>2 DEF Consumers, Queues, ConnQueues, Threads
  <2> QED  BY <2>1, FS_Singleton
<1> QED  BY <1>1, <1>2

LEMMA PoppingMoves ==
  ASSUME TypeOK, NEW t \in Threads, NEW l, Goto(t, l), NEW q \in Queues
  PROVE  /\ Popping(q) \in Nat /\ Popping(q)' \in Nat
         /\ t \notin Consumers(q) \/ (pc[t] = "pop" <=> l = "pop")
              => Popping(q)' = Popping(q)
         /\ t \in Consumers(q) /\ pc[t] # "pop" /\ l = "pop"
              => Popping(q)' = Popping(q) + 1
         /\ t \in Consumers(q) /\ pc[t] = "pop" /\ l # "pop"
              => Popping(q)' = Popping(q) - 1
<1> DEFINE W == {u \in Consumers(q) : pc[u] = "pop"}
           V == {u \in Consumers(q) : pc'[u] = "pop"}
<1>1. IsFiniteSet(Consumers(q)) /\ Consumers(q) \subseteq Threads
  BY ConsumersOK
<1>2. IsFiniteSet(W) /\ IsFiniteSet(V)
  BY <1>1, FS_Subset
<1>3. Popping(q) = Cardinality(W) /\ Popping(q)' = Cardinality(V)
  BY DEF Popping, Consumers
<1>4. Cardinality(W) \in Nat /\ Cardinality(V) \in Nat
  BY <1>2, FS_CardinalityType
<1>5. pc'[t] = l /\ \A u \in Threads : u # t => pc'[u] = pc[u]
  BY DEF Goto, TypeOK
<1>6. ASSUME t \notin Consumers(q) \/ (pc[t] = "pop" <=> l = "pop")
      PROVE  V = W
  BY <1>1, <1>5, <1>6
<1>7. ASSUME t \in Consumers(q), pc[t] # "pop", l = "pop"
      PROVE  Cardinality(V) = Cardinality(W) + 1
  <2>1. V = W \cup {t} /\ t \notin W
    BY <1>1, <1>5, <1>7
  <2> QED  BY <2>1, <1>2, FS_AddElement
<1>8. ASSUME t \in Consumers(q), pc[t] = "pop", l # "pop"
      PROVE  Cardinality(V) = Cardinality(W) - 1
  <2>1. V = W \ {t} /\ t \in W
    BY <1>1, <1>5, <1>8
  <2> QED  BY <2>1, <1>2, FS_RemoveElement
<1> QED  BY <1>3, <1>4, <1>6, <1>7, <1>8

LEMMA PostingMoves ==
  ASSUME TypeOK, NEW t \in Threads, NEW l, Goto(t, l), NEW q \in Queues
  PROVE  /\ Posting(q) \in {0, 1} /\ Posting(q)' \in {0, 1}
         /\ ~PostsLater(t, q) \/ (pc[t] = "post" <=> l = "post")
              => Posting(q)' = Posting(q)
         /\ PostsLater(t, q) /\ pc[t] # "post" /\ l = "post"
              => Posting(q) = 0 /\ Posting(q)' = 1
         /\ PostsLater(t, q) /\ pc[t] = "post" /\ l # "post"
              => Posting(q) = 1 /\ Posting(q)' = 0
<1>1. pc'[t] = l /\ \A u \in Threads : u # t => pc'[u] = pc[u]
  BY DEF Goto, TypeOK
<1>2. {"acceptTCP", "processRQS", "acceptUDP"} \subseteq Threads
  BY DEF Threads
<1>3. CASE q = "requests"
  BY <1>1, <1>2, <1>3 DEF Posting, PostsLater
<1>4. CASE q = "answers"
  BY <1>1, <1>2, <1>4 DEF Posting, PostsLater
<1>5. CASE q = "awiRequests"
  BY <1>1, <1>2, <1>5 DEF Posting, PostsLater
<1>6. CASE q \notin {"requests", "answers", "awiRequests"}
  BY <1>6 DEF Posting, PostsLater
<1> QED  BY <1>3, <1>4, <1>5, <1>6

LEMMA LenOK ==
  ASSUME TypeOK, NEW q \in Queues
  PROVE  /\ Len(queue[q]) \in Nat
         /\ sem[q] \in Nat
         /\ q \in Sems
BY DEF TypeOK, QueuesOK, Sems

LEMMA RunningMoves ==
  ASSUME TypeOK, CInv, NEW t \in Threads, NEW l, Goto(t, l),
         l \notin {"terminated", "wake"}, pc[t] # "terminated"
  PROVE  /\ Running /\ Running'
         /\ pc'["acceptTCP"] = "wake" => pc["acceptTCP"] = "wake"
BY DEF Goto, TypeOK, Running, Threads, CInv

\* What is left to show of a step that neither raises _exit nor ends the process.
LEMMA StepCounts ==
  ASSUME CInv, UNCHANGED exit, Running', NoPopFromEmpty', ~exit => Balanced',
         pc'["acceptTCP"] = "wake" => pc["acceptTCP"] = "wake"
  PROVE  CInv'
BY DEF CInv

-----------------------------------------------------------------------------
(* The kinds of steps.                                                     *)

\* Neither a pop, a push nor a post.
LEMMA SilentCounts ==
  ASSUME TypeOK, CInv, NEW t \in Threads, NEW l, Goto(t, l),
         t = "answerUDP" \/ {pc[t], l} \cap {"pop", "post"} = {},
         l \notin {"terminated", "wake"}, pc[t] # "terminated",
         UNCHANGED <<queue, exit>>, \A q \in Queues : sem'[q] = sem[q]
  PROVE  CInv'
<1>1. ASSUME NEW q \in Queues
      PROVE  Popping(q)' = Popping(q) /\ Posting(q)' = Posting(q)
  <2>1. t = "answerUDP" => t \notin Consumers(q) /\ ~PostsLater(t, q)
    BY TesAssumption DEF Consumers, PostsLater, Queues, ConnQueues
  <2> QED  BY <2>1, PoppingMoves, PostingMoves
<1>2. /\ Running /\ Running'
      /\ pc'["acceptTCP"] = "wake" => pc["acceptTCP"] = "wake"
  BY RunningMoves
<1> QED  BY <1>1, <1>2 DEF CInv, NoPopFromEmpty, Balanced

LEMMA WaitCounts ==
  ASSUME TypeOK, CInv, NEW q \in Queues, NEW t \in Consumers(q), Wait(t, q)
  PROVE  CInv'
<1>1. t \in Threads /\ ~PostsLater(t, q) /\ t # "acceptTCP"
  BY ConsumersOK, TesAssumption DEF Consumers, PostsLater, Queues, ConnQueues
<1>2. /\ pc[t] = "wait" /\ Goto(t, Woken) /\ UNCHANGED <<queue, exit>>
      /\ sem' = [sem EXCEPT ![q] = @ - 1]
      /\ Woken = IF exit THEN "done" ELSE "pop"
  BY DEF Wait, SemWait, Woken
<1>3. \A p \in Queues : sem'[p] = IF p = q THEN sem[p] - 1 ELSE sem[p]
  BY <1>2, LenOK DEF TypeOK
<1>4. \A p \in Queues : Posting(p)' = Posting(p)
  BY <1>1, <1>2, PostingMoves
<1>5. \A p \in Queues : p # q => t \notin Consumers(p)
  BY TesAssumption DEF Consumers, Queues, ConnQueues
<1>6. \A p \in Queues :
        Popping(p)' = IF p = q /\ ~exit THEN Popping(p) + 1 ELSE Popping(p)
  BY <1>1, <1>2, <1>5, PoppingMoves
<1>7. /\ Running /\ Running'
      /\ pc'["acceptTCP"] = "wake" => pc["acceptTCP"] = "wake"
  BY <1>1, <1>2, RunningMoves
<1>8. \A p \in Queues : Popping(p) \in Nat /\ Posting(p) \in {0, 1} /\ Len(queue[p]) \in Nat
                          /\ sem[p] \in Nat
  BY <1>1, <1>2, PoppingMoves, PostingMoves, LenOK
<1>9. ~exit => Balanced /\ Balanced'
  BY <1>2, <1>3, <1>4, <1>6, <1>7, <1>8 DEF CInv, Balanced
<1>10. NoPopFromEmpty'
  <2>1. CASE exit
    BY <2>1, <1>2, <1>6 DEF CInv, NoPopFromEmpty
  <2>2. CASE ~exit
    <3>1. \A p \in Queues : sem'[p] >= 0 /\ Popping(p)' >= 0 /\ Posting(p)' >= 0
      BY <1>1, <1>2, <1>3, <1>4, <1>8, <2>2, PoppingMoves DEF Wait, SemWait
    <3> QED  BY <3>1, <1>2, <1>3, <1>4, <1>6, <1>8, <1>9, <2>2
             DEF NoPopFromEmpty, Balanced
  <2> QED  BY <2>1, <2>2
<1> QED  BY <1>2, <1>7, <1>9, <1>10, StepCounts

LEMMA PopCounts ==
  ASSUME TypeOK, CInv, NEW q \in Queues, NEW t \in Consumers(q), NEW l, Goto(t, l),
         pc[t] = "pop", l \notin {"pop", "post", "terminated", "wake"},
         Pop(q), UNCHANGED <<sem, exit>>
  PROVE  CInv'
<1>1. t \in Threads /\ ~PostsLater(t, q)
  BY ConsumersOK, TesAssumption DEF Consumers, PostsLater, Queues, ConnQueues
<1>2. \A p \in Queues : Posting(p)' = Posting(p)
  BY <1>1, PostingMoves
<1>3. \A p \in Queues : p # q => t \notin Consumers(p)
  BY TesAssumption DEF Consumers, Queues, ConnQueues
<1>4. \A p \in Queues : Popping(p)' = IF p = q THEN Popping(p) - 1 ELSE Popping(p)
  BY <1>1, <1>3, PoppingMoves
<1>5. \A p \in Queues :
        Len(queue'[p]) = IF p = q THEN Len(queue[p]) - 1 ELSE Len(queue[p])
  BY DEF Pop, TypeOK, QueuesOK
<1>6. /\ Running /\ Running'
      /\ pc'["acceptTCP"] = "wake" => pc["acceptTCP"] = "wake"
  BY <1>1, RunningMoves
<1>7. \A p \in Queues : Popping(p) \in Nat /\ Posting(p) \in {0, 1}
                          /\ Len(queue[p]) \in Nat /\ sem[p] \in Nat
  BY <1>1, PoppingMoves, PostingMoves, LenOK
<1>8. NoPopFromEmpty'
  BY <1>4, <1>5, <1>7 DEF CInv, NoPopFromEmpty
<1>9. ~exit => Balanced'
  <2> SUFFICES ASSUME ~exit, NEW p \in Queues
               PROVE  sem'[p] + Popping(p)' + Posting(p)' = Len(queue'[p])
    BY DEF Balanced
  <2>1. sem[p] + Popping(p) + Posting(p) = Len(queue[p])
    BY <1>6 DEF CInv, Balanced
  <2>2. sem'[p] = sem[p] /\ Posting(p)' = Posting(p)
    BY <1>2
  <2>3. /\ Popping(p) \in Nat /\ Posting(p) \in {0, 1}
        /\ Len(queue[p]) \in Nat /\ sem[p] \in Nat
    BY <1>7
  <2>4. CASE p = q
    <3>1. Popping(p)' = Popping(p) - 1 /\ Len(queue'[p]) = Len(queue[p]) - 1
      BY <1>4, <1>5, <2>4
    <3>2. sem[p] + (Popping(p) - 1) + Posting(p) = Len(queue[p]) - 1
      BY <2>1, <2>3
    <3> QED  BY <2>2, <3>1, <3>2
  <2>5. CASE p # q
    <3>1. Popping(p)' = Popping(p) /\ Len(queue'[p]) = Len(queue[p])
      BY <1>4, <1>5, <2>5
    <3> QED  BY <2>1, <2>2, <2>3, <3>1
  <2> QED  BY <2>4, <2>5
<1> QED  BY <1>6, <1>8, <1>9, StepCounts

\* A push whose post is still to come.
LEMMA PushCounts ==
  ASSUME TypeOK, CInv, NEW q \in Queues, NEW t \in Threads, PostsLater(t, q),
         NEW x, Push(q, x), Goto(t, "post"), pc[t] \notin {"pop", "post", "terminated"},
         UNCHANGED <<sem, exit>>
  PROVE  CInv'
<1>1. \A p \in Queues : p # q => ~PostsLater(t, p)
  BY DEF PostsLater
<1>2. \A p \in Queues : Posting(p)' = IF p = q THEN Posting(p) + 1 ELSE Posting(p)
  BY <1>1, PostingMoves
<1>3. \A p \in Queues : Popping(p)' = Popping(p)
  BY PoppingMoves
<1>4. \A p \in Queues :
        Len(queue'[p]) = IF p = q THEN Len(queue[p]) + 1 ELSE Len(queue[p])
  BY DEF Push, TypeOK, QueuesOK
<1>5. /\ Running /\ Running'
      /\ pc'["acceptTCP"] = "wake" => pc["acceptTCP"] = "wake"
  BY RunningMoves
<1>6. \A p \in Queues : Popping(p) \in Nat /\ Posting(p) \in {0, 1}
                          /\ Len(queue[p]) \in Nat /\ sem[p] \in Nat
  BY PoppingMoves, PostingMoves, LenOK
<1>7. NoPopFromEmpty'
  BY <1>3, <1>4, <1>6 DEF CInv, NoPopFromEmpty
<1>8. ~exit => Balanced'
  <2> SUFFICES ASSUME ~exit, NEW p \in Queues
               PROVE  sem'[p] + Popping(p)' + Posting(p)' = Len(queue'[p])
    BY DEF Balanced
  <2>1. sem[p] + Popping(p) + Posting(p) = Len(queue[p])
    BY <1>5 DEF CInv, Balanced
  <2>2. sem'[p] = sem[p] /\ Popping(p)' = Popping(p)
    BY <1>3
  <2>3. /\ Popping(p) \in Nat /\ Posting(p) \in {0, 1}
        /\ Len(queue[p]) \in Nat /\ sem[p] \in Nat
    BY <1>6
  <2>4. CASE p = q
    <3>1. Posting(p)' = Posting(p) + 1 /\ Len(queue'[p]) = Len(queue[p]) + 1
      BY <1>2, <1>4, <2>4
    <3>2. sem[p] + Popping(p) + (Posting(p) + 1) = Len(queue[p]) + 1
      BY <2>1, <2>3
    <3> QED  BY <2>2, <3>1, <3>2
  <2>5. CASE p # q
    <3>1. Posting(p)' = Posting(p) /\ Len(queue'[p]) = Len(queue[p])
      BY <1>2, <1>4, <2>5
    <3> QED  BY <2>1, <2>2, <3>1
  <2> QED  BY <2>4, <2>5
<1> QED  BY <1>5, <1>7, <1>8, StepCounts

\* That post.
LEMMA PostCounts ==
  ASSUME TypeOK, CInv, NEW q \in Queues, NEW t \in Threads, PostsLater(t, q),
         NEW l, Goto(t, l), pc[t] = "post",
         l \notin {"pop", "post", "terminated", "wake"},
         Post(q), UNCHANGED <<queue, exit>>
  PROVE  CInv'
<1>1. \A p \in Queues : p # q => ~PostsLater(t, p)
  BY DEF PostsLater
<1>2. \A p \in Queues : Posting(p)' = IF p = q THEN Posting(p) - 1 ELSE Posting(p)
  BY <1>1, PostingMoves
<1>3. \A p \in Queues : Popping(p)' = Popping(p)
  BY PoppingMoves
<1>4. \A p \in Queues : sem'[p] = IF p = q THEN sem[p] + 1 ELSE sem[p]
  BY LenOK DEF Post, TypeOK
<1>5. /\ Running /\ Running'
      /\ pc'["acceptTCP"] = "wake" => pc["acceptTCP"] = "wake"
  BY RunningMoves
<1>6. \A p \in Queues : Popping(p) \in Nat /\ Posting(p) \in {0, 1}
                          /\ Len(queue[p]) \in Nat /\ sem[p] \in Nat
  BY PoppingMoves, PostingMoves, LenOK
<1>7. NoPopFromEmpty'
  BY <1>3 DEF CInv, NoPopFromEmpty
<1>8. ~exit => Balanced'
  <2> SUFFICES ASSUME ~exit, NEW p \in Queues
               PROVE  sem'[p] + Popping(p)' + Posting(p)' = Len(queue'[p])
    BY DEF Balanced
  <2>1. sem[p] + Popping(p) + Posting(p) = Len(queue[p])
    BY <1>5 DEF CInv, Balanced
  <2>2. Len(queue'[p]) = Len(queue[p]) /\ Popping(p)' = Popping(p)
    BY <1>3
  <2>3. /\ Popping(p) \in Nat /\ Posting(p) \in {0, 1}
        /\ Len(queue[p]) \in Nat /\ sem[p] \in Nat
    BY <1>6
  <2>4. CASE p = q
    <3>1. Posting(p)' = Posting(p) - 1 /\ sem'[p] = sem[p] + 1
      BY <1>2, <1>4, <2>4
    <3>2. (sem[p] + 1) + Popping(p) + (Posting(p) - 1) = Len(queue[p])
      BY <2>1, <2>3
    <3> QED  BY <2>2, <3>1, <3>2
  <2>5. CASE p # q
    <3>1. Posting(p)' = Posting(p) /\ sem'[p] = sem[p]
      BY <1>2, <1>4, <2>5
    <3> QED  BY <2>1, <2>2, <3>1
  <2> QED  BY <2>4, <2>5
<1> QED  BY <1>5, <1>7, <1>8, StepCounts

\* A push and its post in one step.
LEMMA HandCounts ==
  ASSUME TypeOK, CInv, NEW q \in Queues, NEW t \in Threads, NEW l, Goto(t, l),
         {pc[t], l} \cap {"pop", "post", "terminated", "wake"} = {},
         NEW x, Hand(q, x), UNCHANGED exit
  PROVE  CInv'
<1>1. \A p \in Queues : Posting(p)' = Posting(p) /\ Popping(p)' = Popping(p)
  <2>1. \A p \in Queues : Posting(p)' = Posting(p)
    BY PostingMoves
  <2>2. \A p \in Queues : Popping(p)' = Popping(p)
    BY PoppingMoves
  <2> QED  BY <2>1, <2>2
<1>2. \A p \in Queues :
        Len(queue'[p]) = IF p = q THEN Len(queue[p]) + 1 ELSE Len(queue[p])
  BY DEF Hand, Push, TypeOK, QueuesOK
<1>3. \A p \in Queues : sem'[p] = IF p = q THEN sem[p] + 1 ELSE sem[p]
  BY LenOK DEF Hand, Post, TypeOK
<1>4. /\ Running /\ Running'
      /\ pc'["acceptTCP"] = "wake" => pc["acceptTCP"] = "wake"
  BY RunningMoves
<1>5. \A p \in Queues : Popping(p) \in Nat /\ Posting(p) \in {0, 1}
                          /\ Len(queue[p]) \in Nat /\ sem[p] \in Nat
  BY PoppingMoves, PostingMoves, LenOK
<1>6. NoPopFromEmpty'
  BY <1>1, <1>2, <1>5 DEF CInv, NoPopFromEmpty
<1>7. ~exit => Balanced'
  <2> SUFFICES ASSUME ~exit, NEW p \in Queues
               PROVE  sem'[p] + Popping(p)' + Posting(p)' = Len(queue'[p])
    BY DEF Balanced
  <2>1. sem[p] + Popping(p) + Posting(p) = Len(queue[p])
    BY <1>4 DEF CInv, Balanced
  <2>2. Popping(p)' = Popping(p) /\ Posting(p)' = Posting(p)
    BY <1>1
  <2>3. /\ Popping(p) \in Nat /\ Posting(p) \in {0, 1}
        /\ Len(queue[p]) \in Nat /\ sem[p] \in Nat
    BY <1>5
  <2>4. CASE p = q
    <3>1. sem'[p] = sem[p] + 1 /\ Len(queue'[p]) = Len(queue[p]) + 1
      BY <1>2, <1>3, <2>4
    <3> QED  BY <2>1, <2>2, <2>3, <3>1
  <2>5. CASE p # q
    <3>1. sem'[p] = sem[p] /\ Len(queue'[p]) = Len(queue[p])
      BY <1>2, <1>3, <2>5
    <3> QED  BY <2>1, <2>2, <2>3, <3>1
  <2> QED  BY <2>4, <2>5
<1> QED  BY <1>4, <1>6, <1>7, StepCounts

LEMMA TerminateCounts ==
  ASSUME TypeOK, Terminate, UNCHANGED queue
  PROVE  CInv'
<1>1. \A t \in Threads : pc'[t] = "terminated"
  BY DEF Terminate
<1>2. ASSUME NEW q \in Queues PROVE Popping(q)' = 0
  <2>1. {t \in Consumers(q) : pc'[t] = "pop"} = {}
    BY <1>1, ConsumersOK
  <2>2. Popping(q)' = Cardinality({t \in Consumers(q) : pc'[t] = "pop"})
    BY DEF Popping, Consumers
  <2> QED  BY <2>1, <2>2, FS_EmptySet
<1>3. NoPopFromEmpty'
  BY <1>2, LenOK DEF NoPopFromEmpty
<1>4. ~Running' /\ pc'["acceptTCP"] # "wake"
  BY <1>1 DEF Running, Threads
<1> QED  BY <1>1, <1>3, <1>4 DEF CInv

LEMMA FailCounts ==
  ASSUME TypeOK, CInv, AcceptTCPFail
  PROVE  CInv'
<1>1. "acceptTCP" \in Threads
  BY DEF Threads
<1>2. /\ pc["acceptTCP"] \in {"bind", "accept"}
      /\ Goto("acceptTCP", "wake") /\ exit' = TRUE /\ UNCHANGED queue
  BY DEF AcceptTCPFail
<1>3. \A p \in Queues : Popping(p)' = Popping(p)
  BY <1>1, <1>2, PoppingMoves
<1>4. pc'["acceptTCP"] = "wake"
  BY <1>1, <1>2 DEF Goto, TypeOK
<1> QED  BY <1>2, <1>3, <1>4 DEF CInv, NoPopFromEmpty, Running

LEMMA WakeCounts ==
  ASSUME TypeOK, CInv, AcceptTCPWake
  PROVE  CInv'
<1>1. "acceptTCP" \in Threads
  BY DEF Threads
<1>2. /\ pc["acceptTCP"] = "wake" /\ exit
      /\ Goto("acceptTCP", "done") /\ UNCHANGED <<queue, exit>>
  BY DEF AcceptTCPWake, CInv
<1>3. \A p \in Queues : Popping(p)' = Popping(p)
  BY <1>1, <1>2, PoppingMoves
<1>4. pc'["acceptTCP"] = "done"
  BY <1>1, <1>2 DEF Goto, TypeOK
<1> QED  BY <1>2, <1>3, <1>4 DEF CInv, NoPopFromEmpty, Running

LEMMA StutterCounts ==
  ASSUME CInv, UNCHANGED <<queue, sem, exit, pc>>
  PROVE  CInv'
BY DEF CInv, NoPopFromEmpty, Balanced, Popping, Posting, Running, Consumers

LEMMA InitCounts ==
  ASSUME Init
  PROVE  CInv
<1>1. ASSUME NEW q \in Queues PROVE Popping(q) = 0
  <2>1. {t \in Consumers(q) : pc[t] = "pop"} = {}
    BY ConsumersOK DEF Init
  <2> QED  BY <2>1, FS_EmptySet DEF Popping
<1>2. ASSUME NEW q \in Queues PROVE Posting(q) = 0
  BY DEF Init, Posting, Threads
<1>3. ASSUME NEW q \in Queues PROVE sem[q] = 0 /\ queue[q] = <<>>
  BY DEF Init, Sems
<1>4. Running /\ pc["acceptTCP"] # "wake"
  BY DEF Init, Running, Threads
<1>5. NoPopFromEmpty
  BY <1>1, <1>3 DEF NoPopFromEmpty
<1>6. Balanced
  BY <1>1, <1>2, <1>3 DEF Balanced
<1> QED  BY <1>4, <1>5, <1>6 DEF CInv

-----------------------------------------------------------------------------
(* One lemma per thread.                                                   *)

LEMMA AcceptTCPCounts ==
  ASSUME TypeOK, CInv, AcceptTCP
  PROVE  CInv'
<1>1. "acceptTCP" \in Threads /\ "requests" \in Queues
  BY DEF Threads, Queues, ConnQueues
<1>2. PostsLater("acceptTCP", "requests")
  BY DEF PostsLater
<1>3. CASE AcceptTCPBind
  <2>1. /\ pc["acceptTCP"] = "bind" /\ Goto("acceptTCP", "accept")
        /\ UNCHANGED <<queue, exit, sem>>
    BY <1>3 DEF AcceptTCPBind
  <2> QED  BY <1>1, <2>1, SilentCounts
<1>4. CASE AcceptTCPInUse
  BY <1>4, TerminateCounts DEF AcceptTCPInUse
<1>5. CASE AcceptTCPPost
  <2>1. /\ pc["acceptTCP"] = "post" /\ Post("requests")
        /\ Goto("acceptTCP", IF exit THEN "done" ELSE "accept")
        /\ UNCHANGED <<queue, exit>>
    BY <1>5 DEF AcceptTCPPost, Again
  <2>2. (IF exit THEN "done" ELSE "accept") \notin {"pop", "post", "terminated", "wake"}
    OBVIOUS
  <2> QED  BY <1>1, <1>2, <2>1, <2>2, PostCounts
<1>6. CASE AcceptTCPFail
  BY <1>6, FailCounts
<1>7. CASE AcceptTCPWake
  BY <1>7, WakeCounts
<1>8. ASSUME NEW c \in Clients, AcceptTCPClient(c)
      PROVE  CInv'
  <2>1. /\ pc["acceptTCP"] = "accept" /\ Push("requests", c)
        /\ Goto("acceptTCP", "post") /\ UNCHANGED <<sem, exit>>
    BY <1>8 DEF AcceptTCPClient
  <2> QED  BY <1>1, <1>2, <2>1, PushCounts
<1> QED  BY <1>3, <1>4, <1>5, <1>6, <1>7, <1>8 DEF AcceptTCP

LEMMA AcceptUDPCounts ==
  ASSUME TypeOK, CInv, AcceptUDP
  PROVE  CInv'
<1>1. "acceptUDP" \in Threads /\ "awiRequests" \in Queues
  BY DEF Threads, Queues
<1>2. PostsLater("acceptUDP", "awiRequests")
  BY DEF PostsLater
<1>3. CASE AcceptUDPPost
  <2>1. /\ pc["acceptUDP"] = "post" /\ Post("awiRequests")
        /\ Goto("acceptUDP", IF exit THEN "done" ELSE "receive")
        /\ UNCHANGED <<queue, exit>>
    BY <1>3 DEF AcceptUDPPost, Again
  <2>2. (IF exit THEN "done" ELSE "receive") \notin {"pop", "post", "terminated", "wake"}
    OBVIOUS
  <2> QED  BY <1>1, <1>2, <2>1, <2>2, PostCounts
<1>4. CASE AcceptUDPLeave
  <2>1. /\ pc["acceptUDP"] = "receive" /\ Goto("acceptUDP", "done")
        /\ UNCHANGED <<queue, exit, sem>>
    BY <1>4 DEF AcceptUDPLeave
  <2> QED  BY <1>1, <2>1, SilentCounts
<1>5. ASSUME NEW d \in Datagram, AcceptUDPReceive(d)
      PROVE  CInv'
  <2>1. /\ pc["acceptUDP"] = "receive" /\ Push("awiRequests", d)
        /\ Goto("acceptUDP", "post") /\ UNCHANGED <<sem, exit>>
    BY <1>5 DEF AcceptUDPReceive
  <2> QED  BY <1>1, <1>2, <2>1, PushCounts
<1> QED  BY <1>3, <1>4, <1>5 DEF AcceptUDP

\* A request goes on to the next queue with its post, or the thread spins.
LEMMA HandOn ==
  ASSUME TypeOK, CInv, NEW t \in Threads, NEW q \in Queues, NEW x, Hand(q, x),
         NEW l \in {"wait", "accept", "receive"}, Again(t, l),
         pc[t] \in {"read", "answer"}, UNCHANGED exit
  PROVE  CInv'
<1>1. Goto(t, IF exit THEN "done" ELSE l)
  BY DEF Again
<1>2. {pc[t], IF exit THEN "done" ELSE l}
         \cap {"pop", "post", "terminated", "wake"} = {}
  OBVIOUS
<1> QED  BY <1>1, <1>2, HandCounts

LEMMA ProcessTCPCounts ==
  ASSUME TypeOK, CInv, ProcessTCP
  PROVE  CInv'
<1>1. /\ "processTCP" \in Threads /\ {"requests", "rqtRequests", "rqsRequests", "answers"} \subseteq Queues
      /\ "processTCP" \in Consumers("requests")
  BY DEF Threads, Queues, ConnQueues, Consumers
<1>2. CASE ProcessTCPWait
  BY <1>1, <1>2, WaitCounts DEF ProcessTCPWait
<1>3. CASE ProcessTCPPop
  <2>1. /\ pc["processTCP"] = "pop" /\ Pop("requests")
        /\ Goto("processTCP", "read") /\ UNCHANGED <<sem, exit>>
    BY <1>3 DEF ProcessTCPPop
  <2> QED  BY <1>1, <2>1, PopCounts
<1>4. CASE ProcessTCPSpin
  <2>1. /\ pc["processTCP"] = "read" /\ Goto("processTCP", "spin")
        /\ UNCHANGED <<queue, exit, sem>>
    BY <1>4 DEF ProcessTCPSpin
  <2> QED  BY <1>1, <2>1, SilentCounts
<1>5. ASSUME NEW K, NEW q \in Queues, Read(K, q)
      PROVE  CInv'
  <2>1. /\ pc["processTCP"] = "read" /\ Hand(q, cur["processTCP"])
        /\ Again("processTCP", "wait") /\ UNCHANGED exit
    BY <1>5 DEF Read
  <2> QED  BY <1>1, <2>1, HandOn
<1>6. CASE ProcessTCPTimedOut
  <2>1. /\ pc["processTCP"] = "read" /\ Hand("answers", cur["processTCP"])
        /\ Again("processTCP", "wait") /\ UNCHANGED exit
    BY <1>6 DEF ProcessTCPTimedOut
  <2> QED  BY <1>1, <2>1, HandOn
<1> QED  BY <1>1, <1>2, <1>3, <1>4, <1>5, <1>6
         DEF ProcessTCP, ProcessTCPToRQT, ProcessTCPToRQS, ProcessTCPToERR

LEMMA ProcessRQTCounts ==
  ASSUME TypeOK, CInv, ProcessRQT
  PROVE  CInv'
<1>1. /\ "processRQT" \in Threads /\ {"rqtRequests", "answers"} \subseteq Queues
      /\ "processRQT" \in Consumers("rqtRequests")
  BY DEF Threads, Queues, ConnQueues, Consumers
<1>2. CASE ProcessRQTWait
  BY <1>1, <1>2, WaitCounts DEF ProcessRQTWait
<1>3. CASE ProcessRQTPop
  <2>1. PICK l \in {"answer", "lock"} : Goto("processRQT", l)
    BY <1>3 DEF ProcessRQTPop
  <2>2. /\ pc["processRQT"] = "pop" /\ Pop("rqtRequests") /\ UNCHANGED <<sem, exit>>
    BY <1>3 DEF ProcessRQTPop
  <2> QED  BY <1>1, <2>1, <2>2, PopCounts
<1>4. CASE ProcessRQTLock
  <2>1. /\ pc["processRQT"] = "lock" /\ Goto("processRQT", "insert")
        /\ UNCHANGED <<queue, exit, sem>>
    BY <1>4 DEF ProcessRQTLock
  <2> QED  BY <1>1, <2>1, SilentCounts
<1>5. CASE ProcessRQTInsert
  <2>1. /\ pc["processRQT"] = "insert" /\ Goto("processRQT", "answer")
        /\ UNCHANGED <<queue, exit, sem>>
    BY <1>5 DEF ProcessRQTInsert
  <2> QED  BY <1>1, <2>1, SilentCounts
<1>6. CASE ProcessRQTAnswer
  <2>1. /\ pc["processRQT"] = "answer" /\ Hand("answers", cur["processRQT"])
        /\ Again("processRQT", "wait") /\ UNCHANGED exit
    BY <1>6 DEF ProcessRQTAnswer
  <2> QED  BY <1>1, <2>1, HandOn
<1>7. CASE ProcessRQTNoPdf
  BY <1>7, TerminateCounts DEF ProcessRQTNoPdf
<1> QED  BY <1>2, <1>3, <1>4, <1>5, <1>6, <1>7 DEF ProcessRQT

LEMMA ProcessRQSCounts ==
  ASSUME TypeOK, CInv, ProcessRQS
  PROVE  CInv'
<1>1. /\ "processRQS" \in Threads /\ {"rqsRequests", "answers"} \subseteq Queues
      /\ "processRQS" \in Consumers("rqsRequests")
      /\ PostsLater("processRQS", "answers")
  BY DEF Threads, Queues, ConnQueues, Consumers, PostsLater
<1>2. CASE ProcessRQSWait
  BY <1>1, <1>2, WaitCounts DEF ProcessRQSWait
<1>3. CASE ProcessRQSPop
  <2>1. PICK l \in {"answer", "lock"} : Goto("processRQS", l)
    BY <1>3 DEF ProcessRQSPop
  <2>2. /\ pc["processRQS"] = "pop" /\ Pop("rqsRequests") /\ UNCHANGED <<sem, exit>>
    BY <1>3 DEF ProcessRQSPop
  <2> QED  BY <1>1, <2>1, <2>2, PopCounts
<1>4. CASE ProcessRQSLock
  <2>1. /\ pc["processRQS"] = "lock" /\ Goto("processRQS", "find")
        /\ UNCHANGED <<queue, exit, sem>>
    BY <1>4 DEF ProcessRQSLock
  <2> QED  BY <1>1, <2>1, SilentCounts
<1>5. CASE ProcessRQSFind
  <2>1. PICK l \in {"answer", "grade"} : Goto("processRQS", l)
    BY <1>5 DEF ProcessRQSFind
  <2>2. pc["processRQS"] = "find" /\ UNCHANGED <<queue, exit, sem>>
    BY <1>5 DEF ProcessRQSFind
  <2> QED  BY <1>1, <2>1, <2>2, SilentCounts
<1>6. CASE ProcessRQSGrade
  <2>1. PICK l \in {"answer", "postUDP"} : Goto("processRQS", l)
    BY <1>6 DEF ProcessRQSGrade
  <2>2. pc["processRQS"] = "grade" /\ UNCHANGED <<queue, exit, sem>>
    BY <1>6 DEF ProcessRQSGrade
  <2> QED  BY <1>1, <2>1, <2>2, SilentCounts
<1>7. CASE ProcessRQSPostUDP
  <2>1. /\ pc["processRQS"] = "postUDP" /\ Goto("processRQS", "answer")
        /\ UNCHANGED <<queue, exit>>
    BY <1>7 DEF ProcessRQSPostUDP
  <2>2. \A q \in Queues : sem'[q] = sem[q]
    BY <1>7 DEF ProcessRQSPostUDP, Post, TypeOK, Sems, Queues, ConnQueues
  <2> QED  BY <1>1, <2>1, <2>2, SilentCounts
<1>8. CASE ProcessRQSAnswer
  <2>1. /\ pc["processRQS"] = "answer" /\ Push("answers", cur["processRQS"])
        /\ Goto("processRQS", "post") /\ UNCHANGED <<sem, exit>>
    BY <1>8 DEF ProcessRQSAnswer
  <2> QED  BY <1>1, <2>1, PushCounts
<1>9. CASE ProcessRQSPost
  <2>1. /\ pc["processRQS"] = "post" /\ Post("answers")
        /\ Goto("processRQS", IF exit THEN "done" ELSE "wait")
        /\ UNCHANGED <<queue, exit>>
    BY <1>9 DEF ProcessRQSPost, Again
  <2>2. (IF exit THEN "done" ELSE "wait") \notin {"pop", "post", "terminated", "wake"}
    OBVIOUS
  <2> QED  BY <1>1, <2>1, <2>2, PostCounts
<1>10. CASE MapRace
  BY <1>10, TerminateCounts DEF MapRace
<1> QED  BY <1>2, <1>3, <1>4, <1>5, <1>6, <1>7, <1>8, <1>9, <1>10 DEF ProcessRQS

LEMMA ProcessAWICounts ==
  ASSUME TypeOK, CInv, ProcessAWI
  PROVE  CInv'
<1>1. /\ "processAWI" \in Threads /\ "awiRequests" \in Queues
      /\ "processAWI" \in Consumers("awiRequests")
  BY DEF Threads, Queues, ConnQueues, Consumers
<1>2. CASE ProcessAWIWait
  BY <1>1, <1>2, WaitCounts DEF ProcessAWIWait
<1>3. CASE ProcessAWIPop
  <2>1. PICK l \in {"done", "wait"} : Goto("processAWI", l)
    BY <1>3 DEF ProcessAWIPop, Again
  <2>2. /\ pc["processAWI"] = "pop" /\ Pop("awiRequests") /\ UNCHANGED <<sem, exit>>
    BY <1>3 DEF ProcessAWIPop
  <2> QED  BY <1>1, <2>1, <2>2, PopCounts
<1> QED  BY <1>2, <1>3 DEF ProcessAWI

\* answerUDP has a semaphore and a map, and no queue.
LEMMA AnswerUDPCounts ==
  ASSUME TypeOK, CInv, AnswerUDP
  PROVE  CInv'
<1>1. "answerUDP" \in Threads
  BY DEF Threads
<1>2. PICK l \in {"pop", "done", "store", "wait"} : Goto("answerUDP", l)
  BY DEF AnswerUDP, AnswerUDPWait, AnswerUDPSend, AnswerUDPStore, Wait, Woken, Again
<1>3. pc["answerUDP"] # "terminated" /\ UNCHANGED <<queue, exit>>
  BY DEF AnswerUDP, AnswerUDPWait, AnswerUDPSend, AnswerUDPStore, Wait
<1>4. \A q \in Queues : sem'[q] = sem[q]
  BY DEF AnswerUDP, AnswerUDPWait, AnswerUDPSend, AnswerUDPStore, Wait, SemWait,
         TypeOK, Sems, Queues, ConnQueues
<1> QED  BY <1>1, <1>2, <1>3, <1>4, SilentCounts

LEMMA AnswerTCPCounts ==
  ASSUME TypeOK, CInv, NEW a \in Answerers, AnswerTCP(a)
  PROVE  CInv'
<1>1. a \in Threads /\ "answers" \in Queues /\ a \in Consumers("answers")
  BY DEF Threads, Queues, ConnQueues, Consumers
<1>2. CASE AnswerTCPWait(a)
  BY <1>1, <1>2, WaitCounts DEF AnswerTCPWait
<1>3. CASE AnswerTCPPop(a)
  <2>1. /\ pc[a] = "pop" /\ Pop("answers")
        /\ Goto(a, "write") /\ UNCHANGED <<sem, exit>>
    BY <1>3 DEF AnswerTCPPop
  <2> QED  BY <1>1, <2>1, PopCounts
<1>4. CASE AnswerTCPWrite(a)
  <2>1. PICK l \in {"done", "wait"} : Goto(a, l)
    BY <1>4 DEF AnswerTCPWrite, Again
  <2>2. pc[a] = "write" /\ UNCHANGED <<queue, exit, sem>>
    BY <1>4 DEF AnswerTCPWrite
  <2> QED  BY <1>1, <2>1, <2>2, SilentCounts
<1> QED  BY <1>2, <1>3, <1>4 DEF AnswerTCP

-----------------------------------------------------------------------------
(* The counts always hold.                                                         *)

LEMMA CountsKept ==
  ASSUME TypeOK, CInv, [Next]_vars
  PROVE  CInv'
<1>1. CASE Tick
  BY <1>1, StutterCounts DEF Tick
<1>2. CASE UNCHANGED vars
  BY <1>2, StutterCounts DEF vars
<1> QED  BY <1>1, <1>2, AcceptTCPCounts, AcceptUDPCounts, ProcessTCPCounts,
            ProcessRQTCounts, ProcessRQSCounts, ProcessAWICounts,
            AnswerUDPCounts, AnswerTCPCounts DEF Next

\* The inductive invariant of the counts holds in every reachable state.
THEOREM CountsAlways == Spec => []CInv
<1>1. Init => CInv
  BY InitCounts
<1>2. TypeOK /\ CInv /\ [Next]_vars => CInv'
  BY CountsKept
<1> QED  BY <1>1, <1>2, TypeCorrect, PTL DEF Spec

\* Until the shutdown no item of a queue is left without a post or a thread
\* that is about to take it, however many clients and answerTCP threads.
THEOREM SemCountsQueueAlways == Spec => []SemCountsQueue
<1>1. CInv => SemCountsQueue
  BY DEF CInv, SemCountsQueue, Balanced
<1> QED  BY <1>1, CountsAlways, PTL

\* No thread pops an empty queue, the wake-ups of the shutdown included.
THEOREM NoPopFromEmptyAlways == Spec => []NoPopFromEmpty
<1>1. CInv => NoPopFromEmpty
  BY DEF CInv
<1> QED  BY <1>1, CountsAlways, PTL
-----------------------------------------------------------------------------
(* Nobody waits for ever: StuckOnlyWhenServed and ShutdownLeavesNobody.    *)

\* Where a thread can be, and who holds the mutex.
PlacesOK ==
  /\ \A t \in Threads \ {"acceptUDP"} : pc[t] = "done" => exit
  /\ \A t \in Threads : pc[t] = "spin" => t = "processTCP"
  /\ \A t \in Threads : pc[t] = "lock" => t \in {"processRQT", "processRQS"}
  /\ Running =>
       /\ \A t \in Threads : pc[t] # "terminated"
       /\ questionariesMutex # None => pc[questionariesMutex] \in {"insert", "find"}

Sleepers(q) == {t \in Consumers(q) : pc[t] = "wait"}

\* After the wake-ups there is a post for every thread still asleep.
WakeOK ==
  /\ exit => pc["acceptTCP"] \in {"wake", "done", "terminated"}
  /\ pc["acceptTCP"] = "done" =>
       \A q \in Queues : Cardinality(Sleepers(q)) <= sem[q]

DInv == PlacesOK /\ WakeOK

\* A step of t in its loop: it sleeps only while _exit is down, leaves the loop
\* only when it is up, takes back no post and keeps no mutex.
Moves(t, l) ==
  /\ Goto(t, l) /\ UNCHANGED exit
  /\ pc[t] \notin {"wait", "wake", "done", "spin", "terminated"}
  /\ l \in Labels \ {"terminated", "wake"}
  /\ \A q \in Queues : sem'[q] \in Nat /\ sem'[q] >= sem[q]
  /\ l = "wait" => ~exit
  /\ l = "done" => exit \/ t = "acceptUDP"
  /\ l = "spin" => t = "processTCP"
  /\ l = "lock" => t \in {"processRQT", "processRQS"}
  /\ \/ questionariesMutex' = None
     \/ questionariesMutex' = t /\ l \in {"insert", "find"}
     \/ UNCHANGED questionariesMutex /\ pc[t] \notin {"insert", "find"}

LEMMA PostsOnly ==
  ASSUME TypeOK, NEW q \in Sems, Post(q) \/ UNCHANGED sem
  PROVE  \A p \in Queues : sem'[p] \in Nat /\ sem'[p] >= sem[p]
BY DEF TypeOK, Post, Sems

LEMMA AcceptsMove ==
  ASSUME TypeOK, AcceptTCPBind \/ AcceptTCPPost \/ (\E c \in Clients : AcceptTCPClient(c))
                   \/ AcceptUDP
  PROVE  \E t \in {"acceptTCP", "acceptUDP"}, l \in Labels : Moves(t, l)
<1>0. "requests" \in Sems /\ "awiRequests" \in Sems
  BY DEF Sems, Queues, ConnQueues
<1>1. CASE AcceptTCPBind
  <2>1. Moves("acceptTCP", "accept")
    BY <1>0, <1>1, PostsOnly DEF AcceptTCPBind, Moves, Labels, quizzes
  <2> QED  BY <2>1 DEF Labels
<1>2. CASE AcceptTCPPost
  <2>1. Moves("acceptTCP", IF exit THEN "done" ELSE "accept")
    BY <1>0, <1>2, PostsOnly DEF AcceptTCPPost, Again, Moves, Labels, quizzes
  <2> QED  BY <2>1 DEF Labels
<1>3. ASSUME NEW c \in Clients, AcceptTCPClient(c)
      PROVE  Moves("acceptTCP", "post")
  BY <1>0, <1>3, PostsOnly DEF AcceptTCPClient, Moves, Labels, quizzes
<1>4. ASSUME NEW d \in Datagram, AcceptUDPReceive(d)
      PROVE  Moves("acceptUDP", "post")
  BY <1>0, <1>4, PostsOnly DEF AcceptUDPReceive, Moves, Labels, quizzes
<1>5. CASE AcceptUDPPost
  <2>1. Moves("acceptUDP", IF exit THEN "done" ELSE "receive")
    BY <1>0, <1>5, PostsOnly DEF AcceptUDPPost, Again, Moves, Labels, quizzes
  <2> QED  BY <2>1 DEF Labels
<1>6. CASE AcceptUDPLeave
  <2>1. Moves("acceptUDP", "done")
    BY <1>0, <1>6, PostsOnly DEF AcceptUDPLeave, Moves, Labels, quizzes
  <2> QED  BY <2>1 DEF Labels
<1> QED  BY <1>1, <1>2, <1>3, <1>4, <1>5, <1>6 DEF AcceptUDP, Labels

\* What a step of the threads that serve a request does, their waits apart.
LEMMA WorkersMove ==
  ASSUME TypeOK, ProcessTCP \/ ProcessRQT \/ ProcessRQS \/ ProcessAWI
  PROVE  \/ \E t \in {"processTCP", "processRQT", "processRQS", "processAWI"} :
              Wait(t, Own(t)) \/ \E l \in Labels : Moves(t, l)
         \/ Terminate /\ UNCHANGED <<sem, exit>>
<1>0. /\ {"requests", "rqtRequests", "rqsRequests", "answers", "answersUDP"} \subseteq Sems
      /\ \A q \in Queues : sem[q] \in Nat
  BY DEF Sems, Queues, ConnQueues, TypeOK
<1>1. CASE ProcessTCPPop
  <2>1. Moves("processTCP", "read")
    BY <1>0, <1>1 DEF ProcessTCPPop, Moves, Labels, quizzes
  <2> QED  BY <2>1 DEF Labels
<1>2. ASSUME NEW K, NEW q \in Sems, Read(K, q)
      PROVE  Moves("processTCP", IF exit THEN "done" ELSE "wait")
  BY <1>2, PostsOnly DEF Read, Hand, Again, Moves, Labels, quizzes
<1>3. CASE ProcessTCPTimedOut
  <2>1. Moves("processTCP", IF exit THEN "done" ELSE "wait")
    BY <1>0, <1>3, PostsOnly DEF ProcessTCPTimedOut, Hand, Again, Moves, Labels, quizzes
  <2> QED  BY <2>1 DEF Labels
<1>4. CASE ProcessTCPSpin
  <2>1. Moves("processTCP", "spin")
    BY <1>0, <1>4 DEF ProcessTCPSpin, Moves, Labels, quizzes
  <2> QED  BY <2>1 DEF Labels
<1>5. CASE ProcessTCP
  <2>1. "done" \in Labels /\ "wait" \in Labels
    BY DEF Labels
  <2> QED  BY <1>0, <1>1, <1>2, <1>3, <1>4, <1>5, <2>1
           DEF ProcessTCP, ProcessTCPWait, ProcessTCPToRQT, ProcessTCPToRQS,
               ProcessTCPToERR, Own
<1>6. CASE ProcessRQTPop
  <2>1. PICK l \in {"answer", "lock"} : Goto("processRQT", l)
    BY <1>6 DEF ProcessRQTPop
  <2>2. Moves("processRQT", l)
    BY <1>0, <1>6, <2>1 DEF ProcessRQTPop, Moves, Labels, quizzes
  <2> QED  BY <2>2 DEF Labels
<1>7. CASE ProcessRQTLock
  <2>1. Moves("processRQT", "insert")
    BY <1>0, <1>7 DEF ProcessRQTLock, Moves, Labels
  <2> QED  BY <2>1 DEF Labels
<1>8. CASE ProcessRQTInsert
  <2>1. Moves("processRQT", "answer")
    BY <1>0, <1>8 DEF ProcessRQTInsert, Moves, Labels
  <2> QED  BY <2>1 DEF Labels
<1>9. CASE ProcessRQTAnswer
  <2>1. Moves("processRQT", IF exit THEN "done" ELSE "wait")
    BY <1>0, <1>9, PostsOnly DEF ProcessRQTAnswer, Hand, Again, Moves, Labels, quizzes
  <2> QED  BY <2>1 DEF Labels
<1>10. CASE ProcessRQT
  BY <1>6, <1>7, <1>8, <1>9, <1>10
  DEF ProcessRQT, ProcessRQTWait, ProcessRQTNoPdf, Own
<1>11. CASE ProcessRQSPop
  <2>1. PICK l \in {"answer", "lock"} : Goto("processRQS", l)
    BY <1>11 DEF ProcessRQSPop
  <2>2. Moves("processRQS", l)
    BY <1>0, <1>11, <2>1 DEF ProcessRQSPop, Moves, Labels
  <2> QED  BY <2>2 DEF Labels
<1>12. CASE ProcessRQSLock
  <2>1. Moves("processRQS", "find")
    BY <1>0, <1>12 DEF ProcessRQSLock, Moves, Labels
  <2> QED  BY <2>1 DEF Labels
<1>13. CASE ProcessRQSFind
  <2>1. PICK l \in {"answer", "grade"} : Goto("processRQS", l)
    BY <1>13 DEF ProcessRQSFind
  <2>2. Moves("processRQS", l)
    BY <1>0, <1>13, <2>1 DEF ProcessRQSFind, Released, Moves, Labels
  <2> QED  BY <2>2 DEF Labels
<1>14. CASE ProcessRQSGrade
  <2>1. PICK l \in {"answer", "postUDP"} : Goto("processRQS", l)
    BY <1>14 DEF ProcessRQSGrade
  <2>2. Moves("processRQS", l)
    BY <1>0, <1>14, <2>1 DEF ProcessRQSGrade, Moves, Labels
  <2> QED  BY <2>2 DEF Labels
<1>15. CASE ProcessRQSPostUDP
  <2>1. Moves("processRQS", "answer")
    BY <1>0, <1>15, PostsOnly DEF ProcessRQSPostUDP, Moves, Labels, quizzes
  <2> QED  BY <2>1 DEF Labels
<1>16. CASE ProcessRQSAnswer
  <2>1. Moves("processRQS", "post")
    BY <1>0, <1>16 DEF ProcessRQSAnswer, Moves, Labels, quizzes
  <2> QED  BY <2>1 DEF Labels
<1>17. CASE ProcessRQSPost
  <2>1. Moves("processRQS", IF exit THEN "done" ELSE "wait")
    BY <1>0, <1>17, PostsOnly DEF ProcessRQSPost, Again, Moves, Labels, quizzes
  <2> QED  BY <2>1 DEF Labels
<1>18. CASE ProcessRQS
  BY <1>11, <1>12, <1>13, <1>14, <1>15, <1>16, <1>17, <1>18
  DEF ProcessRQS, ProcessRQSWait, MapRace, Own
<1>19. CASE ProcessAWI
  <2>1. CASE ProcessAWIPop
    <3>1. Moves("processAWI", IF exit THEN "done" ELSE "wait")
      BY <1>0, <2>1 DEF ProcessAWIPop, Again, Moves, Labels, quizzes
    <3> QED  BY <3>1 DEF Labels
  <2> QED  BY <1>19, <2>1 DEF ProcessAWI, ProcessAWIWait, Own
<1> QED  BY <1>5, <1>10, <1>18, <1>19

\* The same of the threads that send the answers.
LEMMA AnswerersMove ==
  ASSUME TypeOK, AnswerUDP \/ \E a \in Answerers : AnswerTCP(a)
  PROVE  \E t \in {"answerUDP"} \cup Answerers :
           Wait(t, Own(t)) \/ \E l \in Labels : Moves(t, l)
<1>0. \A q \in Queues : sem[q] \in Nat
  BY DEF Sems, TypeOK
<1>1. CASE AnswerUDPSend
  <2>1. Moves("answerUDP", "store")
    BY <1>0, <1>1 DEF AnswerUDPSend, Moves, Labels, quizzes
  <2> QED  BY <2>1 DEF Labels
<1>2. CASE AnswerUDPStore
  <2>1. Moves("answerUDP", IF exit THEN "done" ELSE "wait")
    BY <1>0, <1>2 DEF AnswerUDPStore, Again, Moves, Labels, quizzes
  <2> QED  BY <2>1 DEF Labels
<1>3. CASE AnswerUDPWait
  BY <1>3 DEF AnswerUDPWait, Own
<1>4. ASSUME NEW a \in Answerers, AnswerTCP(a)
      PROVE  Wait(a, Own(a)) \/ \E l \in Labels : Moves(a, l)
  <2>1. Own(a) = "answers"
    BY TesAssumption DEF Own
  <2>2. CASE AnswerTCPPop(a)
    <3>1. Moves(a, "write")
      BY <1>0, <2>2, TesAssumption DEF AnswerTCPPop, Moves, Labels, quizzes
    <3> QED  BY <3>1 DEF Labels
  <2>3. CASE AnswerTCPWrite(a)
    <3>1. Moves(a, IF exit THEN "done" ELSE "wait")
      BY <1>0, <2>3 DEF AnswerTCPWrite, Again, Moves, Labels, quizzes
    <3> QED  BY <3>1 DEF Labels
  <2> QED  BY <1>4, <2>1, <2>2, <2>3 DEF AnswerTCP, AnswerTCPWait
<1> QED  BY <1>1, <1>2, <1>3, <1>4 DEF AnswerUDP

LEMMA SleepersOK ==
  ASSUME NEW q \in Queues
  PROVE  /\ IsFiniteSet(Sleepers(q)) /\ Cardinality(Sleepers(q)) \in Nat
         /\ Cardinality(Sleepers(q)) <= WakeUps(q)
<1>1. IsFiniteSet(Consumers(q)) /\ Sleepers(q) \subseteq Consumers(q)
  BY ConsumersOK DEF Sleepers
<1>2. /\ IsFiniteSet(Sleepers(q))
      /\ Cardinality(Sleepers(q)) <= Cardinality(Consumers(q))
  BY <1>1, FS_Subset
<1>3. Cardinality(Consumers(q)) = WakeUps(q)
  <2>1. CASE q = "answers"
    BY <2>1 DEF Consumers, WakeUps
  <2>2. CASE q # "answers"
    <3>1. PICK t \in Threads : Consumers(q) = {t}
      BY <2>2 DEF Consumers, Queues, ConnQueues, Threads
    <3> QED  BY <2>2, <3>1, FS_Singleton DEF WakeUps, Queues, ConnQueues
  <2> QED  BY <2>1, <2>2
<1> QED  BY <1>2, <1>3, FS_CardinalityType

LEMMA MoveKeeps ==
  ASSUME TypeOK, DInv, NEW t \in Threads, NEW l \in Labels, Moves(t, l)
  PROVE  DInv'
<1>1. pc'[t] = l /\ \A u \in Threads : u # t => pc'[u] = pc[u]
  BY DEF Moves, Goto, TypeOK
<1>2. Running' <=> Running
  BY <1>1 DEF Running, Moves, Threads
<1>3. PlacesOK'
  <2>1. Running =>
          (questionariesMutex' # None => pc'[questionariesMutex'] \in {"insert", "find"})
    <3>1. questionariesMutex \in Threads \cup {None}
      BY DEF TypeOK, Threads
    <3> QED  BY <1>1, <3>1 DEF Moves, DInv, PlacesOK
  <2> QED  BY <1>1, <1>2, <2>1 DEF Moves, DInv, PlacesOK
<1>4. WakeOK'
  <2>1. t = "acceptTCP" => ~exit /\ l # "done"
    BY DEF DInv, WakeOK, Moves
  <2>2. "acceptTCP" \in Threads
    BY DEF Threads
  <2>3. exit' => pc'["acceptTCP"] \in {"wake", "done", "terminated"}
    BY <1>1, <2>1, <2>2 DEF DInv, WakeOK, Moves
  <2>4. ASSUME pc'["acceptTCP"] = "done", NEW q \in Queues
        PROVE  Cardinality(Sleepers(q))' <= sem'[q]
    <3>1. pc["acceptTCP"] = "done" /\ exit
      BY <1>1, <2>1, <2>2, <2>4 DEF DInv, PlacesOK, Threads
    <3>2. Sleepers(q)' = Sleepers(q)
      BY <1>1, <3>1, ConsumersOK DEF Sleepers, Moves, Consumers
    <3>3. /\ Cardinality(Sleepers(q)) <= sem[q] /\ sem[q] <= sem'[q]
          /\ Cardinality(Sleepers(q)) \in Nat /\ sem[q] \in Nat
      BY <3>1, SleepersOK, LenOK DEF DInv, WakeOK, Moves
    <3>4. sem'[q] \in Nat
      BY DEF Moves
    <3> QED  BY <3>2, <3>3, <3>4
  <2> QED  BY <2>3, <2>4 DEF WakeOK
<1> QED  BY <1>3, <1>4 DEF DInv

LEMMA WaitKeeps ==
  ASSUME TypeOK, DInv, NEW t \in Threads \ {"acceptTCP", "acceptUDP"}, Wait(t, Own(t))
  PROVE  DInv'
<1>1. /\ pc[t] = "wait" /\ Goto(t, Woken) /\ UNCHANGED <<exit, questionariesMutex>>
      /\ sem[Own(t)] > 0 /\ sem' = [sem EXCEPT ![Own(t)] = @ - 1]
      /\ Woken = IF exit THEN "done" ELSE "pop"
  BY DEF Wait, SemWait, Woken, quizzes
<1>2. pc'[t] = Woken /\ \A u \in Threads : u # t => pc'[u] = pc[u]
  BY <1>1 DEF Goto, TypeOK
<1>3. Running' <=> Running
  BY <1>2 DEF Running, Threads
<1>4. PlacesOK'
  <2>1. questionariesMutex \in Threads \cup {None}
    BY DEF TypeOK, Threads
  <2> QED  BY <1>1, <1>2, <1>3, <2>1 DEF DInv, PlacesOK
<1>5. WakeOK'
  <2>1. "acceptTCP" \in Threads /\ pc'["acceptTCP"] = pc["acceptTCP"]
    BY <1>2 DEF Threads
  <2>2. ASSUME pc["acceptTCP"] = "done", NEW q \in Queues
        PROVE  Cardinality(Sleepers(q))' <= sem'[q]
    <3>1. exit /\ Cardinality(Sleepers(q)) <= sem[q]
      BY <2>1, <2>2 DEF DInv, PlacesOK, WakeOK
    <3>2. Cardinality(Sleepers(q)) \in Nat /\ sem[q] \in Nat /\ IsFiniteSet(Sleepers(q))
      BY SleepersOK, LenOK
    <3>3. sem'[q] = IF q = Own(t) THEN sem[q] - 1 ELSE sem[q]
      BY <1>1, LenOK DEF TypeOK
    <3>4. CASE t \in Consumers(q)
      <4>1. q = Own(t)
        BY <3>4, TesAssumption DEF Own, Consumers, Queues, ConnQueues
      <4>2. Sleepers(q)' = Sleepers(q) \ {t} /\ t \in Sleepers(q)
        BY <1>1, <1>2, <3>1, <3>4, ConsumersOK DEF Sleepers, Consumers
      <4>3. Cardinality(Sleepers(q))' = Cardinality(Sleepers(q)) - 1
        BY <4>2, <3>2, FS_RemoveElement
      <4> QED  BY <3>1, <3>2, <3>3, <4>1, <4>3
    <3>5. CASE t \notin Consumers(q)
      <4>1. q # Own(t)
        BY <3>5 DEF Own, Consumers, Threads, Queues, ConnQueues
      <4>2. Sleepers(q)' = Sleepers(q)
        BY <1>2, <3>5, ConsumersOK DEF Sleepers, Consumers
      <4> QED  BY <3>1, <3>3, <4>1, <4>2
    <3> QED  BY <3>4, <3>5
  <2> QED  BY <1>1, <2>1, <2>2 DEF DInv, WakeOK
<1> QED  BY <1>4, <1>5 DEF DInv

LEMMA TerminateKeeps ==
  ASSUME TypeOK, Terminate, UNCHANGED <<sem, exit>>
  PROVE  DInv'
BY DEF Terminate, Threads, DInv, PlacesOK, WakeOK, Running

LEMMA FailKeeps ==
  ASSUME TypeOK, DInv, AcceptTCPFail
  PROVE  DInv'
<1>1. /\ "acceptTCP" \in Threads /\ questionariesMutex \in Threads \cup {None}
      /\ questionariesMutex # None => questionariesMutex # "acceptTCP"
  BY DEF Threads, TypeOK
<1>2. /\ pc["acceptTCP"] \in {"bind", "accept"} /\ exit'
      /\ pc' = [pc EXCEPT !["acceptTCP"] = "wake"] /\ UNCHANGED questionariesMutex
  BY DEF AcceptTCPFail, Goto, quizzes
<1>3. pc'["acceptTCP"] = "wake" /\ \A u \in Threads : u # "acceptTCP" => pc'[u] = pc[u]
  BY <1>1, <1>2 DEF TypeOK
<1> QED  BY <1>1, <1>2, <1>3 DEF DInv, PlacesOK, WakeOK, Running

LEMMA WakeKeeps ==
  ASSUME TypeOK, DInv, CInv, AcceptTCPWake
  PROVE  DInv'
<1>1. /\ "acceptTCP" \in Threads /\ questionariesMutex \in Threads \cup {None}
      /\ questionariesMutex # None => questionariesMutex # "acceptTCP"
  BY DEF Threads, TypeOK
<1>2. /\ pc["acceptTCP"] = "wake" /\ exit /\ UNCHANGED <<exit, questionariesMutex>>
      /\ pc' = [pc EXCEPT !["acceptTCP"] = "done"]
      /\ sem' = [q \in Sems |-> sem[q] + WakeUps(q)]
  BY DEF AcceptTCPWake, Goto, quizzes, CInv
<1>3. pc'["acceptTCP"] = "done" /\ \A u \in Threads : u # "acceptTCP" => pc'[u] = pc[u]
  BY <1>1, <1>2 DEF TypeOK
<1>4. ASSUME NEW q \in Queues
      PROVE  Cardinality(Sleepers(q))' <= sem'[q]
  <2>1. Sleepers(q)' = Sleepers(q)
    BY <1>2, <1>3, ConsumersOK DEF Sleepers, Consumers
  <2>2. sem'[q] = sem[q] + WakeUps(q) /\ sem[q] \in Nat
    BY <1>2, LenOK
  <2>3. WakeUps(q) \in Nat
    BY TesAssumption, FS_CardinalityType DEF WakeUps, Queues, ConnQueues
  <2> QED  BY <2>1, <2>2, <2>3, SleepersOK
<1> QED  BY <1>1, <1>2, <1>3, <1>4 DEF DInv, PlacesOK, WakeOK, Running

LEMMA InitPlaces ==
  ASSUME Init
  PROVE  DInv
BY DEF Init, Threads, DInv, PlacesOK, WakeOK

LEMMA PlacesKept ==
  ASSUME TypeOK, CInv, DInv, [Next]_vars
  PROVE  DInv'
<1>1. CASE UNCHANGED <<pc, sem, exit, questionariesMutex>>
  BY <1>1 DEF DInv, PlacesOK, WakeOK, Running, Sleepers, Consumers
<1>2. CASE Tick \/ UNCHANGED vars
  BY <1>1, <1>2 DEF Tick, vars, quizzes
<1>3. CASE AcceptTCP \/ AcceptUDP
  <2>1. CASE AcceptTCPInUse
    BY <2>1, TerminateKeeps DEF AcceptTCPInUse
  <2>2. CASE AcceptTCPFail
    BY <2>2, FailKeeps
  <2>3. CASE AcceptTCPWake
    BY <2>3, WakeKeeps
  <2>4. {"acceptTCP", "acceptUDP"} \subseteq Threads
    BY DEF Threads
  <2> QED  BY <1>3, <2>1, <2>2, <2>3, <2>4, AcceptsMove, MoveKeeps DEF AcceptTCP
<1>4. CASE ProcessTCP \/ ProcessRQT \/ ProcessRQS \/ ProcessAWI
  <2>1. {"processTCP", "processRQT", "processRQS", "processAWI"}
          \subseteq Threads \ {"acceptTCP", "acceptUDP"}
    BY DEF Threads
  <2> QED  BY <1>4, <2>1, WorkersMove, MoveKeeps, WaitKeeps, TerminateKeeps
<1>5. CASE AnswerUDP \/ \E a \in Answerers : AnswerTCP(a)
  <2>1. {"answerUDP"} \cup Answerers \subseteq Threads \ {"acceptTCP", "acceptUDP"}
    BY TesAssumption DEF Threads
  <2> QED  BY <1>5, <2>1, AnswerersMove, MoveKeeps, WaitKeeps
<1> QED  BY <1>2, <1>3, <1>4, <1>5 DEF Next

\* The inductive invariant about the places of the threads.
THEOREM PlacesAlways == Spec => []DInv
<1>1. Init => DInv
  BY InitPlaces
<1>2. TypeOK /\ CInv /\ DInv /\ [Next]_vars => DInv'
  BY PlacesKept
<1> QED  BY <1>1, <1>2, TypeCorrect, CountsAlways, PTL DEF Spec

\* Where the threads are when none of them can go on: asleep with nothing
\* posted, or out of their loops.  Nobody waits for the mutex.
LEMMA StuckPlaces ==
  ASSUME TypeOK, DInv, Stuck
  PROVE  /\ Running
         /\ \A t \in Threads \ {"acceptTCP", "acceptUDP"} :
              \/ pc[t] = "wait" /\ sem[Own(t)] = 0
              \/ pc[t] = "done" /\ exit
              \/ pc[t] = "spin" /\ t = "processTCP"
<1>1. Running
  BY DEF Stuck, Running
<1>2. {"processRQT", "processRQS"} \subseteq Threads \ {"acceptTCP", "acceptUDP"}
  BY DEF Threads
<1>3. questionariesMutex = None
  <2>1. pc["processRQT"] \notin {"insert", "find"} /\ pc["processRQS"] \notin {"insert", "find"}
    BY <1>2 DEF Stuck, Blocked
  <2> QED  BY <1>1, <2>1 DEF TypeOK, DInv, PlacesOK
<1>4. ASSUME NEW t \in Threads \ {"acceptTCP", "acceptUDP"}
      PROVE  \/ pc[t] = "wait" /\ sem[Own(t)] = 0
             \/ pc[t] = "done" /\ exit
             \/ pc[t] = "spin" /\ t = "processTCP"
  <2>1. Blocked(t) /\ pc[t] # "terminated" /\ (pc[t] = "done" => exit)
          /\ (pc[t] = "spin" => t = "processTCP")
    BY <1>1, <1>4 DEF Stuck, DInv, PlacesOK
  <2> QED  BY <1>3, <2>1 DEF Blocked
<1> QED  BY <1>1, <1>4

\* If no thread can go on after a shutdown, every thread has returned but those
\* the wake-ups leave out, and the one a client keeps in a read.
THEOREM ShutdownLeavesNobodyAlways == Spec => []ShutdownLeavesNobody
<1>1. ASSUME TypeOK, DInv, Stuck, exit,
             NEW t \in Threads \ {"acceptUDP", "answerUDP"}
      PROVE  pc[t] \in {"done", "spin"}
  <2>1. pc["acceptTCP"] = "done"
    BY <1>1 DEF Stuck, DInv, WakeOK
  <2>2. CASE t = "acceptTCP"
    BY <2>1, <2>2
  <2>3. CASE t # "acceptTCP"
    <3>1. SUFFICES ASSUME pc[t] = "wait", sem[Own(t)] = 0
                   PROVE  FALSE
      BY <1>1, <2>3, StuckPlaces
    <3>2. PICK q \in Queues : q = Own(t) /\ t \in Consumers(q)
      BY <1>1, <2>3 DEF Threads, Own, Consumers, Queues, ConnQueues
    <3>3. t \in Sleepers(q) /\ IsFiniteSet(Sleepers(q)) /\ Cardinality(Sleepers(q)) \in Nat
      BY <3>1, <3>2, SleepersOK DEF Sleepers
    <3>4. Cardinality(Sleepers(q)) # 0
      BY <3>3, FS_EmptySet
    <3>5. Cardinality(Sleepers(q)) <= 0
      BY <1>1, <2>1, <3>1, <3>2 DEF DInv, WakeOK
    <3> QED  BY <3>3, <3>4, <3>5
  <2> QED  BY <2>2, <2>3
<1>2. TypeOK /\ DInv => ShutdownLeavesNobody
  BY <1>1 DEF ShutdownLeavesNobody
<1> QED  BY <1>2, TypeCorrect, PlacesAlways, PTL

\* The threads never wait for each other with a connection or an acknowledgement
\* left, unless a client that closed early holds the one that reads.
THEOREM StuckOnlyWhenServedAlways == Spec => []StuckOnlyWhenServed
<1>1. ASSUME IInv, CInv, DInv, Stuck, ~exit
      PROVE  /\ \A c \in Clients :
                  client[c] = "open" =>
                    /\ pc["processTCP"] = "spin"
                    /\ \/ c = cur["processTCP"]
                       \/ \E i \in 1..Len(queue["requests"]) : queue["requests"][i] = c
             /\ queue["awiRequests"] = <<>>
  <2>1. TypeOK /\ Running /\ Balanced
    BY <1>1, StuckPlaces DEF IInv, CInv
  <2>2. \A t \in Threads \ {"acceptTCP", "acceptUDP"} :
          \/ pc[t] = "wait" /\ sem[Own(t)] = 0
          \/ pc[t] = "spin" /\ t = "processTCP"
    BY <1>1, <2>1, StuckPlaces
  <2>3. ASSUME NEW q \in Queues, q = "requests" => pc["processTCP"] # "spin"
        PROVE  queue[q] = <<>>
    <3>1. \A t \in Consumers(q) : pc[t] = "wait" /\ sem[q] = 0
      <4> SUFFICES ASSUME NEW t \in Consumers(q) PROVE pc[t] = "wait" /\ sem[q] = 0
        OBVIOUS
      <4>1. t \in Threads \ {"acceptTCP", "acceptUDP"} /\ q = Own(t)
        BY TesAssumption DEF Consumers, Threads, Own, Queues, ConnQueues
      <4>2. t = "processTCP" => q = "requests"
        BY <4>1 DEF Own
      <4> QED  BY <2>2, <2>3, <4>1, <4>2
    <3>2. Consumers(q) # {}
      BY TesAssumption DEF Consumers, Queues, ConnQueues
    <3>3. sem[q] = 0 /\ Popping(q) = 0
      <4>1. {t \in Consumers(q) : pc[t] = "pop"} = {}
        BY <3>1
      <4>2. Popping(q) = Cardinality({t \in Consumers(q) : pc[t] = "pop"})
        BY DEF Popping, Consumers
      <4> QED  BY <3>1, <3>2, <4>1, <4>2, FS_EmptySet
    <3>4. Posting(q) = 0
      <4>1. pc["processRQS"] # "post"
        BY <2>2 DEF Threads
      <4> QED  BY <1>1, <4>1 DEF Posting, Stuck
    <3>5. Len(queue[q]) = 0
      BY <2>1, <3>3, <3>4 DEF Balanced
    <3> QED  BY <2>1, <3>5 DEF TypeOK, QueuesOK
  <2>4. \A t \in TcpThreads : cur[t] # None => t = "processTCP" /\ pc[t] = "spin"
    BY <1>1, <2>2, TesAssumption DEF IInv, CurOK, TcpThreads, Threads
  <2>5. ASSUME NEW c \in Clients, client[c] = "open"
        PROVE  /\ pc["processTCP"] = "spin"
               /\ \/ c = cur["processTCP"]
                  \/ \E i \in 1..Len(queue["requests"]) : queue["requests"][i] = c
    <3>1. Held(c)
      BY <1>1, <2>5 DEF IInv, OnePlace
    <3>2. CASE \E q \in ConnQueues : \E i \in 1..Len(queue[q]) : queue[q][i] = c
      <4>1. PICK q \in ConnQueues : \E i \in 1..Len(queue[q]) : queue[q][i] = c
        BY <3>2
      <4>2. queue[q] # <<>> /\ q \in Queues
        BY <4>1 DEF Queues
      <4> QED  BY <2>3, <4>1, <4>2
    <3>3. CASE \E t \in TcpThreads : cur[t] = c
      BY <2>4, <2>5, <3>3, TesAssumption
    <3> QED  BY <3>1, <3>2, <3>3 DEF Held
  <2> QED  BY <2>3, <2>5 DEF Queues
<1>2. IInv /\ CInv /\ DInv => StuckOnlyWhenServed
  BY <1>1 DEF StuckOnlyWhenServed
<1> QED  BY <1>2, Inductive, CountsAlways, PlacesAlways, PTL
=============================================================================
