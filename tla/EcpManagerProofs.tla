-------------------------- MODULE EcpManagerProofs --------------------------
(* Proofs about EcpManager, for every value of its constants.              *)
EXTENDS EcpManager, TLAPS, FiniteSetTheorems

-----------------------------------------------------------------------------
(* The inductive invariant behind TypeOK, OnePlace and SemCountsQueue.      *)

\* The labels of each thread; a process ends with all its threads.
ThreadsOK ==
  /\ pc["acceptRequests"] \in {"bind", "receive", "client", "push", "post", "done", "terminated"}
  /\ \A t \in Workers : pc[t] \in {"wait", "pop", "push", "post", "terminated"}
  /\ pc["sendAnswer"] \in {"wait", "pop", "address", "send", "terminated"}
  /\ \A t \in Threads : pc[t] = "terminated" <=> ~Running

\* A thread holds a line or a request at these labels and at no others.
CurOK ==
  /\ read # None <=> pc["acceptRequests"] \in {"client", "push", "post"}
  /\ read # None => Len(arrived) > 0
  /\ \A t \in Workers : cur[t] # None <=> pc[t] = "push"
  /\ cur["sendAnswer"] # None <=> pc["sendAnswer"] \in {"address", "send"}

\* The queue a request is in says which line it has and whether it is answered.
FitsOK ==
  /\ \A t \in Locals : cur[t] # None => cur[t].answer # None
  /\ \A n \in 1..Len(queue["answers"]) : queue["answers"][n].answer # None
  /\ \A t \in Workers : \A n \in 1..Len(queue[Own(t)]) :
       queue[Own(t)][n].answer = None /\ Route(queue[Own(t)][n].message) = Own(t)

\* Only datagrams that were received are anywhere.
KnownOK ==
  /\ \A q \in Queues : \A n \in 1..Len(queue[q]) : queue[q][n].id \in 1..Len(arrived)
  /\ \A t \in Locals : cur[t] # None => cur[t].id \in 1..Len(arrived)
  /\ \A n \in 1..Len(sent) : sent[n].id \in 1..Len(arrived)

EInv ==
  /\ TypeOK /\ ThreadsOK /\ FitsOK /\ KnownOK /\ OnePlace /\ SemCountsQueue
  /\ Running => CurOK

-----------------------------------------------------------------------------
(* What sequences do.                                                      *)

LEMMA SeqFacts ==
  ASSUME NEW S, NEW s \in Seq(S)
  PROVE  Len(s) \in Nat /\ \A n \in 1..Len(s) : s[n] \in S
OBVIOUS

LEMMA AppendFacts ==
  ASSUME NEW S, NEW s \in Seq(S), NEW x \in S
  PROVE  /\ Append(s, x) \in Seq(S)
         /\ Len(Append(s, x)) = Len(s) + 1
         /\ Append(s, x)[Len(s) + 1] = x
         /\ \A n \in 1..Len(s) : Append(s, x)[n] = s[n]
         /\ \A n \in 1..Len(Append(s, x)) : n = Len(s) + 1 \/ n \in 1..Len(s)
         /\ \A n \in 1..Len(s) : n \in 1..Len(Append(s, x)) /\ n # Len(s) + 1
         /\ Len(s) + 1 \in 1..Len(Append(s, x))
OBVIOUS

LEMMA TailFacts ==
  ASSUME NEW S, NEW s \in Seq(S), s # <<>>
  PROVE  /\ Tail(s) \in Seq(S) /\ Head(s) \in S
         /\ Head(s) = s[1] /\ 1 \in 1..Len(s)
         /\ Len(Tail(s)) = Len(s) - 1
         /\ \A n \in 1..Len(Tail(s)) : n + 1 \in 1..Len(s) /\ Tail(s)[n] = s[n + 1]
         /\ \A n \in 1..Len(s) : n # 1 => n - 1 \in 1..Len(Tail(s)) /\ Tail(s)[n - 1] = s[n]
OBVIOUS

LEMMA OwnFacts ==
  /\ \A t \in Locals : Own(t) \in Queues
  /\ \A t \in Workers : t \in Locals /\ t \in Threads /\ Own(t) # "answers"
  /\ "sendAnswer" \in Locals /\ Own("sendAnswer") = "answers" /\ "answers" \in Queues
  /\ \A t \in Locals : t \in Workers \/ t = "sendAnswer"
  /\ \A t \in Workers : t # "sendAnswer" /\ t # "acceptRequests"
  /\ \A t, u \in Locals : Own(t) = Own(u) => t = u
BY DEF Locals, Threads, Workers, Queues, Own

-----------------------------------------------------------------------------
(* How a request moves: it is received, queued, taken, queued again with   *)
(* its answer, sent.                                                       *)

\* Nobody's place changes.
LEMMA SameKeepsOnePlace ==
  ASSUME OnePlace, Running, UNCHANGED <<queue, cur, sent, arrived>>,
         pc'["acceptRequests"] \in {"client", "push"} <=> pc["acceptRequests"] \in {"client", "push"}
  PROVE  OnePlace'
<1>1. \A i : /\ InHand(i)' <=> InHand(i)
             /\ InQueue(i)' <=> InQueue(i)
             /\ InThread(i)' <=> InThread(i)
             /\ IsSent(i)' <=> IsSent(i)
  BY DEF InHand, InQueue, InThread, IsSent
<1> QED  BY <1>1 DEF OnePlace, Apart

LEMMA ReceivedKeepsOnePlace ==
  ASSUME TypeOK, OnePlace, Running,
         pc["acceptRequests"] \notin {"client", "push"},
         NEW d \in [from : Peers, line : Lines, open : SUBSET Ids],
         Len(arrived) < MaxDatagrams, arrived' = Append(arrived, d),
         pc'["acceptRequests"] = "client",
         UNCHANGED <<queue, cur, sent>>,
         KnownOK
  PROVE  OnePlace'
<1>0. \A i : InQueue(i) \/ InThread(i) \/ IsSent(i) => i \in 1..Len(arrived)
  BY DEF KnownOK, InQueue, InThread, IsSent
<1>1. Len(arrived) \in Nat /\ Len(arrived') = Len(arrived) + 1
  BY AppendFacts DEF TypeOK
<1>2. \A i : /\ InHand(i)' <=> i = Len(arrived) + 1
             /\ InQueue(i)' <=> InQueue(i)
             /\ InThread(i)' <=> InThread(i)
             /\ IsSent(i)' <=> IsSent(i)
  BY <1>1 DEF InHand, InQueue, InThread, IsSent
<1>3. \A i \in 1..Len(arrived)' :
        InHand(i)' \/ InQueue(i)' \/ InThread(i)' \/ IsSent(i)'
  BY <1>1, <1>2 DEF OnePlace, InHand
<1>4. \A i \in Ids : ~(InHand(i)' /\ (InQueue(i)' \/ InThread(i)' \/ IsSent(i)'))
  BY <1>0, <1>1, <1>2
<1> QED  BY <1>2, <1>3, <1>4 DEF OnePlace, Apart

\* What Push does to the queues and to the datagrams in them.
LEMMA PushFacts ==
  ASSUME TypeOK, Apart, NEW q \in Queues, NEW r \in Request, Push(q, r),
         ~InQueue(r.id)
  PROVE  /\ \A p \in Queues : \A n \in 1..Len(queue[p]) :
              n \in 1..Len(queue'[p]) /\ queue'[p][n] = queue[p][n]
         /\ \A p \in Queues : \A n \in 1..Len(queue'[p]) :
              \/ p = q /\ n = Len(queue[q]) + 1 /\ queue'[p][n] = r
              \/ n \in 1..Len(queue[p]) /\ queue'[p][n] = queue[p][n]
         /\ Len(queue[q]) + 1 \in 1..Len(queue'[q])
         /\ queue'[q][Len(queue[q]) + 1] = r
         /\ \A p, o \in Queues : \A m \in 1..Len(queue'[p]), n \in 1..Len(queue'[o]) :
              queue'[p][m].id = queue'[o][n].id => p = o /\ m = n
<1>1. queue[q] \in Seq(Request) /\ queue'[q] = Append(queue[q], r)
  BY DEF TypeOK, Push
<1>2. \A p \in Queues : p # q => queue'[p] = queue[p]
  BY DEF TypeOK, Push
<1>3. /\ \A n \in 1..Len(queue[q]) :
           n \in 1..Len(queue'[q]) /\ queue'[q][n] = queue[q][n]
      /\ \A n \in 1..Len(queue'[q]) :
           \/ n = Len(queue[q]) + 1 /\ queue'[q][n] = r
           \/ n \in 1..Len(queue[q]) /\ queue'[q][n] = queue[q][n]
      /\ Len(queue[q]) + 1 \in 1..Len(queue'[q])
      /\ queue'[q][Len(queue[q]) + 1] = r
  BY <1>1, AppendFacts
<1>4. ASSUME NEW p \in Queues, NEW n \in 1..Len(queue[p])
      PROVE  n \in 1..Len(queue'[p]) /\ queue'[p][n] = queue[p][n]
  <2>1. CASE p = q
    BY <2>1, <1>3
  <2>2. CASE p # q
    BY <2>2, <1>2
  <2> QED  BY <2>1, <2>2
<1>5. ASSUME NEW p \in Queues, NEW n \in 1..Len(queue'[p])
      PROVE  \/ p = q /\ n = Len(queue[q]) + 1 /\ queue'[p][n] = r
             \/ n \in 1..Len(queue[p]) /\ queue'[p][n] = queue[p][n]
  <2>1. CASE p = q
    BY <2>1, <1>3
  <2>2. CASE p # q
    BY <2>2, <1>2
  <2> QED  BY <2>1, <2>2
<1>6. ASSUME NEW p \in Queues, NEW o \in Queues,
             NEW m \in 1..Len(queue'[p]), NEW n \in 1..Len(queue'[o]),
             queue'[p][m].id = queue'[o][n].id
      PROVE  p = o /\ m = n
  <2>1. \A k \in Queues : \A l \in 1..Len(queue[k]) : queue[k][l].id # r.id
    BY DEF InQueue
  <2>2. CASE p = q /\ m = Len(queue[q]) + 1 /\ queue'[p][m] = r
    <3>1. ~(n \in 1..Len(queue[o]) /\ queue'[o][n] = queue[o][n])
      BY <2>1, <2>2, <1>6
    <3> QED  BY <3>1, <2>2, <1>5
  <2>3. CASE m \in 1..Len(queue[p]) /\ queue'[p][m] = queue[p][m]
    <3>1. queue'[o][n] # r
      BY <2>1, <2>3, <1>6
    <3>2. n \in 1..Len(queue[o]) /\ queue'[o][n] = queue[o][n]
      BY <3>1, <1>5
    <3> QED  BY <3>2, <2>3, <1>6 DEF Apart
  <2> QED  BY <2>2, <2>3, <1>5
<1> QED  BY <1>3, <1>4, <1>5, <1>6

\* acceptRequests queues what it has in hand.
LEMMA QueuedKeepsOnePlace ==
  ASSUME TypeOK, OnePlace, Running,
         pc["acceptRequests"] = "push", Len(arrived) > 0,
         pc'["acceptRequests"] = "post",
         NEW q \in Queues, NEW r \in Request, r.id = Len(arrived), Push(q, r),
         UNCHANGED <<arrived, cur, sent>>
  PROVE  OnePlace'
<1>0. Len(arrived) \in Ids
  BY DEF TypeOK, Ids
<1> PICK L \in Ids : L = Len(arrived)
  BY <1>0
<1>1. InHand(L)
  BY DEF InHand
<1>2. ~InQueue(L) /\ ~InThread(L) /\ ~IsSent(L)
  BY <1>1 DEF OnePlace, Apart
<1>3. ~InQueue(r.id)
  BY <1>2
<1>4. Apart
  BY DEF OnePlace
<1>5. \A p \in Queues : \A n \in 1..Len(queue'[p]) :
        \/ p = q /\ n = Len(queue[q]) + 1 /\ queue'[p][n] = r
        \/ n \in 1..Len(queue[p]) /\ queue'[p][n] = queue[p][n]
  BY <1>3, <1>4, PushFacts
<1>6. \A p \in Queues : \A n \in 1..Len(queue[p]) :
        n \in 1..Len(queue'[p]) /\ queue'[p][n] = queue[p][n]
  BY <1>3, <1>4, PushFacts
<1>7. Len(queue[q]) + 1 \in 1..Len(queue'[q]) /\ queue'[q][Len(queue[q]) + 1] = r
  BY <1>3, <1>4, PushFacts
<1>8. \A i : /\ ~InHand(i)'
             /\ InQueue(i)' <=> (InQueue(i) \/ i = L)
             /\ InThread(i)' <=> InThread(i)
             /\ IsSent(i)' <=> IsSent(i)
  <2>1. \A i : InQueue(i)' => InQueue(i) \/ i = L
    BY <1>5 DEF InQueue
  <2>2. \A i : InQueue(i) => InQueue(i)'
    BY <1>6 DEF InQueue
  <2>3. InQueue(L)'
    BY <1>7 DEF InQueue
  <2> QED  BY <2>1, <2>2, <2>3 DEF InHand, InThread, IsSent
<1>9. \A p, o \in Queues : \A m \in 1..Len(queue'[p]), n \in 1..Len(queue'[o]) :
        queue'[p][m].id = queue'[o][n].id => p = o /\ m = n
  BY <1>3, <1>4, PushFacts
<1>10. \A i \in 1..Len(arrived) : InQueue(i)' \/ InThread(i)' \/ IsSent(i)'
  BY <1>8 DEF OnePlace, InHand
<1>11. \A i \in Ids : /\ ~(InQueue(i)' /\ InThread(i)')
                      /\ ~(IsSent(i)' /\ (InQueue(i)' \/ InThread(i)'))
  BY <1>2, <1>8 DEF OnePlace, Apart
<1> QED  BY <1>8, <1>9, <1>10, <1>11 DEF OnePlace, Apart

\* What taking the front does to the queues.
LEMMA TakeFacts ==
  ASSUME TypeOK, NEW q \in Queues, queue[q] # <<>>,
         queue' = [queue EXCEPT ![q] = Tail(@)]
  PROVE  /\ 1 \in 1..Len(queue[q]) /\ Head(queue[q]) = queue[q][1]
         /\ Head(queue[q]) \in Request
         /\ Len(queue'[q]) = Len(queue[q]) - 1
         /\ \A p \in Queues : p # q => queue'[p] = queue[p]
         /\ \A p \in Queues : \A n \in 1..Len(queue'[p]) :
              \E m \in 1..Len(queue[p]) : /\ queue'[p][n] = queue[p][m]
                                          /\ p = q => m = n + 1
                                          /\ p # q => m = n
         /\ \A p \in Queues : \A m \in 1..Len(queue[p]) :
              \/ p = q /\ m = 1
              \/ \E n \in 1..Len(queue'[p]) : queue'[p][n] = queue[p][m]
<1>1. /\ queue[q] \in Seq(Request) /\ queue'[q] = Tail(queue[q])
      /\ \A p \in Queues : p # q => queue'[p] = queue[p]
  BY DEF TypeOK
<1>2. /\ 1 \in 1..Len(queue[q])
      /\ Head(queue[q]) = queue[q][1] /\ Head(queue[q]) \in Request
  BY <1>1, TailFacts
<1>3. /\ \A n \in 1..Len(queue'[q]) :
           n + 1 \in 1..Len(queue[q]) /\ queue'[q][n] = queue[q][n + 1]
      /\ \A n \in 1..Len(queue[q]) :
           n # 1 => n - 1 \in 1..Len(queue'[q]) /\ queue'[q][n - 1] = queue[q][n]
  <2> DEFINE s == queue[q]
  <2>1. s \in Seq(Request) /\ s # <<>> /\ queue'[q] = Tail(s)
    BY <1>1
  <2> HIDE DEF s
  <2>2. /\ \A n \in 1..Len(Tail(s)) : n + 1 \in 1..Len(s) /\ Tail(s)[n] = s[n + 1]
        /\ \A n \in 1..Len(s) : n # 1 => n - 1 \in 1..Len(Tail(s)) /\ Tail(s)[n - 1] = s[n]
    BY <2>1, TailFacts
  <2> QED  BY <2>1, <2>2 DEF s
<1>5. \A p \in Queues : \A n \in 1..Len(queue'[p]) :
        \E m \in 1..Len(queue[p]) : /\ queue'[p][n] = queue[p][m]
                                    /\ p = q => m = n + 1
                                    /\ p # q => m = n
  <2> SUFFICES ASSUME NEW p \in Queues, NEW n \in 1..Len(queue'[p])
               PROVE  \E m \in 1..Len(queue[p]) : /\ queue'[p][n] = queue[p][m]
                                                  /\ p = q => m = n + 1
                                                  /\ p # q => m = n
    OBVIOUS
  <2>1. CASE p = q
    <3>1. n + 1 \in 1..Len(queue[q]) /\ queue'[q][n] = queue[q][n + 1]
      BY <2>1, <1>3
    <3> QED  BY <2>1, <3>1
  <2>2. CASE p # q
    BY <2>2, <1>1
  <2> QED  BY <2>1, <2>2
<1>4. \A p \in Queues : \A m \in 1..Len(queue[p]) :
        \/ p = q /\ m = 1
        \/ \E n \in 1..Len(queue'[p]) : queue'[p][n] = queue[p][m]
  <2> SUFFICES ASSUME NEW p \in Queues, NEW m \in 1..Len(queue[p]), ~(p = q /\ m = 1)
               PROVE  \E n \in 1..Len(queue'[p]) : queue'[p][n] = queue[p][m]
    OBVIOUS
  <2>1. CASE p = q
    <3>1. m - 1 \in 1..Len(queue'[q]) /\ queue'[q][m - 1] = queue[q][m]
      BY <2>1, <1>3
    <3> QED  BY <2>1, <3>1
  <2>2. CASE p # q
    BY <2>2, <1>1
  <2> QED  BY <2>1, <2>2
<1>6. Len(queue'[q]) = Len(queue[q]) - 1
  BY <1>1, TailFacts
<1> QED  BY <1>1, <1>2, <1>4, <1>5, <1>6

\* What processIQR takes is a request.
LEMMA IqrHead ==
  ASSUME TypeOK, ProcessIQRPop
  PROVE  Head(queue["iqrRequests"]) \in Request
<1>1. queue["iqrRequests"] # <<>> /\ "iqrRequests" \in Queues
  BY DEF ProcessIQRPop, Take, Queues
<1>2. queue["iqrRequests"] \in Seq(Request)
  BY <1>1 DEF TypeOK
<1> QED  BY <1>1, <1>2


\* A thread takes the front of its queue.
LEMMA TakenKeepsOnePlace ==
  ASSUME TypeOK, OnePlace, Running,
         NEW t \in Locals, NEW q \in Queues, cur[t] = None,
         queue[q] # <<>>, queue' = [queue EXCEPT ![q] = Tail(@)],
         NEW r \in Request, r.id = Head(queue[q]).id, cur' = [cur EXCEPT ![t] = r],
         pc'["acceptRequests"] = pc["acceptRequests"],
         UNCHANGED <<arrived, sent>>
  PROVE  OnePlace'
<1>1. \A p \in Queues : p # q => queue'[p] = queue[p]
  BY TakeFacts
<1>2. /\ 1 \in 1..Len(queue[q])
      /\ Head(queue[q]) = queue[q][1] /\ Head(queue[q]) \in Request
  BY TakeFacts
<1>3. r.id \in Ids
  BY DEF Request
<1> PICK h \in Ids : h = r.id
  BY <1>3
<1>h. h = queue[q][1].id
  BY <1>2
<1>4. r # None /\ cur'[t] = r /\ \A u \in Locals : u # t => cur'[u] = cur[u]
  BY EcpAssumption DEF TypeOK
<1>5. \A p \in Queues : \A n \in 1..Len(queue'[p]) :
        \E m \in 1..Len(queue[p]) : /\ queue'[p][n] = queue[p][m]
                                    /\ p = q => m = n + 1
                                    /\ p # q => m = n
  BY TakeFacts
<1>6. \A p \in Queues : \A m \in 1..Len(queue[p]) :
        \/ p = q /\ m = 1
        \/ \E n \in 1..Len(queue'[p]) : queue'[p][n] = queue[p][m]
  BY TakeFacts
<1>7. \A i : /\ InHand(i)' <=> InHand(i)
             /\ InQueue(i)' <=> (InQueue(i) /\ i # h)
             /\ InThread(i)' <=> (InThread(i) \/ i = h)
             /\ IsSent(i)' <=> IsSent(i)
  <2>1. \A i : InQueue(i)' => InQueue(i)
    BY <1>5 DEF InQueue
  <2>2. ~InQueue(h)'
    <3> SUFFICES ASSUME NEW p \in Queues, NEW n \in 1..Len(queue'[p]), queue'[p][n].id = h
                 PROVE  FALSE
      BY DEF InQueue
    <3>1. PICK m \in 1..Len(queue[p]) : /\ queue'[p][n] = queue[p][m]
                                        /\ p = q => m = n + 1
      BY <1>5
    <3>2. p = q /\ m = 1
      BY <3>1, <1>2, <1>h DEF OnePlace, Apart
    <3> QED  BY <3>1, <3>2
  <2>3. ASSUME NEW i, InQueue(i), i # h
        PROVE  InQueue(i)'
    <3>1. PICK p \in Queues : \E n \in 1..Len(queue[p]) : queue[p][n].id = i
      BY <2>3 DEF InQueue
    <3>2. PICK m \in 1..Len(queue[p]) : queue[p][m].id = i
      BY <3>1
    <3>3. ~(p = q /\ m = 1)
      BY <3>2, <2>3, <1>h
    <3>4. PICK n \in 1..Len(queue'[p]) : queue'[p][n] = queue[p][m]
      BY <3>3, <1>6
    <3> QED  BY <3>4, <3>2 DEF InQueue
  <2>4. \A i : InThread(i)' <=> InThread(i) \/ i = h
    BY <1>4 DEF InThread
  <2> QED  BY <2>1, <2>2, <2>3, <2>4 DEF InHand, IsSent
<1>8. \A p, o \in Queues : \A m \in 1..Len(queue'[p]), n \in 1..Len(queue'[o]) :
        queue'[p][m].id = queue'[o][n].id => p = o /\ m = n
  <2> SUFFICES ASSUME NEW p \in Queues, NEW o \in Queues,
                      NEW m \in 1..Len(queue'[p]), NEW n \in 1..Len(queue'[o]),
                      queue'[p][m].id = queue'[o][n].id
               PROVE  p = o /\ m = n
    OBVIOUS
  <2>1. PICK k \in 1..Len(queue[p]) : /\ queue'[p][m] = queue[p][k]
                                      /\ p = q => k = m + 1
                                      /\ p # q => k = m
    BY <1>5
  <2>2. PICK l \in 1..Len(queue[o]) : /\ queue'[o][n] = queue[o][l]
                                      /\ o = q => l = n + 1
                                      /\ o # q => l = n
    BY <1>5
  <2>3. p = o /\ k = l
    BY <2>1, <2>2 DEF OnePlace, Apart
  <2> QED  BY <2>1, <2>2, <2>3
<1>9. InQueue(h) /\ ~InThread(h) /\ ~IsSent(h) /\ ~InHand(h)
  <2>1. InQueue(h)
    BY <1>2, <1>h DEF InQueue
  <2> QED  BY <2>1, <1>3 DEF OnePlace, Apart
<1>10. \A u, w \in Locals :
         cur'[u] # None /\ cur'[w] # None /\ cur'[u].id = cur'[w].id => u = w
  <2>1. \A u \in Locals : cur[u] # None => cur[u].id # h
    BY <1>9 DEF InThread
  <2> QED  BY <2>1, <1>4 DEF OnePlace, Apart
<1>11. \A i \in 1..Len(arrived) : InHand(i)' \/ InQueue(i)' \/ InThread(i)' \/ IsSent(i)'
  BY <1>7 DEF OnePlace
<1>12. \A i \in Ids : /\ ~(InQueue(i)' /\ InThread(i)')
                      /\ ~(IsSent(i)' /\ (InQueue(i)' \/ InThread(i)'))
                      /\ ~(InHand(i)' /\ (InQueue(i)' \/ InThread(i)' \/ IsSent(i)'))
  BY <1>7, <1>9 DEF OnePlace, Apart
<1> QED  BY <1>8, <1>10, <1>11, <1>12 DEF OnePlace, Apart

\* A worker queues what it holds for sendAnswer.
LEMMA GivenKeepsOnePlace ==
  ASSUME TypeOK, OnePlace, Running,
         NEW t \in Locals, cur[t] # None, NEW q \in Queues,
         Push(q, cur[t]), cur' = [cur EXCEPT ![t] = None],
         pc'["acceptRequests"] = pc["acceptRequests"],
         UNCHANGED <<arrived, sent>>
  PROVE  OnePlace'
<1>1. cur[t] \in Request /\ cur[t].id \in Ids
  BY DEF TypeOK, Request
<1> PICK h \in Ids : h = cur[t].id
  BY <1>1
<1>4. cur'[t] = None /\ \A u \in Locals : u # t => cur'[u] = cur[u]
  BY DEF TypeOK
<1>5. InThread(h)
  BY DEF InThread
<1>6. ~InQueue(h) /\ ~IsSent(h) /\ ~InHand(h)
  BY <1>1, <1>5 DEF OnePlace, Apart
<1>p. ~InQueue(cur[t].id) /\ Apart
  BY <1>6 DEF OnePlace
<1>7. \A p \in Queues : \A n \in 1..Len(queue'[p]) :
        \/ p = q /\ n = Len(queue[q]) + 1 /\ queue'[p][n] = cur[t]
        \/ n \in 1..Len(queue[p]) /\ queue'[p][n] = queue[p][n]
  BY <1>1, <1>p, PushFacts
<1>8. \A p \in Queues : \A n \in 1..Len(queue[p]) :
        n \in 1..Len(queue'[p]) /\ queue'[p][n] = queue[p][n]
  BY <1>1, <1>p, PushFacts
<1>9. Len(queue[q]) + 1 \in 1..Len(queue'[q]) /\ queue'[q][Len(queue[q]) + 1] = cur[t]
  BY <1>1, <1>p, PushFacts
<1>10. \A i : /\ InHand(i)' <=> InHand(i)
              /\ InQueue(i)' <=> (InQueue(i) \/ i = h)
              /\ InThread(i)' <=> (InThread(i) /\ i # h)
              /\ IsSent(i)' <=> IsSent(i)
  <2>1. \A i : InQueue(i)' => InQueue(i) \/ i = h
    BY <1>7 DEF InQueue
  <2>2. \A i : InQueue(i) => InQueue(i)'
    BY <1>8 DEF InQueue
  <2>3. InQueue(h)'
    BY <1>9 DEF InQueue
  <2>4. \A u \in Locals : u # t /\ cur[u] # None => cur[u].id # h
    BY DEF OnePlace, Apart
  <2>5. \A i : InThread(i)' <=> (InThread(i) /\ i # h)
    BY <2>4, <1>4 DEF InThread
  <2> QED  BY <2>1, <2>2, <2>3, <2>5 DEF InHand, IsSent
<1>11. \A p, o \in Queues : \A m \in 1..Len(queue'[p]), n \in 1..Len(queue'[o]) :
         queue'[p][m].id = queue'[o][n].id => p = o /\ m = n
  BY <1>1, <1>p, PushFacts
<1>12. \A u, w \in Locals :
         cur'[u] # None /\ cur'[w] # None /\ cur'[u].id = cur'[w].id => u = w
  BY <1>4 DEF OnePlace, Apart
<1>13. \A i \in 1..Len(arrived) : InHand(i)' \/ InQueue(i)' \/ InThread(i)' \/ IsSent(i)'
  BY <1>10 DEF OnePlace
<1>14. \A i \in Ids : /\ ~(InQueue(i)' /\ InThread(i)')
                      /\ ~(IsSent(i)' /\ (InQueue(i)' \/ InThread(i)'))
                      /\ ~(InHand(i)' /\ (InQueue(i)' \/ InThread(i)' \/ IsSent(i)'))
  BY <1>6, <1>10 DEF OnePlace, Apart
<1> QED  BY <1>11, <1>12, <1>13, <1>14 DEF OnePlace, Apart

\* sendAnswer sends what it holds.
LEMMA SentKeepsOnePlace ==
  ASSUME TypeOK, OnePlace, Running,
         NEW t \in Locals, cur[t] # None,
         NEW s \in [id : Ids, to : Addresses, answer : Answer], s.id = cur[t].id,
         sent' = Append(sent, s), cur' = [cur EXCEPT ![t] = None],
         pc'["acceptRequests"] = pc["acceptRequests"],
         UNCHANGED <<arrived, queue>>
  PROVE  OnePlace'
<1>1. cur[t] \in Request /\ cur[t].id \in Ids
  BY DEF TypeOK, Request
<1> PICK h \in Ids : h = cur[t].id
  BY <1>1
<1>2. sent \in Seq([id : Ids, to : Addresses, answer : Answer])
  BY DEF TypeOK
<1>3. cur'[t] = None /\ \A u \in Locals : u # t => cur'[u] = cur[u]
  BY DEF TypeOK
<1>4. InThread(h)
  BY DEF InThread
<1>5. ~InQueue(h) /\ ~IsSent(h) /\ ~InHand(h)
  BY <1>1, <1>4 DEF OnePlace, Apart
<1>6. /\ \A n \in 1..Len(sent') :
          \/ n = Len(sent) + 1 /\ sent'[n].id = h
          \/ n \in 1..Len(sent) /\ sent'[n] = sent[n]
      /\ \A n \in 1..Len(sent) : n \in 1..Len(sent') /\ sent'[n] = sent[n]
      /\ Len(sent) + 1 \in 1..Len(sent') /\ sent'[Len(sent) + 1].id = h
  BY <1>2, AppendFacts
<1>7. \A i : /\ InHand(i)' <=> InHand(i)
             /\ InQueue(i)' <=> InQueue(i)
             /\ InThread(i)' <=> (InThread(i) /\ i # h)
             /\ IsSent(i)' <=> (IsSent(i) \/ i = h)
  <2>1. \A i : IsSent(i)' <=> (IsSent(i) \/ i = h)
    BY <1>6 DEF IsSent
  <2>2. \A u \in Locals : u # t /\ cur[u] # None => cur[u].id # h
    BY DEF OnePlace, Apart
  <2>3. \A i : InThread(i)' <=> (InThread(i) /\ i # h)
    BY <2>2, <1>3 DEF InThread
  <2> QED  BY <2>1, <2>3 DEF InHand, InQueue
<1>8. \A m, n \in 1..Len(sent') : sent'[m].id = sent'[n].id => m = n
  <2>1. \A n \in 1..Len(sent) : sent[n].id # h
    BY <1>5 DEF IsSent
  <2> QED  BY <2>1, <1>6 DEF OnePlace, Apart
<1>9. \A u, w \in Locals :
        cur'[u] # None /\ cur'[w] # None /\ cur'[u].id = cur'[w].id => u = w
  BY <1>3 DEF OnePlace, Apart
<1>10. \A i \in 1..Len(arrived) : InHand(i)' \/ InQueue(i)' \/ InThread(i)' \/ IsSent(i)'
  BY <1>7 DEF OnePlace
<1>11. \A i \in Ids : /\ ~(InQueue(i)' /\ InThread(i)')
                      /\ ~(IsSent(i)' /\ (InQueue(i)' \/ InThread(i)'))
                      /\ ~(InHand(i)' /\ (InQueue(i)' \/ InThread(i)' \/ IsSent(i)'))
  BY <1>5, <1>7 DEF OnePlace, Apart
<1> QED  BY <1>8, <1>9, <1>10, <1>11 DEF OnePlace, Apart

-----------------------------------------------------------------------------
(* Every step keeps the inductive invariant.                               *)

LEMMA GotoFacts ==
  ASSUME TypeOK, NEW t \in Threads, NEW label \in Labels, Goto(t, label)
  PROVE  /\ pc' \in [Threads -> Labels] /\ pc'[t] = label
         /\ \A u \in Threads : u # t => pc'[u] = pc[u]
BY DEF TypeOK, Goto

LEMMA RouteFacts ==
  /\ \A l : Route(l) \in Queues
  /\ \A l : Route(l) = "answers" \/ \E t \in Workers : Route(l) = Own(t)
BY DEF Route, Queues, Workers, Own

LEMMA InitEInv == Init => EInv
<1> SUFFICES ASSUME Init PROVE EInv
  OBVIOUS
<1>1. TypeOK
  BY EcpAssumption DEF Init, TypeOK, Addresses, Labels
<1>2. ThreadsOK /\ CurOK
  BY OwnFacts DEF Init, ThreadsOK, CurOK, Threads, Running
<1>3. \A q \in Queues : Len(queue[q]) = 0
  BY DEF Init
<1>4. FitsOK /\ KnownOK
  BY <1>3, OwnFacts DEF Init, FitsOK, KnownOK
<1>5. OnePlace
  BY <1>3 DEF Init, OnePlace, Apart, InHand, InQueue, InThread, IsSent
<1>6. SemCountsQueue
  BY <1>3 DEF Init, SemCountsQueue, Popping, Posting, At, Threads, Queues
<1> QED  BY <1>1, <1>2, <1>4, <1>5, <1>6 DEF EInv

\* The process ends: nothing is asked of the threads any more.
LEMMA TerminateStep ==
  ASSUME EInv, Terminate,
         \/ UNCHANGED arrived
         \/ \E d \in [from : Peers, line : Lines, open : SUBSET Ids] :
              Len(arrived) < MaxDatagrams /\ arrived' = Append(arrived, d)
  PROVE  EInv'
<1>1. /\ arrived' \in Seq([from : Peers, line : Lines, open : SUBSET Ids])
      /\ Len(arrived') <= MaxDatagrams
      /\ Len(arrived) \in Nat /\ Len(arrived') \in Nat /\ Len(arrived) <= Len(arrived')
  <2>1. /\ arrived \in Seq([from : Peers, line : Lines, open : SUBSET Ids])
        /\ Len(arrived) <= MaxDatagrams /\ Len(arrived) \in Nat
    BY DEF EInv, TypeOK
  <2>2. CASE UNCHANGED arrived
    BY <2>1, <2>2
  <2>3. CASE \E d \in [from : Peers, line : Lines, open : SUBSET Ids] :
               Len(arrived) < MaxDatagrams /\ arrived' = Append(arrived, d)
    <3>1. PICK d \in [from : Peers, line : Lines, open : SUBSET Ids] :
            Len(arrived) < MaxDatagrams /\ arrived' = Append(arrived, d)
      BY <2>3
    <3>2. arrived' \in Seq([from : Peers, line : Lines, open : SUBSET Ids])
          /\ Len(arrived') = Len(arrived) + 1
      BY <2>1, <3>1, AppendFacts
    <3> QED  BY <2>1, <3>1, <3>2, EcpAssumption
  <2> QED  BY <2>2, <2>3
<1>2. TypeOK'
  BY <1>1 DEF EInv, TypeOK, Terminate, Labels
<1>3. ~Running' /\ ThreadsOK'
  BY OwnFacts DEF Terminate, Running, ThreadsOK, Threads
<1>4. FitsOK'
  BY DEF EInv, FitsOK, Terminate
<1>5. KnownOK'
  BY <1>1 DEF EInv, KnownOK, Terminate
<1> QED  BY <1>2, <1>3, <1>4, <1>5 DEF EInv, OnePlace, SemCountsQueue

\* What the sender and the parser can add to what was received.
LEMMA DatagramFacts ==
  ASSUME TypeOK, NEW p \in Peers, NEW l \in Lines
  PROVE  /\ Datagram(p, l) \in [from : Peers, line : Lines, open : SUBSET Ids]
         /\ Received(l) \subseteq Lines
<1>1. Len(arrived) \in Nat /\ MaxDatagrams \in Nat /\ Len(arrived) <= MaxDatagrams
  BY EcpAssumption DEF TypeOK
<1>0. \A i \in 1..Len(arrived) : i \in Ids
  BY <1>1 DEF Ids
<1>2. Unanswered \subseteq Ids
  BY <1>0 DEF Unanswered
<1>3. Received(l) \subseteq Lines
  BY DEF Received
<1> QED  BY <1>2, <1>3 DEF Datagram

LEMMA ReceiveStep ==
  ASSUME EInv, NEW p \in Peers, NEW l \in Lines, AcceptReceive(p, l)
  PROVE  EInv'
<1> DEFINE d == Datagram(p, l)
<1>1. /\ TypeOK /\ OnePlace /\ KnownOK /\ ThreadsOK /\ FitsOK /\ SemCountsQueue
      /\ Running /\ CurOK
  BY DEF EInv, AcceptReceive, Running
<1>2. d \in [from : Peers, line : Lines, open : SUBSET Ids] /\ read' \in Lines
  BY <1>1, DatagramFacts DEF AcceptReceive
<1>3. arrived' = Append(arrived, d) /\ Len(arrived) < MaxDatagrams
  BY DEF AcceptReceive
<1>4. /\ arrived' \in Seq([from : Peers, line : Lines, open : SUBSET Ids])
      /\ Len(arrived') = Len(arrived) + 1 /\ Len(arrived) \in Nat
  BY <1>1, <1>2, <1>3, AppendFacts DEF TypeOK
<1>5. /\ pc' \in [Threads -> Labels] /\ pc'["acceptRequests"] = "client"
      /\ \A u \in Threads : u # "acceptRequests" => pc'[u] = pc[u]
  BY <1>1, GotoFacts DEF AcceptReceive, Threads, Labels
<1>6. TypeOK'
  BY <1>1, <1>2, <1>3, <1>4, <1>5, EcpAssumption DEF TypeOK, AcceptReceive, Addresses
<1>7. ThreadsOK' /\ Running'
  BY <1>1, <1>5, OwnFacts DEF ThreadsOK, Running, Threads
<1>8. CurOK'
  BY <1>1, <1>2, <1>4, <1>5, OwnFacts, EcpAssumption DEF CurOK, AcceptReceive, Threads
<1>9. FitsOK'
  BY <1>1 DEF FitsOK, AcceptReceive
<1>10. KnownOK'
  BY <1>1, <1>4 DEF KnownOK, AcceptReceive
<1>11. OnePlace'
  <2> HIDE DEF d
  <2>1. pc["acceptRequests"] \notin {"client", "push"} /\ UNCHANGED <<queue, cur, sent>>
    BY DEF AcceptReceive
  <2> QED  BY <2>1, <1>1, <1>2, <1>3, <1>5, ReceivedKeepsOnePlace
<1>12. SemCountsQueue'
  <2>1. read = None
    BY <1>1 DEF CurOK, AcceptReceive
  <2>2. \A q \in Queues : Posting(q)' = Posting(q) /\ Popping(q)' = Popping(q)
    BY <2>1, <1>5 DEF Posting, Popping, At, Threads, Queues
  <2> QED  BY <2>2, <1>1 DEF SemCountsQueue, AcceptReceive
<1> QED  BY <1>6, <1>7, <1>8, <1>9, <1>10, <1>11, <1>12 DEF EInv

\* The steps of acceptRequests that move no datagram and post nothing.
LEMMA AcceptQuietStep ==
  ASSUME EInv, AcceptBind \/ AcceptBindFails \/ AcceptClient
  PROVE  EInv'
<1>1. /\ TypeOK /\ OnePlace /\ KnownOK /\ ThreadsOK /\ FitsOK /\ SemCountsQueue
      /\ Running /\ CurOK
  BY DEF EInv, AcceptBind, AcceptBindFails, AcceptClient, Running
<1>2. /\ UNCHANGED <<serverAddr, arrived, read, queue, sem, cur, stats, unwritten, sent>>
      /\ client' \in Addresses
  BY <1>1 DEF AcceptBind, AcceptBindFails, AcceptClient, Sender, TypeOK
<1>3. /\ pc' \in [Threads -> Labels]
      /\ \/ pc["acceptRequests"] = "bind" /\ pc'["acceptRequests"] \in {"receive", "done"}
         \/ pc["acceptRequests"] = "client" /\ pc'["acceptRequests"] = "push"
      /\ \A u \in Threads : u # "acceptRequests" => pc'[u] = pc[u]
  BY <1>1, GotoFacts DEF AcceptBind, AcceptBindFails, AcceptClient, Threads, Labels
<1>4. TypeOK'
  BY <1>1, <1>2, <1>3 DEF TypeOK
<1>5. ThreadsOK' /\ Running'
  BY <1>1, <1>3, OwnFacts DEF ThreadsOK, Running, Threads
<1>6. CurOK'
  BY <1>1, <1>2, <1>3, OwnFacts DEF CurOK, Threads
<1>7. FitsOK' /\ KnownOK'
  BY <1>1, <1>2 DEF FitsOK, KnownOK
<1>8. OnePlace'
  BY <1>1, <1>2, <1>3, SameKeepsOnePlace
<1>9. SemCountsQueue'
  <2>1. \A q \in Queues : Posting(q)' = Posting(q) /\ Popping(q)' = Popping(q)
    BY <1>2, <1>3 DEF Posting, Popping, At, Threads, Queues
  <2> QED  BY <2>1, <1>1, <1>2 DEF SemCountsQueue
<1> QED  BY <1>4, <1>5, <1>6, <1>7, <1>8, <1>9 DEF EInv

\* acceptRequests queues its request.
LEMMA AcceptPushStep ==
  ASSUME EInv, AcceptPush
  PROVE  EInv'
<1> DEFINE q == Route(read)
           r == [id |-> Len(arrived), message |-> read, client |-> client,
                 answer |-> IF q = "answers" THEN ERR ELSE None]
<1>1. /\ TypeOK /\ OnePlace /\ KnownOK /\ ThreadsOK /\ FitsOK /\ SemCountsQueue
      /\ Running /\ CurOK /\ Apart
  BY DEF EInv, AcceptPush, Running, OnePlace
<1>2. read \in Lines /\ Len(arrived) > 0 /\ Len(arrived) \in Ids
  BY <1>1, EcpAssumption DEF CurOK, AcceptPush, TypeOK, Ids
<1>3. q \in Queues /\ r \in Request /\ r.id = Len(arrived) /\ Push(q, r)
  <2>1. read \in Line /\ client \in Peers \cup {None} /\ ERR \in Answer
    BY <1>1, <1>2, EcpAssumption DEF TypeOK, Addresses, ERR, Answer
  <2> QED  BY <2>1, <1>2, RouteFacts DEF AcceptPush, Request
<1>4. ~InQueue(r.id)
  BY <1>1, <1>2 DEF Apart, InHand, AcceptPush
<1>5. /\ pc' \in [Threads -> Labels] /\ pc'["acceptRequests"] = "post"
      /\ \A u \in Threads : u # "acceptRequests" => pc'[u] = pc[u]
  BY <1>1, GotoFacts DEF AcceptPush, Threads, Labels
<1>6. TypeOK'
  <2>1. queue' \in [Queues -> Seq(Request)]
    BY <1>1, <1>3, AppendFacts DEF TypeOK, Push
  <2> QED  BY <2>1, <1>1, <1>5 DEF TypeOK, AcceptPush
<1>7. ThreadsOK' /\ Running'
  BY <1>1, <1>5, OwnFacts DEF ThreadsOK, Running, Threads
<1>8. CurOK'
  BY <1>1, <1>5, OwnFacts DEF CurOK, AcceptPush, Threads
<1>9. /\ \A p \in Queues : \A n \in 1..Len(queue'[p]) :
           \/ p = q /\ queue'[p][n] = r
           \/ n \in 1..Len(queue[p]) /\ queue'[p][n] = queue[p][n]
      /\ Len(queue'[q]) = Len(queue[q]) + 1
      /\ \A p \in Queues : p # q => queue'[p] = queue[p]
  <2> HIDE DEF q, r
  <2>1. queue[q] \in Seq(Request) /\ queue'[q] = Append(queue[q], r)
    BY <1>1, <1>3 DEF TypeOK, Push
  <2>2. \A p \in Queues : p # q => queue'[p] = queue[p]
    BY <1>1, <1>3 DEF TypeOK, Push
  <2>3. Len(queue'[q]) = Len(queue[q]) + 1
    BY <2>1, <1>3, AppendFacts
  <2> QED  BY <2>2, <2>3, <1>1, <1>3, <1>4, PushFacts
<1>10. FitsOK'
  <2>1. q = "answers" => r.answer # None
    BY EcpAssumption DEF ERR, Answer
  <2>2. \A t \in Workers : Own(t) = q => r.answer = None /\ Route(r.message) = Own(t)
    BY OwnFacts
  <2>3. \A t \in Locals : cur'[t] = cur[t]
    BY DEF AcceptPush
  <2> HIDE DEF q, r
  <2> QED  BY <2>1, <2>2, <2>3, <1>1, <1>9, OwnFacts DEF FitsOK
<1>11. KnownOK'
  <2>1. r.id \in 1..Len(arrived)
    BY <1>2, <1>3 DEF Ids
  <2> HIDE DEF q, r
  <2> QED  BY <2>1, <1>1, <1>9 DEF KnownOK, AcceptPush
<1>12. OnePlace'
  <2>1. pc["acceptRequests"] = "push" /\ UNCHANGED <<arrived, cur, sent>>
    BY DEF AcceptPush
  <2> HIDE DEF q, r
  <2> QED  BY <2>1, <1>1, <1>2, <1>3, <1>5, QueuedKeepsOnePlace
<1>13. SemCountsQueue'
  <2>1. read # None /\ UNCHANGED <<read, sem>> /\ pc["acceptRequests"] = "push"
    BY <1>1 DEF CurOK, AcceptPush
  <2>2. \A p \in Queues : Popping(p)' = Popping(p)
    BY <1>5 DEF Popping, At, Threads, Queues
  <2>3. ASSUME NEW p \in Queues
        PROVE  Posting(p)' = Posting(p) + (IF p = q THEN 1 ELSE 0)
    BY <2>1, <1>5 DEF Posting, At, Threads
  <2>4. \A p \in Queues : Posting(p) \in Nat /\ Popping(p) \in Nat /\ sem[p] \in Nat
    BY <1>1 DEF Posting, Popping, At, Queues, TypeOK
  <2> HIDE DEF q, r
  <2>5. \A p \in Queues : Len(queue[p]) \in Nat
    BY <1>1 DEF TypeOK
  <2>6. ASSUME NEW p \in Queues
        PROVE  sem'[p] + Popping(p)' + Posting(p)' = Len(queue'[p])
    <3>1. sem[p] + Popping(p) + Posting(p) = Len(queue[p])
      BY <1>1 DEF SemCountsQueue
    <3>2. sem'[p] = sem[p] /\ Popping(p)' = Popping(p)
      BY <2>1, <2>2
    <3>3. Posting(p)' = Posting(p) + (IF p = q THEN 1 ELSE 0)
      BY <2>3
    <3>4. CASE p = q
      <4>1. Len(queue'[p]) = Len(queue[p]) + 1
        BY <1>9, <3>4
      <4>2. Posting(p)' = Posting(p) + 1
        BY <3>3, <3>4
      <4> QED  BY <4>1, <4>2, <3>1, <3>2, <2>4, <2>5
    <3>5. CASE p # q
      BY <3>1, <3>2, <3>3, <3>5, <2>4, <2>5, <1>9
    <3> QED  BY <3>4, <3>5
  <2> QED  BY <2>6 DEF SemCountsQueue
<1> QED  BY <1>6, <1>7, <1>8, <1>10, <1>11, <1>12, <1>13 DEF EInv

\* acceptRequests posts the semaphore of the queue it has added to.
LEMMA AcceptPostStep ==
  ASSUME EInv, AcceptPost
  PROVE  EInv'
<1> DEFINE q == Route(read)
<1>1. /\ TypeOK /\ OnePlace /\ KnownOK /\ ThreadsOK /\ FitsOK /\ SemCountsQueue
      /\ Running /\ CurOK
  BY DEF EInv, AcceptPost, Running
<1>2. q \in Queues
  BY RouteFacts
<1>3. /\ sem' = [sem EXCEPT ![q] = @ + 1] /\ read' = None /\ client' = None
      /\ UNCHANGED <<serverAddr, arrived, queue, cur, stats, unwritten, sent>>
  BY DEF AcceptPost, PostRouted, Post
<1>4. /\ pc' \in [Threads -> Labels] /\ pc'["acceptRequests"] = "receive"
      /\ \A u \in Threads : u # "acceptRequests" => pc'[u] = pc[u]
  BY <1>1, GotoFacts DEF AcceptPost, Threads, Labels
<1>5. TypeOK'
  BY <1>1, <1>2, <1>3, <1>4 DEF TypeOK, Addresses
<1>6. ThreadsOK' /\ Running'
  BY <1>1, <1>4, OwnFacts DEF ThreadsOK, Running, Threads
<1>7. CurOK'
  BY <1>1, <1>3, <1>4, OwnFacts DEF CurOK, Threads
<1>8. FitsOK' /\ KnownOK'
  BY <1>1, <1>3 DEF FitsOK, KnownOK
<1>9. OnePlace'
  <2>1. pc["acceptRequests"] = "post"
    BY DEF AcceptPost
  <2> QED  BY <2>1, <1>1, <1>3, <1>4, SameKeepsOnePlace
<1>10. SemCountsQueue'
  <2>1. read # None /\ pc["acceptRequests"] = "post"
    BY <1>1 DEF CurOK, AcceptPost
  <2>2. \A p \in Queues : Popping(p)' = Popping(p)
    BY <1>4 DEF Popping, At, Threads, Queues
  <2>3. ASSUME NEW p \in Queues
        PROVE  Posting(p) = Posting(p)' + (IF p = q THEN 1 ELSE 0) /\ Posting(p)' \in Nat
    BY <2>1, <1>3, <1>4 DEF Posting, At, Threads
  <2>4. \A p \in Queues : Popping(p) \in Nat /\ sem[p] \in Nat
    BY <1>1 DEF Popping, At, Queues, TypeOK
  <2> HIDE DEF q
  <2>5. \A p \in Queues : sem'[p] = sem[p] + (IF p = q THEN 1 ELSE 0)
    BY <1>1, <1>2, <1>3, <2>4 DEF TypeOK
  <2> QED  BY <2>2, <2>3, <2>4, <2>5, <1>1, <1>3 DEF SemCountsQueue
<1> QED  BY <1>5, <1>6, <1>7, <1>8, <1>9, <1>10 DEF EInv

\* A thread waits on the semaphore of its queue.
LEMMA WaitStep ==
  ASSUME EInv, NEW t \in Locals, Wait(t, Own(t))
  PROVE  EInv'
<1>1. /\ TypeOK /\ OnePlace /\ KnownOK /\ ThreadsOK /\ FitsOK /\ SemCountsQueue
      /\ pc[t] = "wait" /\ t \in Threads /\ t # "acceptRequests"
  BY DEF EInv, Wait, Locals
<1>2. Running /\ CurOK
  BY <1>1 DEF ThreadsOK, EInv
<1>3. /\ sem[Own(t)] > 0 /\ sem' = [sem EXCEPT ![Own(t)] = @ - 1]
      /\ UNCHANGED <<serverAddr, arrived, read, client, queue, cur, stats, unwritten, sent>>
  BY DEF Wait, SemWait
<1>4. /\ pc' \in [Threads -> Labels] /\ pc'[t] = "pop"
      /\ \A u \in Threads : u # t => pc'[u] = pc[u]
  BY <1>1, GotoFacts DEF Wait, Labels
<1>5. TypeOK'
  BY <1>1, <1>3, <1>4, OwnFacts DEF TypeOK
<1>6. ThreadsOK' /\ Running'
  BY <1>1, <1>2, <1>4, OwnFacts DEF ThreadsOK, Running, Threads
<1>7. CurOK'
  BY <1>1, <1>2, <1>3, <1>4, OwnFacts DEF CurOK, Threads
<1>8. FitsOK' /\ KnownOK'
  BY <1>1, <1>3 DEF FitsOK, KnownOK
<1>9. OnePlace'
  BY <1>1, <1>2, <1>3, <1>4, SameKeepsOnePlace DEF Threads
<1>10. SemCountsQueue'
  <2>1. ASSUME NEW p \in Queues
        PROVE  /\ Popping(p)' = Popping(p) + (IF p = Own(t) THEN 1 ELSE 0)
               /\ Posting(p)' = Posting(p)
    BY <1>1, <1>3, <1>4 DEF Popping, Posting, At, Own, Threads, Queues, Locals
  <2>2. \A p \in Queues : Popping(p) \in Nat /\ Posting(p) \in Nat /\ sem[p] \in Nat
    BY <1>1 DEF Popping, Posting, At, Queues, TypeOK
  <2>3. \A p \in Queues : sem'[p] = sem[p] - (IF p = Own(t) THEN 1 ELSE 0)
    <3>1. sem'[Own(t)] = sem[Own(t)] - 1
      BY <1>1, <1>3, OwnFacts DEF TypeOK
    <3>2. ASSUME NEW p \in Queues, p # Own(t)  PROVE sem'[p] = sem[p] - 0
      BY <1>1, <1>3, <2>2, <3>2 DEF TypeOK
    <3> QED  BY <3>1, <3>2
  <2> QED  BY <2>1, <2>2, <2>3, <1>1, <1>2, <1>3 DEF SemCountsQueue
<1> QED  BY <1>5, <1>6, <1>7, <1>8, <1>9, <1>10 DEF EInv

\* A thread takes the front of its queue and makes r of it.
LEMMA TakeStep ==
  ASSUME EInv, NEW t \in Locals, Take(t, Own(t)), NEW r \in Request,
         NEW label \in Labels, Goto(t, label),
         t \in Workers => label = "push", t = "sendAnswer" => label = "address",
         r.id = Head(queue[Own(t)]).id, r.answer # None,
         cur' = [cur EXCEPT ![t] = r],
         stats' \in Seq(Results), unwritten' \in Seq(Results),
         UNCHANGED <<serverAddr, arrived, read, client, sem, sent>>
  PROVE  EInv'
<1> DEFINE q == Own(t)
<1>1. /\ TypeOK /\ OnePlace /\ KnownOK /\ ThreadsOK /\ FitsOK /\ SemCountsQueue
      /\ pc[t] = "pop" /\ t \in Threads /\ t # "acceptRequests" /\ q \in Queues
  BY OwnFacts DEF EInv, Take, Locals
<1>2. Running /\ CurOK
  BY <1>1 DEF ThreadsOK, EInv
<1>3. queue[q] # <<>> /\ queue' = [queue EXCEPT ![q] = Tail(@)]
  BY DEF Take
<1>4. /\ pc' \in [Threads -> Labels] /\ pc'[t] = label
      /\ \A u \in Threads : u # t => pc'[u] = pc[u]
  BY <1>1, GotoFacts
<1>5. cur'[t] = r /\ \A u \in Locals : u # t => cur'[u] = cur[u]
  BY <1>1 DEF TypeOK
<1>6. /\ \A p \in Queues : \A n \in 1..Len(queue'[p]) :
           \E m \in 1..Len(queue[p]) : queue'[p][n] = queue[p][m]
      /\ 1 \in 1..Len(queue[q]) /\ Head(queue[q]) = queue[q][1]
      /\ Len(queue'[q]) = Len(queue[q]) - 1
      /\ \A p \in Queues : p # q => queue'[p] = queue[p]
  <2> HIDE DEF q
  <2>1. TypeOK /\ q \in Queues
    BY <1>1
  <2>2. \A p \in Queues : \A n \in 1..Len(queue'[p]) :
          \E m \in 1..Len(queue[p]) : /\ queue'[p][n] = queue[p][m]
                                      /\ p = q => m = n + 1
                                      /\ p # q => m = n
    BY <2>1, <1>3, TakeFacts
  <2>3. /\ 1 \in 1..Len(queue[q]) /\ Head(queue[q]) = queue[q][1]
        /\ Len(queue'[q]) = Len(queue[q]) - 1
        /\ \A p \in Queues : p # q => queue'[p] = queue[p]
    BY <2>1, <1>3, TakeFacts
  <2> QED  BY <2>2, <2>3
<1>7. r # None /\ cur[t] = None
  BY <1>1, <1>2, OwnFacts, EcpAssumption DEF CurOK
<1>8. TypeOK'
  <2>1. queue' \in [Queues -> Seq(Request)]
    <3>1. Tail(queue[q]) \in Seq(Request)
      BY <1>1, <1>3, TailFacts DEF TypeOK
    <3> QED  BY <3>1, <1>1, <1>3 DEF TypeOK
  <2>2. cur' \in [Locals -> Request \cup {None}]
    BY <1>1 DEF TypeOK
  <2> QED  BY <2>1, <2>2, <1>1, <1>4 DEF TypeOK
<1>9. ThreadsOK' /\ Running'
  BY <1>1, <1>2, <1>4, OwnFacts DEF ThreadsOK, Running, Threads
<1>10. CurOK'
  BY <1>1, <1>2, <1>4, <1>5, <1>7, OwnFacts DEF CurOK, Threads
<1>11. FitsOK'
  <2>1. \A u \in Locals : cur'[u] # None => cur'[u].answer # None
    BY <1>1, <1>5 DEF FitsOK
  <2> HIDE DEF q
  <2>2. \A n \in 1..Len(queue'["answers"]) : queue'["answers"][n].answer # None
    BY <1>1, <1>6, OwnFacts DEF FitsOK
  <2>3. ASSUME NEW u \in Workers, NEW n \in 1..Len(queue'[Own(u)])
        PROVE  queue'[Own(u)][n].answer = None /\ Route(queue'[Own(u)][n].message) = Own(u)
    BY <1>1, <1>6, OwnFacts DEF FitsOK
  <2> QED  BY <2>1, <2>2, <2>3 DEF FitsOK
<1>12. KnownOK'
  <2> HIDE DEF q
  <2>1. r.id \in 1..Len(arrived)
    BY <1>1, <1>6 DEF KnownOK, q
  <2>2. ASSUME NEW p \in Queues, NEW n \in 1..Len(queue'[p])
        PROVE  queue'[p][n].id \in 1..Len(arrived)
    BY <1>1, <1>6 DEF KnownOK
  <2> QED  BY <2>1, <2>2, <1>1, <1>5 DEF KnownOK
<1>13. OnePlace'
  <2>1. pc'["acceptRequests"] = pc["acceptRequests"]
    BY <1>1, <1>4 DEF Threads
  <2> HIDE DEF q
  <2> QED  BY <2>1, <1>1, <1>2, <1>3, <1>7, TakenKeepsOnePlace DEF q
<1>14. SemCountsQueue'
  <2>1. ASSUME NEW p \in Queues
        PROVE  /\ Popping(p) = Popping(p)' + (IF p = q THEN 1 ELSE 0)
               /\ Posting(p)' = Posting(p)
    BY <1>1, <1>4, OwnFacts DEF Popping, Posting, At, Own, Threads, Queues, Locals, Workers
  <2>2. \A p \in Queues : /\ Popping(p)' \in Nat /\ Posting(p) \in Nat /\ sem[p] \in Nat
                           /\ Len(queue[p]) \in Nat
    BY <1>1 DEF Popping, Posting, At, Queues, TypeOK
  <2> HIDE DEF q
  <2>3. ASSUME NEW p \in Queues
        PROVE  sem'[p] + Popping(p)' + Posting(p)' = Len(queue'[p])
    <3>1. sem[p] + Popping(p) + Posting(p) = Len(queue[p])
      BY <1>1, <1>2 DEF SemCountsQueue
    <3>2. CASE p = q
      <4>1. Len(queue'[p]) = Len(queue[p]) - 1
        BY <1>6, <3>2
      <4>2. Popping(p) = Popping(p)' + 1
        BY <2>1, <3>2
      <4>3. Posting(p)' = Posting(p) /\ sem'[p] = sem[p]
        BY <2>1
      <4>4. /\ Popping(p)' \in Nat /\ Posting(p) \in Nat /\ sem[p] \in Nat
            /\ Len(queue[p]) \in Nat
        BY <2>2
      <4>5. sem[p] + Popping(p)' + Posting(p) = Len(queue[p]) - 1
        <5>1. PICK x \in Nat : x = Popping(p)'
          BY <4>4
        <5>2. PICK y \in Nat : y = Posting(p)
          BY <4>4
        <5>3. sem[p] + (x + 1) + y = Len(queue[p])
          BY <5>1, <5>2, <4>2, <3>1
        <5>4. sem[p] + x + y = Len(queue[p]) - 1
          <6>1. PICK s \in Nat : s = sem[p]
            BY <4>4
          <6>2. PICK n \in Nat : n = Len(queue[p])
            BY <4>4
          <6>3. s + (x + 1) + y = n
            BY <5>3, <6>1, <6>2
          <6>4. s + x + y = n - 1
            BY <6>3
          <6> QED  BY <6>1, <6>2, <6>4
        <5> QED  BY <5>1, <5>2, <5>4
      <4> QED  BY <4>1, <4>3, <4>5
    <3>3. CASE p # q
      BY <3>1, <3>3, <2>1, <2>2, <1>6
    <3> QED  BY <3>2, <3>3
  <2> QED  BY <2>3 DEF SemCountsQueue
<1> QED  BY <1>8, <1>9, <1>10, <1>11, <1>12, <1>13, <1>14 DEF EInv

\* A worker queues its answer.
LEMMA WorkerPushStep ==
  ASSUME EInv, NEW t \in Workers, WorkerPush(t)
  PROVE  EInv'
<1>1. /\ TypeOK /\ OnePlace /\ KnownOK /\ ThreadsOK /\ FitsOK /\ SemCountsQueue
      /\ pc[t] = "push" /\ t \in Threads /\ t \in Locals /\ t # "acceptRequests"
      /\ t # "sendAnswer" /\ "answers" \in Queues
  BY OwnFacts DEF EInv, WorkerPush
<1>2. Running /\ CurOK /\ Apart
  BY <1>1 DEF ThreadsOK, EInv, OnePlace
<1>3. cur[t] # None /\ cur[t] \in Request /\ cur[t].answer # None
  BY <1>1, <1>2 DEF CurOK, TypeOK, FitsOK
<1>4. /\ pc' \in [Threads -> Labels] /\ pc'[t] = "post"
      /\ \A u \in Threads : u # t => pc'[u] = pc[u]
  BY <1>1, GotoFacts DEF WorkerPush, Labels
<1>5. /\ Push("answers", cur[t]) /\ cur' = [cur EXCEPT ![t] = None]
      /\ UNCHANGED <<serverAddr, arrived, read, client, sem, stats, unwritten, sent>>
  BY DEF WorkerPush
<1>6. cur'[t] = None /\ \A u \in Locals : u # t => cur'[u] = cur[u]
  BY <1>1, <1>5 DEF TypeOK
<1>7. ~InQueue(cur[t].id)
  <2>1. InThread(cur[t].id) /\ cur[t].id \in Ids
    BY <1>1, <1>3 DEF InThread, Request
  <2> QED  BY <2>1, <1>2 DEF Apart
<1>8. /\ \A p \in Queues : \A n \in 1..Len(queue'[p]) :
           \/ p = "answers" /\ queue'[p][n] = cur[t]
           \/ n \in 1..Len(queue[p]) /\ queue'[p][n] = queue[p][n]
      /\ Len(queue'["answers"]) = Len(queue["answers"]) + 1
      /\ \A p \in Queues : p # "answers" => queue'[p] = queue[p]
  <2>1. queue["answers"] \in Seq(Request) /\ queue'["answers"] = Append(queue["answers"], cur[t])
    BY <1>1, <1>5 DEF TypeOK, Push
  <2>2. \A p \in Queues : p # "answers" => queue'[p] = queue[p]
    BY <1>1, <1>5 DEF TypeOK, Push
  <2>3. Len(queue'["answers"]) = Len(queue["answers"]) + 1
    BY <2>1, <1>3, AppendFacts
  <2> QED  BY <2>2, <2>3, <1>1, <1>2, <1>3, <1>5, <1>7, PushFacts
<1>9. TypeOK'
  <2>1. queue' \in [Queues -> Seq(Request)]
    BY <1>1, <1>3, <1>5, AppendFacts DEF TypeOK, Push
  <2>2. cur' \in [Locals -> Request \cup {None}]
    BY <1>1, <1>5 DEF TypeOK
  <2> QED  BY <2>1, <2>2, <1>1, <1>4, <1>5 DEF TypeOK
<1>10. ThreadsOK' /\ Running'
  BY <1>1, <1>2, <1>4, OwnFacts DEF ThreadsOK, Running, Threads
<1>11. CurOK'
  BY <1>1, <1>2, <1>4, <1>5, <1>6, OwnFacts DEF CurOK, Threads
<1>12. FitsOK'
  <2>1. \A u \in Locals : cur'[u] # None => cur'[u].answer # None
    BY <1>1, <1>6 DEF FitsOK
  <2>2. \A n \in 1..Len(queue'["answers"]) : queue'["answers"][n].answer # None
    BY <1>1, <1>3, <1>8 DEF FitsOK
  <2>3. \A u \in Workers : queue'[Own(u)] = queue[Own(u)]
    BY <1>8, OwnFacts
  <2> QED  BY <2>1, <2>2, <2>3, <1>1 DEF FitsOK
<1>13. KnownOK'
  <2>1. \A p \in Queues : \A n \in 1..Len(queue'[p]) : queue'[p][n].id \in 1..Len(arrived)
    BY <1>1, <1>3, <1>8 DEF KnownOK
  <2> QED  BY <2>1, <1>1, <1>5, <1>6 DEF KnownOK
<1>14. OnePlace'
  <2>1. pc'["acceptRequests"] = pc["acceptRequests"]
    BY <1>1, <1>4 DEF Threads
  <2> QED  BY <2>1, <1>1, <1>2, <1>3, <1>5, GivenKeepsOnePlace
<1>15. SemCountsQueue'
  <2>1. ASSUME NEW p \in Queues
        PROVE  /\ Popping(p)' = Popping(p)
               /\ Posting(p)' = Posting(p) + (IF p = "answers" THEN 1 ELSE 0)
    BY <1>1, <1>4, <1>5 DEF Popping, Posting, At, Threads, Queues, Workers
  <2>2. \A p \in Queues : /\ Popping(p) \in Nat /\ Posting(p) \in Nat /\ sem[p] \in Nat
                           /\ Len(queue[p]) \in Nat
    BY <1>1 DEF Popping, Posting, At, Queues, TypeOK
  <2>3. ASSUME NEW p \in Queues
        PROVE  sem[p] + Popping(p)' + Posting(p)' = Len(queue'[p])
    <3>1. sem[p] + Popping(p) + Posting(p) = Len(queue[p])
      BY <1>1, <1>2 DEF SemCountsQueue
    <3>2. CASE p = "answers"
      <4>1. Len(queue'[p]) = Len(queue[p]) + 1
        BY <1>8, <3>2
      <4>2. Posting(p)' = Posting(p) + 1
        BY <2>1, <3>2
      <4> QED  BY <4>1, <4>2, <3>1, <2>1, <2>2
    <3>3. CASE p # "answers"
      BY <3>1, <3>3, <2>1, <2>2, <1>8
    <3> QED  BY <3>2, <3>3
  <2> QED  BY <2>3, <1>5 DEF SemCountsQueue
<1> QED  BY <1>9, <1>10, <1>11, <1>12, <1>13, <1>14, <1>15 DEF EInv

\* A worker posts the semaphore of sendAnswer.
LEMMA WorkerPostStep ==
  ASSUME EInv, NEW t \in Workers, WorkerPost(t)
  PROVE  EInv'
<1>1. /\ TypeOK /\ OnePlace /\ KnownOK /\ ThreadsOK /\ FitsOK /\ SemCountsQueue
      /\ pc[t] = "post" /\ t \in Threads /\ t \in Locals /\ t # "acceptRequests"
      /\ t # "sendAnswer" /\ "answers" \in Queues
  BY OwnFacts DEF EInv, WorkerPost
<1>2. Running /\ CurOK
  BY <1>1 DEF ThreadsOK, EInv
<1>3. /\ sem' = [sem EXCEPT !["answers"] = @ + 1]
      /\ UNCHANGED <<serverAddr, arrived, read, client, queue, cur, stats, unwritten, sent>>
  BY DEF WorkerPost, Post
<1>4. /\ pc' \in [Threads -> Labels] /\ pc'[t] = "wait"
      /\ \A u \in Threads : u # t => pc'[u] = pc[u]
  BY <1>1, GotoFacts DEF WorkerPost, Labels
<1>5. TypeOK'
  BY <1>1, <1>3, <1>4 DEF TypeOK
<1>6. ThreadsOK' /\ Running'
  BY <1>1, <1>2, <1>4, OwnFacts DEF ThreadsOK, Running, Threads
<1>7. CurOK'
  BY <1>1, <1>2, <1>3, <1>4, OwnFacts DEF CurOK, Threads
<1>8. FitsOK' /\ KnownOK'
  BY <1>1, <1>3 DEF FitsOK, KnownOK
<1>9. OnePlace'
  BY <1>1, <1>2, <1>3, <1>4, SameKeepsOnePlace DEF Threads
<1>10. SemCountsQueue'
  <2>1. ASSUME NEW p \in Queues
        PROVE  /\ Popping(p)' = Popping(p)
               /\ Posting(p) = Posting(p)' + (IF p = "answers" THEN 1 ELSE 0)
               /\ Posting(p)' \in Nat
    BY <1>1, <1>3, <1>4 DEF Popping, Posting, At, Threads, Queues, Workers
  <2>2. \A p \in Queues : Popping(p) \in Nat /\ sem[p] \in Nat
    BY <1>1 DEF Popping, At, Queues, TypeOK
  <2>3. \A p \in Queues : sem'[p] = sem[p] + (IF p = "answers" THEN 1 ELSE 0)
    BY <1>1, <1>3, <2>2 DEF TypeOK
  <2> QED  BY <2>1, <2>2, <2>3, <1>1, <1>2, <1>3 DEF SemCountsQueue
<1> QED  BY <1>5, <1>6, <1>7, <1>8, <1>9, <1>10 DEF EInv

\* sendAnswer puts the client of its request in the socket.
LEMMA AddressStep ==
  ASSUME EInv, SendAnswerAddress
  PROVE  EInv'
<1> DEFINE t == "sendAnswer"
<1>1. /\ TypeOK /\ OnePlace /\ KnownOK /\ ThreadsOK /\ FitsOK /\ SemCountsQueue
      /\ pc[t] = "address" /\ t \in Threads /\ t \in Locals
  BY OwnFacts DEF EInv, SendAnswerAddress, Threads
<1>2. Running /\ CurOK
  BY <1>1 DEF ThreadsOK, EInv
<1>3. /\ UNCHANGED <<arrived, read, client, queue, sem, cur, stats, unwritten, sent>>
      /\ serverAddr' = cur[t].client
  BY DEF SendAnswerAddress
<1>4. /\ pc' \in [Threads -> Labels] /\ pc'[t] = "send"
      /\ \A u \in Threads : u # t => pc'[u] = pc[u]
  BY <1>1, GotoFacts DEF SendAnswerAddress, Labels
<1>5. serverAddr' \in Addresses
  <2>1. cur[t] \in Request
    BY <1>1, <1>2 DEF CurOK, TypeOK
  <2> QED  BY <2>1, <1>3 DEF Request, Addresses
<1>6. TypeOK'
  BY <1>1, <1>3, <1>4, <1>5 DEF TypeOK
<1>7. ThreadsOK' /\ Running'
  BY <1>1, <1>2, <1>4, OwnFacts DEF ThreadsOK, Running, Threads
<1>8. CurOK'
  BY <1>1, <1>2, <1>3, <1>4, OwnFacts DEF CurOK, Threads
<1>9. FitsOK' /\ KnownOK'
  BY <1>1, <1>3 DEF FitsOK, KnownOK
<1>10. OnePlace'
  BY <1>1, <1>2, <1>3, <1>4, SameKeepsOnePlace DEF Threads
<1>11. SemCountsQueue'
  <2>1. \A q \in Queues : Posting(q)' = Posting(q) /\ Popping(q)' = Popping(q)
    BY <1>1, <1>3, <1>4 DEF Posting, Popping, At, Threads, Queues
  <2> QED  BY <2>1, <1>1, <1>2, <1>3 DEF SemCountsQueue
<1> QED  BY <1>6, <1>7, <1>8, <1>9, <1>10, <1>11 DEF EInv

\* sendAnswer sends its answer.
LEMMA SendStep ==
  ASSUME EInv, SendAnswerSend
  PROVE  EInv'
<1> DEFINE t == "sendAnswer"
           s == [id |-> cur[t].id, to |-> serverAddr, answer |-> cur[t].answer]
<1>1. /\ TypeOK /\ OnePlace /\ KnownOK /\ ThreadsOK /\ FitsOK /\ SemCountsQueue
      /\ pc[t] = "send" /\ t \in Threads /\ t \in Locals
  BY OwnFacts DEF EInv, SendAnswerSend, Threads
<1>2. Running /\ CurOK
  BY <1>1 DEF ThreadsOK, EInv
<1>3. /\ sent' = Append(sent, s) /\ cur' = [cur EXCEPT ![t] = None]
      /\ UNCHANGED <<serverAddr, arrived, read, client, queue, sem, stats, unwritten>>
  BY DEF SendAnswerSend
<1>4. /\ pc' \in [Threads -> Labels] /\ pc'[t] = "wait"
      /\ \A u \in Threads : u # t => pc'[u] = pc[u]
  BY <1>1, GotoFacts DEF SendAnswerSend, Labels
<1>5. /\ cur[t] # None /\ cur[t] \in Request
      /\ s \in [id : Ids, to : Addresses, answer : Answer] /\ s.id = cur[t].id
  <2>1. cur[t] # None /\ cur[t] \in Request /\ cur[t].answer # None
    BY <1>1, <1>2 DEF CurOK, TypeOK, FitsOK
  <2> QED  BY <2>1, <1>1 DEF Request, TypeOK
<1>6. cur'[t] = None /\ \A u \in Locals : u # t => cur'[u] = cur[u]
  BY <1>1, <1>3 DEF TypeOK
<1>7. /\ sent' \in Seq([id : Ids, to : Addresses, answer : Answer])
      /\ \A n \in 1..Len(sent') : sent'[n] = s \/ (n \in 1..Len(sent) /\ sent'[n] = sent[n])
  <2> HIDE DEF s
  <2>1. sent \in Seq([id : Ids, to : Addresses, answer : Answer])
    BY <1>1 DEF TypeOK
  <2> QED  BY <2>1, <1>3, <1>5, AppendFacts
<1>8. TypeOK'
  <2>1. cur' \in [Locals -> Request \cup {None}]
    BY <1>1, <1>3 DEF TypeOK
  <2> QED  BY <2>1, <1>1, <1>3, <1>4, <1>7 DEF TypeOK
<1>9. ThreadsOK' /\ Running'
  BY <1>1, <1>2, <1>4, OwnFacts DEF ThreadsOK, Running, Threads
<1>10. CurOK'
  BY <1>1, <1>2, <1>3, <1>4, <1>6, OwnFacts DEF CurOK, Threads
<1>11. FitsOK'
  BY <1>1, <1>3, <1>6 DEF FitsOK
<1>12. KnownOK'
  <2>1. s.id \in 1..Len(arrived)
    BY <1>1, <1>5 DEF KnownOK
  <2> HIDE DEF s
  <2> QED  BY <2>1, <1>1, <1>3, <1>6, <1>7 DEF KnownOK
<1>13. OnePlace'
  <2>1. pc'["acceptRequests"] = pc["acceptRequests"]
    BY <1>1, <1>4 DEF Threads
  <2> HIDE DEF s, t
  <2> QED  BY <2>1, <1>1, <1>2, <1>3, <1>5, SentKeepsOnePlace
<1>14. SemCountsQueue'
  <2>1. \A q \in Queues : Posting(q)' = Posting(q) /\ Popping(q)' = Popping(q)
    BY <1>1, <1>3, <1>4 DEF Posting, Popping, At, Threads, Queues
  <2> QED  BY <2>1, <1>1, <1>2, <1>3 DEF SemCountsQueue
<1> QED  BY <1>8, <1>9, <1>10, <1>11, <1>12, <1>13, <1>14 DEF EInv

\* The three workers and sendAnswer take from their queues.
LEMMA PopStep ==
  ASSUME EInv, ProcessTQRPop \/ ProcessTERPop \/ ProcessIQRPop \/ SendAnswerPop
  PROVE  EInv'
<1>1. TypeOK /\ FitsOK
  BY DEF EInv
<1>2. ASSUME NEW t \in Workers, NEW a \in Answer, Take(t, Own(t)), Answers(t, a),
             stats' \in Seq(Results), unwritten' \in Seq(Results)
      PROVE  EInv'
  <2> DEFINE h == Head(queue[Own(t)])
             r == [h EXCEPT !.answer = a]
  <2>1. h \in Request
    BY <1>1, <1>2, OwnFacts, TakeFacts DEF Take
  <2>2. r \in Request /\ r.id = h.id /\ r.answer # None
    BY <2>1, EcpAssumption DEF Request
  <2>3. /\ Goto(t, "push") /\ cur' = [cur EXCEPT ![t] = r]
        /\ UNCHANGED <<serverAddr, arrived, read, client, sem, sent>>
    BY <1>2 DEF Answers
  <2>4. t \in Locals /\ t # "sendAnswer" /\ "push" \in Labels
    BY OwnFacts DEF Labels
  <2> HIDE DEF r
  <2> QED  BY <2>2, <2>3, <2>4, <1>2, TakeStep
<1>3. CASE ProcessTQRPop
  <2>1. EOF \in Answer /\ [kind |-> "AWT"] \in Answer
    BY DEF EOF, Answer
  <2>2. "processTQR" \in Workers /\ Own("processTQR") = "tqrRequests"
    BY DEF Workers, Own
  <2>3. UNCHANGED <<stats, unwritten>>
    BY <1>3 DEF ProcessTQRPop
  <2> QED  BY <2>1, <2>2, <2>3, <1>1, <1>2, <1>3 DEF ProcessTQRPop, TypeOK
<1>4. CASE ProcessTERPop
  <2>1. \A l : TopicData(l) \in Answer
    BY EcpAssumption DEF TopicData, Answer, ERR, EOF
  <2>2. "processTER" \in Workers /\ Own("processTER") = "terRequests"
    BY DEF Workers, Own
  <2>3. UNCHANGED <<stats, unwritten>>
    BY <1>4 DEF ProcessTERPop
  <2> QED  BY <2>1, <2>2, <2>3, <1>1, <1>2, <1>4 DEF ProcessTERPop, TypeOK
<1>5. CASE ProcessIQRPop
  <2> DEFINE m == Head(queue["iqrRequests"]).message
  <2>1. "processIQR" \in Workers /\ Own("processIQR") = "iqrRequests"
    BY DEF Workers, Own
  <2>2. m \in Line
    <3>1. Head(queue["iqrRequests"]) \in Request
      BY <1>1, <1>5, IqrHead
    <3> QED  BY <3>1 DEF Request
  <2>3. CASE m.kind = "IQR"
    <3>1. m.result \in Results
      BY <2>2, <2>3 DEF Line
    <3>2. /\ AWI(m.result) \in Answer
          /\ stats \in Seq(Results) /\ Append(stats, m.result) \in Seq(Results)
          /\ unwritten \in Seq(Results) /\ Append(unwritten, m.result) \in Seq(Results)
      BY <1>1, <3>1 DEF TypeOK, Answer, AWI
    <3>3. Write(Head(queue["iqrRequests"])) /\ Answers("processIQR", AWI(m.result))
      BY <1>5, <2>3 DEF ProcessIQRPop
    <3>4. stats' \in Seq(Results) /\ unwritten' \in Seq(Results)
      BY <3>2, <3>3 DEF Write, Record
    <3> QED  BY <3>2, <3>3, <3>4, <2>1, <1>2, <1>5 DEF ProcessIQRPop
  <2>4. CASE m.kind # "IQR"
    <3>1. /\ stats' = stats /\ unwritten' = unwritten
          /\ Answers("processIQR", ERR) /\ ERR \in Answer
      BY <1>5, <2>4 DEF ProcessIQRPop, ERR, Answer
    <3> QED  BY <3>1, <2>1, <1>1, <1>2, <1>5 DEF ProcessIQRPop, TypeOK
  <2> QED  BY <2>3, <2>4
<1>6. CASE SendAnswerPop
  <2> DEFINE r == Head(queue["answers"])
  <2>1. /\ "sendAnswer" \in Locals /\ "sendAnswer" \notin Workers
        /\ Own("sendAnswer") = "answers" /\ "address" \in Labels
    BY OwnFacts DEF Labels, Workers
  <2>2. r \in Request /\ r = queue["answers"][1] /\ 1 \in 1..Len(queue["answers"])
    BY <1>1, <1>6, OwnFacts, TakeFacts DEF SendAnswerPop, Take
  <2>3. r.answer # None
    BY <2>2, <1>1 DEF FitsOK
  <2>4. /\ Take("sendAnswer", "answers") /\ Goto("sendAnswer", "address")
        /\ cur' = [cur EXCEPT !["sendAnswer"] = r]
        /\ UNCHANGED <<serverAddr, arrived, read, client, sem, sent>>
        /\ stats' \in Seq(Results) /\ unwritten' \in Seq(Results)
    BY <1>1, <1>6 DEF SendAnswerPop, TypeOK
  <2> QED  BY <2>1, <2>2, <2>3, <2>4, TakeStep
<1> QED  BY <1>3, <1>4, <1>5, <1>6

LEMMA StutterStep ==
  ASSUME EInv, UNCHANGED vars
  PROVE  EInv'
<1>1. UNCHANGED <<serverAddr, arrived, read, client, queue, sem, cur, pc, stats, unwritten, sent>>
  BY DEF vars
<1>2. TypeOK' /\ ThreadsOK' /\ FitsOK' /\ KnownOK' /\ (Running' => CurOK')
  BY <1>1 DEF EInv, TypeOK, ThreadsOK, FitsOK, KnownOK, CurOK, Running
<1>3. OnePlace'
  BY <1>1, SameKeepsOnePlace DEF EInv, OnePlace, Running
<1>4. SemCountsQueue'
  BY <1>1 DEF EInv, SemCountsQueue, Running, Popping, Posting, At, Queues
<1> QED  BY <1>2, <1>3, <1>4 DEF EInv

LEMMA EInvInductive == EInv /\ [Next]_vars => EInv'
<1> SUFFICES ASSUME EInv, [Next]_vars PROVE EInv'
  OBVIOUS
<1>1. CASE UNCHANGED vars
  BY <1>1, StutterStep
<1>2. CASE AcceptRequests
  <2>1. ASSUME NEW p \in Peers, NEW l \in Lines, AcceptReceive(p, l)
        PROVE  EInv'
    BY <2>1, ReceiveStep
  <2>2. ASSUME NEW p \in Peers, NEW l \in Lines, AcceptTooLong(p, l)
        PROVE  EInv'
    <3>1. Datagram(p, l) \in [from : Peers, line : Lines, open : SUBSET Ids]
      BY DatagramFacts DEF EInv
    <3> QED  BY <3>1, <2>2, TerminateStep DEF AcceptTooLong
  <2>3. CASE AcceptInUse
    BY <2>3, TerminateStep DEF AcceptInUse
  <2> QED  BY <2>1, <2>2, <2>3, <1>2, AcceptQuietStep, AcceptPushStep, AcceptPostStep
           DEF AcceptRequests
<1>3. ASSUME NEW t \in Workers, Worker(t)
      PROVE  EInv'
  <2>1. t \in Locals
    BY OwnFacts
  <2> QED  BY <2>1, <1>3, WaitStep, WorkerPushStep, WorkerPostStep DEF Worker, WorkerWait
<1>4. CASE ProcessTQR \/ ProcessTER
  BY <1>3, <1>4, PopStep DEF ProcessTQR, ProcessTER, Workers
<1>5. CASE ProcessIQR
  <2>1. CASE ProcessIQRThrows
    BY <2>1, TerminateStep DEF ProcessIQRThrows
  <2> QED  BY <2>1, <1>3, <1>5, PopStep DEF ProcessIQR, Workers
<1>6. CASE SendAnswer
  <2>1. CASE SendAnswerWait
    BY <2>1, WaitStep, OwnFacts DEF SendAnswerWait
  <2> QED  BY <2>1, <1>6, PopStep, AddressStep, SendStep DEF SendAnswer
<1> QED  BY <1>1, <1>2, <1>4, <1>5, <1>6 DEF Next

\* EInv holds in every state of the contact server.
THEOREM ContactInductive == Spec => []EInv
<1> QED  BY InitEInv, EInvInductive, PTL DEF Spec

\* Every variable of the contact server keeps its type.
THEOREM ContactTypeCorrect == Spec => []TypeOK
<1>1. EInv => TypeOK
  BY DEF EInv
<1> QED  BY <1>1, ContactInductive, PTL

\* A datagram is in exactly one place until it is answered: the threads lose
\* none and answer none twice.
THEOREM OnePlaceAlways == Spec => []OnePlace
<1>1. EInv => OnePlace
  BY DEF EInv
<1> QED  BY <1>1, ContactInductive, PTL

\* The semaphores and the threads between a semaphore and its queue account
\* for every item: front() is never called on an empty queue.
THEOREM SemCountsQueueAlways == Spec => []SemCountsQueue
<1>1. EInv => SemCountsQueue
  BY DEF EInv
<1> QED  BY <1>1, ContactInductive, PTL

-----------------------------------------------------------------------------
(* Every acknowledgement stands for one writing of stats.txt.              *)

\* The acknowledgements there are, whatever place they are in, stay the same.
LEMMA SameAcks ==
  ASSUME RecordedWhenAcknowledged, UNCHANGED <<stats, unwritten>>,
         \A i \in Ids, x \in Results : Given(i, AWI(x))' <=> Given(i, AWI(x))
  PROVE  RecordedWhenAcknowledged'
<1>1. Acked' = Acked
  BY DEF Acked
<1> QED  BY <1>1 DEF RecordedWhenAcknowledged

LEMMA NoPlaceChanges ==
  ASSUME RecordedWhenAcknowledged, UNCHANGED <<queue, cur, sent, stats, unwritten>>
  PROVE  RecordedWhenAcknowledged'
<1>1. \A i \in Ids, x \in Results : Given(i, AWI(x))' <=> Given(i, AWI(x))
  BY DEF Given, AWI
<1> QED  BY <1>1, SameAcks

LEMMA AckPush ==
  ASSUME EInv, RecordedWhenAcknowledged, AcceptPush
  PROVE  RecordedWhenAcknowledged'
<1> DEFINE q == Route(read)
           r == [id |-> Len(arrived), message |-> read, client |-> client,
                 answer |-> IF q = "answers" THEN ERR ELSE None]
<1>1. queue["answers"] \in Seq(Request) /\ "answers" \in Queues
  BY DEF EInv, TypeOK, Queues
<1>2. CASE q # "answers"
  <2>1. queue'["answers"] = queue["answers"]
    BY <1>1, <1>2 DEF AcceptPush, Push, EInv, TypeOK
  <2>2. \A i \in Ids, x \in Results : Given(i, AWI(x))' <=> Given(i, AWI(x))
    BY <2>1 DEF Given, AWI, AcceptPush
  <2> QED  BY <2>2, SameAcks DEF AcceptPush
<1>3. CASE q = "answers"
  <2>1. queue'["answers"] = Append(queue["answers"], r)
    BY <1>1, <1>3 DEF AcceptPush, Push, EInv, TypeOK
  <2>2. \A x : r.answer # AWI(x)
    BY <1>3 DEF ERR, AWI
  <2> HIDE DEF r
  <2>3. /\ \A n \in 1..Len(queue'["answers"]) :
             \/ queue'["answers"][n] = r
             \/ n \in 1..Len(queue["answers"]) /\ queue'["answers"][n] = queue["answers"][n]
        /\ \A n \in 1..Len(queue["answers"]) :
             n \in 1..Len(queue'["answers"]) /\ queue'["answers"][n] = queue["answers"][n]
    BY <1>1, <2>1
  <2>4. UNCHANGED <<cur, sent, stats, unwritten>>
    BY DEF AcceptPush
  <2>5. ASSUME NEW i \in Ids, NEW x \in Results
        PROVE  Given(i, AWI(x))' <=> Given(i, AWI(x))
    BY <2>2, <2>3, <2>4 DEF Given, AWI
  <2> QED  BY <2>4, <2>5, SameAcks
<1> QED  BY <1>2, <1>3

LEMMA AckWorkerPush ==
  ASSUME EInv, RecordedWhenAcknowledged, NEW t \in Workers, WorkerPush(t)
  PROVE  RecordedWhenAcknowledged'
<1>1. /\ TypeOK /\ pc[t] = "push" /\ t \in Locals /\ t \in Threads
      /\ queue["answers"] \in Seq(Request)
  BY OwnFacts DEF EInv, TypeOK, WorkerPush
<1>2. cur[t] # None /\ cur[t] \in Request
  BY <1>1 DEF EInv, CurOK, ThreadsOK, TypeOK
<1>3. /\ queue'["answers"] = Append(queue["answers"], cur[t])
      /\ cur'[t] = None /\ \A u \in Locals : u # t => cur'[u] = cur[u]
      /\ UNCHANGED <<sent, stats, unwritten>>
  BY <1>1, OwnFacts DEF WorkerPush, Push, TypeOK
<1>4. /\ \A n \in 1..Len(queue'["answers"]) :
           \/ queue'["answers"][n] = cur[t]
           \/ n \in 1..Len(queue["answers"]) /\ queue'["answers"][n] = queue["answers"][n]
      /\ \A n \in 1..Len(queue["answers"]) :
           n \in 1..Len(queue'["answers"]) /\ queue'["answers"][n] = queue["answers"][n]
      /\ \E n \in 1..Len(queue'["answers"]) : queue'["answers"][n] = cur[t]
  BY <1>1, <1>2, <1>3, AppendFacts
<1>5. ASSUME NEW i \in Ids, NEW x \in Results
      PROVE  Given(i, AWI(x))' <=> Given(i, AWI(x))
  <2> DEFINE a == AWI(x)
             Has(r) == r.id = i /\ r.answer = a
             Waits == \E n \in 1..Len(queue["answers"]) : Has(queue["answers"][n])
             Held  == \E u \in Locals : cur[u] # None /\ Has(cur[u])
             Gone  == \E n \in 1..Len(sent) : Has(sent[n])
  <2>1. Given(i, AWI(x)) <=> Waits \/ Held \/ Gone
    BY DEF Given
  <2>2. Given(i, AWI(x))' <=> Waits' \/ Held' \/ Gone'
    BY DEF Given, AWI
  <2>3. Waits' <=> Waits \/ Has(cur[t])
    BY <1>4 DEF AWI
  <2>4. Held <=> Held' \/ Has(cur[t])
    BY <1>1, <1>2, <1>3 DEF AWI
  <2>5. Gone' <=> Gone
    BY <1>3 DEF AWI
  <2> HIDE DEF Waits, Held, Gone, Has
  <2> QED  BY <2>1, <2>2, <2>3, <2>4, <2>5
<1> QED  BY <1>3, <1>5, SameAcks

LEMMA AckSendPop ==
  ASSUME EInv, RecordedWhenAcknowledged, SendAnswerPop
  PROVE  RecordedWhenAcknowledged'
<1> DEFINE t == "sendAnswer"
           r == Head(queue["answers"])
<1>1. /\ TypeOK /\ pc[t] = "pop" /\ t \in Locals /\ t \in Threads /\ "answers" \in Queues
      /\ queue["answers"] # <<>> /\ queue' = [queue EXCEPT !["answers"] = Tail(@)]
      /\ cur' = [cur EXCEPT ![t] = r] /\ UNCHANGED <<sent, stats, unwritten>>
  BY OwnFacts DEF EInv, SendAnswerPop, Take, Threads
<1>2. cur[t] = None
  BY <1>1 DEF EInv, CurOK, ThreadsOK, TypeOK
<1>3. /\ 1 \in 1..Len(queue["answers"]) /\ r = queue["answers"][1] /\ r \in Request
      /\ \A n \in 1..Len(queue'["answers"]) :
           \E m \in 1..Len(queue["answers"]) : queue'["answers"][n] = queue["answers"][m]
      /\ \A m \in 1..Len(queue["answers"]) :
           m = 1 \/ \E n \in 1..Len(queue'["answers"]) : queue'["answers"][n] = queue["answers"][m]
  <2> DEFINE s == queue["answers"]
  <2>1. s \in Seq(Request) /\ s # <<>> /\ queue'["answers"] = Tail(s)
    BY <1>1 DEF TypeOK
  <2> HIDE DEF s
  <2>2. /\ 1 \in 1..Len(s) /\ Head(s) = s[1] /\ Head(s) \in Request
        /\ \A n \in 1..Len(Tail(s)) : \E m \in 1..Len(s) : Tail(s)[n] = s[m]
        /\ \A m \in 1..Len(s) : m = 1 \/ \E n \in 1..Len(Tail(s)) : Tail(s)[n] = s[m]
    BY <2>1, TailFacts
  <2> QED  BY <2>1, <2>2 DEF s
<1>4. r # None /\ cur'[t] = r /\ \A u \in Locals : u # t => cur'[u] = cur[u]
  BY <1>1, <1>3, EcpAssumption DEF TypeOK
<1> HIDE DEF t, r
<1>5. ASSUME NEW i \in Ids, NEW x \in Results
      PROVE  Given(i, AWI(x))' <=> Given(i, AWI(x))
  <2>1. ASSUME Given(i, AWI(x))
        PROVE  Given(i, AWI(x))'
    <3>1. CASE \E n \in 1..Len(queue["answers"]) :
                 queue["answers"][n].id = i /\ queue["answers"][n].answer = AWI(x)
      <4>1. PICK m \in 1..Len(queue["answers"]) :
              queue["answers"][m].id = i /\ queue["answers"][m].answer = AWI(x)
        BY <3>1
      <4>2. CASE m = 1
        BY <4>1, <4>2, <1>1, <1>3, <1>4 DEF Given, AWI
      <4>3. CASE m # 1
        <5>1. PICK n \in 1..Len(queue'["answers"]) : queue'["answers"][n] = queue["answers"][m]
          BY <4>3, <1>3
        <5> QED  BY <5>1, <4>1 DEF Given, AWI
      <4> QED  BY <4>2, <4>3
    <3>2. CASE \E u \in Locals : cur[u] # None /\ cur[u].id = i /\ cur[u].answer = AWI(x)
      BY <3>2, <1>2, <1>4 DEF Given, AWI
    <3>3. CASE \E n \in 1..Len(sent) : sent[n].id = i /\ sent[n].answer = AWI(x)
      BY <3>3, <1>1 DEF Given, AWI
    <3> QED  BY <2>1, <3>1, <3>2, <3>3 DEF Given
  <2>2. ASSUME Given(i, AWI(x))'
        PROVE  Given(i, AWI(x))
    <3>1. CASE \E n \in 1..Len(queue'["answers"]) :
                 queue'["answers"][n].id = i /\ queue'["answers"][n].answer = AWI(x)
      <4>1. PICK n \in 1..Len(queue'["answers"]) :
              queue'["answers"][n].id = i /\ queue'["answers"][n].answer = AWI(x)
        BY <3>1
      <4>2. PICK m \in 1..Len(queue["answers"]) : queue'["answers"][n] = queue["answers"][m]
        BY <1>3
      <4> QED  BY <4>1, <4>2 DEF Given
    <3>2. CASE \E u \in Locals : cur'[u] # None /\ cur'[u].id = i /\ cur'[u].answer = AWI(x)
      <4>1. PICK u \in Locals : cur'[u] # None /\ cur'[u].id = i /\ cur'[u].answer = AWI(x)
        BY <3>2
      <4>2. CASE u = t
        BY <4>1, <4>2, <1>3, <1>4 DEF Given
      <4>3. CASE u # t
        BY <4>1, <4>3, <1>4 DEF Given
      <4> QED  BY <4>2, <4>3
    <3>3. CASE \E n \in 1..Len(sent) : sent[n].id = i /\ sent[n].answer = AWI(x)
      BY <3>3 DEF Given
    <3> QED  BY <2>2, <3>1, <3>2, <3>3, <1>1 DEF Given, AWI
  <2> QED  BY <2>1, <2>2
<1> QED  BY <1>1, <1>5, SameAcks

LEMMA AckSend ==
  ASSUME EInv, RecordedWhenAcknowledged, SendAnswerSend
  PROVE  RecordedWhenAcknowledged'
<1> DEFINE t == "sendAnswer"
           s == [id |-> cur[t].id, to |-> serverAddr, answer |-> cur[t].answer]
<1>1. /\ TypeOK /\ FitsOK /\ pc[t] = "send" /\ t \in Locals /\ t \in Threads
      /\ sent \in Seq([id : Ids, to : Addresses, answer : Answer])
      /\ sent' = Append(sent, s) /\ cur' = [cur EXCEPT ![t] = None]
      /\ UNCHANGED <<queue, stats, unwritten>>
  BY OwnFacts DEF EInv, SendAnswerSend, Threads, TypeOK
<1>2. cur[t] # None /\ cur[t] \in Request /\ cur[t].answer # None
  BY <1>1 DEF EInv, CurOK, ThreadsOK, TypeOK, FitsOK
<1>3. s \in [id : Ids, to : Addresses, answer : Answer]
  BY <1>1, <1>2 DEF Request, TypeOK
<1>4. cur'[t] = None /\ \A u \in Locals : u # t => cur'[u] = cur[u]
  BY <1>1 DEF TypeOK
<1>5. s.id = cur[t].id /\ s.answer = cur[t].answer
  OBVIOUS
<1> HIDE DEF t, s
<1>6. /\ \A n \in 1..Len(sent') : sent'[n] = s \/ (n \in 1..Len(sent) /\ sent'[n] = sent[n])
      /\ \A n \in 1..Len(sent) : n \in 1..Len(sent') /\ sent'[n] = sent[n]
      /\ \E n \in 1..Len(sent') : sent'[n] = s
  BY <1>1, <1>3, AppendFacts
<1>7. ASSUME NEW i \in Ids, NEW x \in Results
      PROVE  Given(i, AWI(x))' <=> Given(i, AWI(x))
  BY <1>1, <1>2, <1>4, <1>5, <1>6 DEF Given, AWI
<1> QED  BY <1>1, <1>7, SameAcks

\* What a worker takes has no answer yet; it is given a.
LEMMA WorkerTakes ==
  ASSUME EInv, NEW t \in Workers, NEW a \in Answer, Take(t, Own(t)), Answers(t, a)
  PROVE  /\ Head(queue[Own(t)]).id \in Ids
         /\ \A i \in Ids, x \in Results :
              Given(i, AWI(x))' <=>
                (Given(i, AWI(x)) \/ (i = Head(queue[Own(t)]).id /\ a = AWI(x)))
         /\ \A x \in Results : ~Given(Head(queue[Own(t)]).id, AWI(x))
<1> DEFINE q == Own(t)
           f == Head(queue[q])
           r == [f EXCEPT !.answer = a]
<1>1. /\ TypeOK /\ pc[t] = "pop" /\ t \in Locals /\ t \in Threads /\ q \in Queues
      /\ q # "answers" /\ "answers" \in Queues
      /\ queue[q] # <<>> /\ queue' = [queue EXCEPT ![q] = Tail(@)]
      /\ cur' = [cur EXCEPT ![t] = r] /\ UNCHANGED sent
  BY OwnFacts DEF EInv, Take, Answers
<1>2. cur[t] = None /\ Apart
  BY <1>1 DEF EInv, CurOK, ThreadsOK, OnePlace
<1>3. f \in Request /\ 1 \in 1..Len(queue[q]) /\ f = queue[q][1]
  <2> HIDE DEF q
  <2> QED  BY <1>1, TakeFacts
<1>4. r # None /\ r.id = f.id /\ r.answer = a /\ r \in Request /\ f.id \in Ids
  BY <1>3, EcpAssumption DEF Request
<1>5. cur'[t] = r /\ \A u \in Locals : u # t => cur'[u] = cur[u]
  BY <1>1 DEF TypeOK
<1>6. queue'["answers"] = queue["answers"]
  BY <1>1 DEF TypeOK
<1> PICK h \in Ids : h = f.id
  BY <1>4
<1> HIDE DEF r, f, q
<1>7. ASSUME NEW i \in Ids, NEW x \in Results
      PROVE  Given(i, AWI(x))' <=> (Given(i, AWI(x)) \/ (i = h /\ a = AWI(x)))
  BY <1>1, <1>2, <1>4, <1>5, <1>6 DEF Given, AWI
<1>8. ASSUME NEW x \in Results
      PROVE  ~Given(h, AWI(x))
  <2>1. InQueue(h)
    BY <1>1, <1>3 DEF InQueue
  <2>2. ~InThread(h) /\ ~IsSent(h)
    BY <2>1, <1>2 DEF Apart
  <2>3. \A n \in 1..Len(queue["answers"]) : queue["answers"][n].id # h
    BY <1>1, <1>2, <1>3 DEF Apart
  <2> QED  BY <2>2, <2>3 DEF Given, InThread, IsSent
<1> QED  BY <1>4, <1>7, <1>8 DEF f, q

\* A worker that answers anything else acknowledges nothing.
LEMMA OtherAnswer ==
  ASSUME EInv, RecordedWhenAcknowledged, UNCHANGED <<stats, unwritten>>,
         NEW t \in Workers, NEW a \in Answer, a.kind # "AWI",
         Take(t, Own(t)), Answers(t, a)
  PROVE  RecordedWhenAcknowledged'
<1>1. \A x : a # AWI(x)
  BY DEF AWI
<1>2. \A i \in Ids, x \in Results : Given(i, AWI(x))' <=> Given(i, AWI(x))
  BY <1>1, WorkerTakes
<1> QED  BY <1>2, SameAcks

\* The writing of a result and its acknowledgement.
LEMMA AckIQR ==
  ASSUME EInv, RecordedWhenAcknowledged, NEW z \in Results,
         \/ stats' = Append(stats, z) /\ unwritten' = unwritten
         \/ unwritten' = Append(unwritten, z) /\ stats' = stats,
         Take("processIQR", "iqrRequests"), Answers("processIQR", AWI(z))
  PROVE  RecordedWhenAcknowledged'
<1>1. /\ "processIQR" \in Workers /\ Own("processIQR") = "iqrRequests"
      /\ AWI(z) \in Answer /\ stats \in Seq(Results) /\ unwritten \in Seq(Results)
  BY DEF Workers, Own, AWI, Answer, EInv, TypeOK
<1>2. \A x, y : AWI(x) = AWI(y) => x = y
  BY DEF AWI
<1>3. PICK h \in Ids :
        /\ \A i \in Ids, x \in Results :
             Given(i, AWI(x))' <=> (Given(i, AWI(x)) \/ (i = h /\ AWI(z) = AWI(x)))
        /\ \A x \in Results : ~Given(h, AWI(x))
  BY <1>1, WorkerTakes
<1>4. Acked' = Acked \cup {h} /\ h \notin Acked
  BY <1>2, <1>3 DEF Acked
<1>5. IsFiniteSet(Acked)
  <2>1. IsFiniteSet(Ids)
    BY FS_Interval, EcpAssumption DEF Ids
  <2> QED  BY <2>1, FS_Subset DEF Acked
<1>6. Cardinality(Acked') = Cardinality(Acked) + 1
  BY <1>4, <1>5, FS_AddElement
<1>7. /\ Len(stats') + Len(unwritten') = Len(stats) + Len(unwritten) + 1
      /\ \A n \in 1..Len(stats) : n \in 1..Len(stats') /\ stats'[n] = stats[n]
      /\ \A n \in 1..Len(unwritten) :
           n \in 1..Len(unwritten') /\ unwritten'[n] = unwritten[n]
      /\ \/ \E n \in 1..Len(stats') : stats'[n] = z
         \/ \E n \in 1..Len(unwritten') : unwritten'[n] = z
  <2>0. Len(stats) \in Nat /\ Len(unwritten) \in Nat
    BY <1>1
  <2>1. CASE stats' = Append(stats, z) /\ unwritten' = unwritten
    <3>1. /\ Len(stats') = Len(stats) + 1
          /\ \A n \in 1..Len(stats) : n \in 1..Len(stats') /\ stats'[n] = stats[n]
          /\ Len(stats) + 1 \in 1..Len(stats') /\ stats'[Len(stats) + 1] = z
      BY <2>1, <1>1, AppendFacts
    <3> QED  BY <3>1, <2>0, <2>1
  <2>2. CASE unwritten' = Append(unwritten, z) /\ stats' = stats
    <3>1. /\ Len(unwritten') = Len(unwritten) + 1
          /\ \A n \in 1..Len(unwritten) :
               n \in 1..Len(unwritten') /\ unwritten'[n] = unwritten[n]
          /\ Len(unwritten) + 1 \in 1..Len(unwritten') /\ unwritten'[Len(unwritten) + 1] = z
      BY <2>2, <1>1, AppendFacts
    <3> QED  BY <3>1, <2>0, <2>2
  <2> QED  BY <2>1, <2>2
<1>8. ASSUME NEW i \in Ids, NEW x \in Results, Given(i, AWI(x))'
      PROVE  \/ \E n \in 1..Len(stats') : stats'[n] = x
             \/ \E n \in 1..Len(unwritten') : unwritten'[n] = x
  <2>1. CASE Given(i, AWI(x))
    <3>1. \/ \E n \in 1..Len(stats) : stats[n] = x
          \/ \E n \in 1..Len(unwritten) : unwritten[n] = x
      BY <2>1 DEF RecordedWhenAcknowledged
    <3> QED  BY <3>1, <1>7
  <2>2. CASE AWI(z) = AWI(x)
    BY <2>2, <1>2, <1>7
  <2> QED  BY <2>1, <2>2, <1>3, <1>8
<1>9. Len(stats') + Len(unwritten') = Cardinality(Acked')
  BY <1>6, <1>7 DEF RecordedWhenAcknowledged
<1>10. \A i \in Ids, x \in Results :
         Given(i, AWI(x))' => \/ \E n \in 1..Len(stats') : stats'[n] = x
                             \/ \E n \in 1..Len(unwritten') : unwritten'[n] = x
  BY <1>8
<1> QED  BY <1>9, <1>10 DEF RecordedWhenAcknowledged

LEMMA RecordedInductive ==
  EInv /\ RecordedWhenAcknowledged /\ [Next]_vars => RecordedWhenAcknowledged'
<1> SUFFICES ASSUME EInv, RecordedWhenAcknowledged, [Next]_vars
             PROVE  RecordedWhenAcknowledged'
  OBVIOUS
<1>1. CASE UNCHANGED <<queue, cur, sent, stats, unwritten>>
  BY <1>1, NoPlaceChanges
<1>2. CASE AcceptRequests
  <2>1. AcceptPush \/ UNCHANGED <<queue, cur, sent, stats, unwritten>>
    BY <1>2 DEF AcceptRequests, AcceptBind, AcceptInUse, AcceptBindFails, AcceptClient,
                AcceptPost, AcceptReceive, AcceptTooLong, Terminate
  <2> QED  BY <2>1, <1>1, AckPush
<1>3. ASSUME NEW t \in Workers, Worker(t)
      PROVE  RecordedWhenAcknowledged'
  <2>1. WorkerPush(t) \/ UNCHANGED <<queue, cur, sent, stats, unwritten>>
    BY <1>3 DEF Worker, WorkerWait, Wait, WorkerPost
  <2> QED  BY <2>1, <1>1, AckWorkerPush
<1>4. CASE ProcessTQRPop
  <2>1. EOF \in Answer /\ [kind |-> "AWT"] \in Answer /\ EOF.kind # "AWI"
    BY DEF EOF, Answer
  <2>2. "processTQR" \in Workers /\ Own("processTQR") = "tqrRequests"
    BY DEF Workers, Own
  <2> QED  BY <2>1, <2>2, <1>4, OtherAnswer DEF ProcessTQRPop
<1>5. CASE ProcessTERPop
  <2>1. \A l : TopicData(l) \in Answer /\ TopicData(l).kind # "AWI"
    BY EcpAssumption DEF TopicData, Answer, ERR, EOF
  <2>2. "processTER" \in Workers /\ Own("processTER") = "terRequests"
    BY DEF Workers, Own
  <2> QED  BY <2>1, <2>2, <1>5, OtherAnswer DEF ProcessTERPop
<1>6. CASE ProcessIQRPop
  <2> DEFINE m == Head(queue["iqrRequests"]).message
  <2>1. "processIQR" \in Workers /\ Own("processIQR") = "iqrRequests"
    BY DEF Workers, Own
  <2>2. CASE m.kind = "IQR"
    <3>1. Head(queue["iqrRequests"]) \in Request
      BY <1>6, IqrHead DEF EInv
    <3>2. m.result \in Results
      BY <3>1, <2>2 DEF Request, Line
    <3>3. /\ Answers("processIQR", AWI(m.result))
          /\ \/ stats' = Append(stats, m.result) /\ unwritten' = unwritten
             \/ unwritten' = Append(unwritten, m.result) /\ stats' = stats
      BY <1>6, <2>2 DEF ProcessIQRPop, Write, Record
    <3> QED  BY <3>2, <3>3, <1>6, AckIQR DEF ProcessIQRPop
  <2>3. CASE m.kind # "IQR"
    <3>1. /\ stats' = stats /\ unwritten' = unwritten
          /\ Answers("processIQR", ERR) /\ ERR \in Answer /\ ERR.kind # "AWI"
      BY <1>6, <2>3 DEF ProcessIQRPop, ERR, Answer
    <3> QED  BY <3>1, <2>1, <1>6, OtherAnswer DEF ProcessIQRPop
  <2> QED  BY <2>2, <2>3
<1>7. CASE ProcessTQR \/ ProcessTER
  BY <1>3, <1>4, <1>5, <1>7 DEF ProcessTQR, ProcessTER, Workers
<1>8. CASE ProcessIQR
  <2>1. CASE ProcessIQRThrows
    BY <2>1, <1>1 DEF ProcessIQRThrows, Terminate
  <2> QED  BY <2>1, <1>3, <1>6, <1>8 DEF ProcessIQR, Workers
<1>9. CASE SendAnswer
  <2>1. SendAnswerPop \/ SendAnswerSend \/ UNCHANGED <<queue, cur, sent, stats, unwritten>>
    BY <1>9 DEF SendAnswer, SendAnswerWait, Wait, SendAnswerAddress
  <2> QED  BY <2>1, <1>1, AckSendPop, AckSend
<1>10. CASE UNCHANGED vars
  BY <1>10, <1>1 DEF vars
<1> QED  BY <1>2, <1>7, <1>8, <1>9, <1>10 DEF Next

\* Every acknowledgement there is stands for one writing of its result to
\* stats.txt, done or failed, whatever the threads interleave and even when the
\* process ends.
THEOREM RecordedAlways == Spec => []RecordedWhenAcknowledged
<1>1. Init => RecordedWhenAcknowledged
  <2> SUFFICES ASSUME Init PROVE RecordedWhenAcknowledged
    OBVIOUS
  <2>1. \A i \in Ids, x \in Results : ~Given(i, AWI(x))
    BY DEF Init, Given, Queues
  <2>2. Acked = {} /\ Len(stats) = 0 /\ Len(unwritten) = 0
    BY <2>1 DEF Acked, Init
  <2> QED  BY <2>1, <2>2, FS_EmptySet DEF RecordedWhenAcknowledged
<1> QED  BY <1>1, RecordedInductive, ContactInductive, PTL DEF Spec

-----------------------------------------------------------------------------
(* As long as requests of different senders do not overlap, all that is    *)
(* unanswered came from the address the socket holds.                      *)

\* A datagram met only datagrams received before it.
OpenOK == \A j \in 1..Len(arrived) : arrived[j].open \subseteq 1..(j - 1)

\* Every request carries the address of its sender.
ClientsOK ==
  /\ \A q \in Queues : \A n \in 1..Len(queue[q]) :
       queue[q][n].client = arrived[queue[q][n].id].from
  /\ \A t \in Locals : cur[t] # None => cur[t].client = arrived[cur[t].id].from
  /\ pc["acceptRequests"] = "push" => client = arrived[Len(arrived)].from

OneSender == \A i \in Unanswered : arrived[i].from = serverAddr

NoneAstray == \A n \in 1..Len(sent) : ~Astray(sent[n])

OInv ==
  /\ OpenOK
  /\ ~Overlap => NoneAstray /\ (Running => ClientsOK /\ OneSender)

\* Nothing of what it speaks of changes.
LEMMA OInvSame ==
  ASSUME OInv, UNCHANGED <<arrived, queue, cur, sent, serverAddr>>,
         Running' => Running,
         pc'["acceptRequests"] = "push" => pc["acceptRequests"] = "push" /\ client' = client
  PROVE  OInv'
<1>1. OpenOK' /\ (Overlap' <=> Overlap) /\ (NoneAstray' <=> NoneAstray)
  BY DEF OInv, OpenOK, Overlap, NoneAstray, Astray
<1>2. ClientsOK => ClientsOK'
  BY DEF ClientsOK
<1>3. OneSender => OneSender'
  BY DEF OneSender, Unanswered
<1> QED  BY <1>1, <1>2, <1>3 DEF OInv

\* What was received stays, and with it every overlap.
LEMMA ArrivedGrows ==
  ASSUME EInv, OInv, NEW p \in Peers, NEW l \in Lines,
         arrived' = Append(arrived, Datagram(p, l))
  PROVE  /\ Len(arrived) \in Nat /\ Len(arrived') = Len(arrived) + 1
         /\ arrived'[Len(arrived) + 1] = Datagram(p, l)
         /\ \A i \in 1..Len(arrived) : i \in 1..Len(arrived') /\ arrived'[i] = arrived[i]
         /\ OpenOK'
         /\ Overlap => Overlap'
<1> DEFINE d == Datagram(p, l)
<1>1. /\ arrived \in Seq([from : Peers, line : Lines, open : SUBSET Ids])
      /\ d \in [from : Peers, line : Lines, open : SUBSET Ids]
  BY DatagramFacts DEF EInv, TypeOK
<1>2. d.open \subseteq 1..Len(arrived)
  BY DEF Datagram, Unanswered
<1> HIDE DEF d
<1>3. /\ Len(arrived) \in Nat /\ Len(arrived') = Len(arrived) + 1
      /\ arrived'[Len(arrived) + 1] = d
      /\ \A i \in 1..Len(arrived) : i \in 1..Len(arrived') /\ arrived'[i] = arrived[i]
      /\ \A i \in 1..Len(arrived') : i = Len(arrived) + 1 \/ i \in 1..Len(arrived)
  BY <1>1, AppendFacts DEF d
<1>4. OpenOK'
  <2> SUFFICES ASSUME NEW j \in 1..Len(arrived')
               PROVE  arrived'[j].open \subseteq 1..(j - 1)
    BY DEF OpenOK
  <2>1. CASE j = Len(arrived) + 1
    BY <2>1, <1>2, <1>3
  <2>2. CASE j \in 1..Len(arrived)
    BY <2>2, <1>3 DEF OInv, OpenOK
  <2> QED  BY <2>1, <2>2, <1>3
<1>5. ASSUME Overlap
      PROVE  Overlap'
  <2>1. PICK j \in 1..Len(arrived) :
          \E i \in arrived[j].open : arrived[i].from # arrived[j].from
    BY <1>5 DEF Overlap
  <2>2. PICK i \in arrived[j].open : arrived[i].from # arrived[j].from
    BY <2>1
  <2>3. i \in 1..Len(arrived)
    BY <1>3 DEF OInv, OpenOK
  <2>4. j \in 1..Len(arrived') /\ arrived'[j] = arrived[j] /\ arrived'[i] = arrived[i]
    BY <2>3, <1>3
  <2>5. i \in arrived'[j].open /\ arrived'[i].from # arrived'[j].from
    BY <2>2, <2>4
  <2>6. \E m \in arrived'[j].open : arrived'[m].from # arrived'[j].from
    BY <2>5
  <2> QED  BY <2>4, <2>6 DEF Overlap
<1> QED  BY <1>3, <1>4, <1>5 DEF d

LEMMA OInvReceive ==
  ASSUME EInv, OInv, NEW p \in Peers, NEW l \in Lines, AcceptReceive(p, l)
  PROVE  OInv'
<1>1. /\ Running /\ KnownOK /\ TypeOK /\ arrived' = Append(arrived, Datagram(p, l))
      /\ serverAddr' = p /\ UNCHANGED <<queue, cur, sent, client>>
      /\ pc'["acceptRequests"] = "client"
  BY DEF EInv, AcceptReceive, Running, Goto, TypeOK, Threads
<1>2. /\ Len(arrived) \in Nat /\ Len(arrived') = Len(arrived) + 1
      /\ arrived'[Len(arrived) + 1] = Datagram(p, l)
      /\ \A i \in 1..Len(arrived) : i \in 1..Len(arrived') /\ arrived'[i] = arrived[i]
      /\ OpenOK' /\ (Overlap => Overlap')
  BY <1>1, ArrivedGrows
<1> SUFFICES ASSUME ~Overlap' PROVE NoneAstray' /\ ClientsOK' /\ OneSender'
  BY <1>2 DEF OInv
<1>3. NoneAstray /\ ClientsOK /\ OneSender
  BY <1>1, <1>2 DEF OInv
<1>4. NoneAstray'
  <2>1. \A n \in 1..Len(sent) : arrived'[sent[n].id] = arrived[sent[n].id]
    BY <1>1, <1>2 DEF KnownOK
  <2> QED  BY <2>1, <1>1, <1>3 DEF NoneAstray, Astray
<1>5. ClientsOK'
  <2>1. \A q \in Queues : \A n \in 1..Len(queue[q]) :
          arrived'[queue[q][n].id] = arrived[queue[q][n].id]
    BY <1>1, <1>2 DEF KnownOK
  <2>2. \A t \in Locals : cur[t] # None => arrived'[cur[t].id] = arrived[cur[t].id]
    BY <1>1, <1>2 DEF KnownOK
  <2> QED  BY <2>1, <2>2, <1>1, <1>3 DEF ClientsOK
<1>6. OneSender'
  <2> SUFFICES ASSUME NEW i \in Unanswered' PROVE arrived'[i].from = p
    BY <1>1 DEF OneSender
  <2>1. i \in 1..Len(arrived') /\ \A j \in 1..Len(sent) : sent[j].id # i
    BY <1>1 DEF Unanswered
  <2>2. CASE i = Len(arrived) + 1
    BY <2>2, <1>2 DEF Datagram
  <2>3. CASE i # Len(arrived) + 1
    <3>1. i \in 1..Len(arrived) /\ i \in Unanswered
      BY <2>1, <2>3, <1>2 DEF Unanswered
    <3>2. Len(arrived) + 1 \in 1..Len(arrived')
      BY <1>2
    <3>3. i \in arrived'[Len(arrived) + 1].open /\ arrived'[Len(arrived) + 1].from = p
      BY <3>1, <1>2 DEF Datagram
    <3> QED  BY <3>2, <3>3 DEF Overlap
  <2> QED  BY <2>2, <2>3
<1> QED  BY <1>4, <1>5, <1>6

\* acceptRequests reads the address its datagram came from.
LEMMA OInvClient ==
  ASSUME EInv, OInv, AcceptClient
  PROVE  OInv'
<1>1. /\ Running /\ OnePlace /\ CurOK /\ TypeOK /\ pc["acceptRequests"] = "client"
      /\ client' = serverAddr /\ UNCHANGED <<arrived, queue, cur, sent, serverAddr>>
  BY DEF EInv, AcceptClient, Running, Sender
<1>2. /\ OpenOK' /\ (Overlap' <=> Overlap) /\ (NoneAstray' <=> NoneAstray)
      /\ (OneSender' <=> OneSender)
  BY <1>1 DEF OInv, OpenOK, Overlap, NoneAstray, Astray, OneSender, Unanswered
<1>3. ASSUME ClientsOK, OneSender
      PROVE  ClientsOK'
  <2>1. Len(arrived) \in Ids /\ Len(arrived) \in 1..Len(arrived)
    BY <1>1, EcpAssumption DEF CurOK, TypeOK, Ids
  <2>2. ~IsSent(Len(arrived))
    BY <2>1, <1>1 DEF OnePlace, Apart, InHand
  <2>3. Len(arrived) \in Unanswered
    BY <2>1, <2>2 DEF Unanswered, IsSent
  <2>4. client' = arrived[Len(arrived)].from
    BY <2>3, <1>1, <1>3 DEF OneSender
  <2> QED  BY <2>4, <1>1, <1>3 DEF ClientsOK
<1> QED  BY <1>1, <1>2, <1>3 DEF OInv

LEMMA OInvPush ==
  ASSUME EInv, OInv, AcceptPush
  PROVE  OInv'
<1> DEFINE q == Route(read)
           r == [id |-> Len(arrived), message |-> read, client |-> client,
                 answer |-> IF q = "answers" THEN ERR ELSE None]
<1>1. /\ Running /\ TypeOK /\ Apart /\ CurOK /\ q \in Queues
      /\ UNCHANGED <<arrived, cur, sent, serverAddr>>
      /\ pc["acceptRequests"] = "push" /\ pc'["acceptRequests"] = "post"
      /\ Push(q, r)
  BY RouteFacts DEF EInv, AcceptPush, Running, OnePlace, Goto, TypeOK, Threads
<1>2. /\ OpenOK' /\ (Overlap' <=> Overlap) /\ (NoneAstray' <=> NoneAstray)
      /\ (OneSender' <=> OneSender)
  BY <1>1 DEF OInv, OpenOK, Overlap, NoneAstray, Astray, OneSender, Unanswered
<1>3. r \in Request /\ ~InQueue(r.id)
  <2>1. read \in Line /\ client \in Peers \cup {None} /\ ERR \in Answer /\ Len(arrived) \in Ids
    BY <1>1, EcpAssumption DEF CurOK, TypeOK, Addresses, ERR, Answer, Ids
  <2> QED  BY <2>1, <1>1 DEF Request, Apart, InHand
<1>4. ASSUME ClientsOK
      PROVE  ClientsOK'
  <2>1. r.client = arrived[r.id].from
    BY <1>1, <1>4 DEF ClientsOK
  <2> HIDE DEF q, r
  <2>2. \A o \in Queues : \A n \in 1..Len(queue'[o]) :
          \/ queue'[o][n] = r
          \/ n \in 1..Len(queue[o]) /\ queue'[o][n] = queue[o][n]
    BY <1>1, <1>3, PushFacts
  <2> QED  BY <2>1, <2>2, <1>1, <1>4 DEF ClientsOK
<1> QED  BY <1>1, <1>2, <1>4 DEF OInv

\* A request keeps its client when it is taken and when it is answered.
LEMMA OInvTake ==
  ASSUME EInv, OInv, NEW t \in Locals, Take(t, Own(t)),
         NEW r \in Request, r.id = Head(queue[Own(t)]).id,
         r.client = Head(queue[Own(t)]).client,
         cur' = [cur EXCEPT ![t] = r],
         pc'["acceptRequests"] = pc["acceptRequests"],
         UNCHANGED <<arrived, sent, serverAddr, client>>
  PROVE  OInv'
<1> DEFINE q == Own(t)
<1>1. /\ TypeOK /\ q \in Queues /\ queue[q] # <<>>
      /\ queue' = [queue EXCEPT ![q] = Tail(@)] /\ (Running' <=> Running)
  BY OwnFacts DEF EInv, Take, Running
<1>2. /\ OpenOK' /\ (Overlap' <=> Overlap) /\ (NoneAstray' <=> NoneAstray)
      /\ (OneSender' <=> OneSender)
  BY <1>1 DEF OInv, OpenOK, Overlap, NoneAstray, Astray, OneSender, Unanswered
<1> HIDE DEF q
<1>3. /\ \A p \in Queues : \A n \in 1..Len(queue'[p]) :
           \E m \in 1..Len(queue[p]) : /\ queue'[p][n] = queue[p][m]
                                       /\ p = q => m = n + 1
                                       /\ p # q => m = n
      /\ 1 \in 1..Len(queue[q]) /\ Head(queue[q]) = queue[q][1]
  BY <1>1, TakeFacts
<1>4. cur'[t] = r /\ \A u \in Locals : u # t => cur'[u] = cur[u]
  BY <1>1 DEF TypeOK
<1>5. ASSUME ClientsOK
      PROVE  ClientsOK'
  <2>1. r.client = arrived[r.id].from
    BY <1>1, <1>3, <1>5 DEF ClientsOK, q
  <2>2. ASSUME NEW p \in Queues, NEW n \in 1..Len(queue'[p])
        PROVE  queue'[p][n].client = arrived[queue'[p][n].id].from
    BY <1>3, <1>5 DEF ClientsOK
  <2>3. ASSUME NEW u \in Locals, cur'[u] # None
        PROVE  cur'[u].client = arrived[cur'[u].id].from
    BY <2>1, <2>3, <1>4, <1>5 DEF ClientsOK
  <2> QED  BY <2>2, <2>3, <1>5 DEF ClientsOK
<1> QED  BY <1>1, <1>2, <1>5 DEF OInv

LEMMA OInvWorkerPush ==
  ASSUME EInv, OInv, NEW t \in Workers, WorkerPush(t)
  PROVE  OInv'
<1>1. /\ TypeOK /\ pc[t] = "push" /\ t \in Locals /\ t \in Threads /\ t # "acceptRequests"
      /\ "answers" \in Queues
      /\ Push("answers", cur[t]) /\ cur' = [cur EXCEPT ![t] = None]
      /\ UNCHANGED <<arrived, sent, serverAddr, client>>
      /\ pc'["acceptRequests"] = pc["acceptRequests"]
  BY OwnFacts DEF EInv, WorkerPush, Goto, TypeOK, Threads
<1>2. Running /\ Apart /\ cur[t] # None /\ cur[t] \in Request
  BY <1>1 DEF EInv, ThreadsOK, OnePlace, CurOK, TypeOK
<1>3. /\ OpenOK' /\ (Overlap' <=> Overlap) /\ (NoneAstray' <=> NoneAstray)
      /\ (OneSender' <=> OneSender) /\ Running'
  BY <1>1, <1>2 DEF OInv, OpenOK, Overlap, NoneAstray, Astray, OneSender, Unanswered, Running
<1>4. ~InQueue(cur[t].id)
  <2>1. InThread(cur[t].id) /\ cur[t].id \in Ids
    BY <1>1, <1>2 DEF InThread, Request
  <2> QED  BY <2>1, <1>2 DEF Apart
<1>5. \A o \in Queues : \A n \in 1..Len(queue'[o]) :
        \/ queue'[o][n] = cur[t]
        \/ n \in 1..Len(queue[o]) /\ queue'[o][n] = queue[o][n]
  BY <1>1, <1>2, <1>4, PushFacts
<1>6. cur'[t] = None /\ \A u \in Locals : u # t => cur'[u] = cur[u]
  BY <1>1 DEF TypeOK
<1>7. ClientsOK => ClientsOK'
  BY <1>1, <1>2, <1>5, <1>6 DEF ClientsOK
<1> QED  BY <1>2, <1>3, <1>7 DEF OInv

\* The client of the request sendAnswer holds is the one sender there is.
LEMMA HeldByTheSender ==
  ASSUME EInv, OneSender, ClientsOK, NEW t \in Locals, cur[t] # None, Running
  PROVE  cur[t].client = serverAddr /\ arrived[cur[t].id].from = serverAddr
<1>1. cur[t].id \in 1..Len(arrived) /\ cur[t].id \in Ids
  BY DEF EInv, KnownOK, TypeOK, Request
<1>2. ~IsSent(cur[t].id)
  <2>1. InThread(cur[t].id)
    BY DEF InThread
  <2> QED  BY <2>1, <1>1 DEF EInv, OnePlace, Apart
<1>3. cur[t].id \in Unanswered
  BY <1>1, <1>2 DEF Unanswered, IsSent
<1> QED  BY <1>3 DEF OneSender, ClientsOK

LEMMA OInvAddress ==
  ASSUME EInv, OInv, SendAnswerAddress
  PROVE  OInv'
<1>1. /\ TypeOK /\ pc["sendAnswer"] = "address" /\ "sendAnswer" \in Locals
      /\ serverAddr' = cur["sendAnswer"].client
      /\ UNCHANGED <<arrived, queue, cur, sent, client>>
      /\ pc'["acceptRequests"] = pc["acceptRequests"]
  BY OwnFacts DEF EInv, SendAnswerAddress, Goto, TypeOK, Threads
<1>2. Running /\ Running' /\ cur["sendAnswer"] # None
  BY <1>1 DEF EInv, ThreadsOK, CurOK, Running, Threads
<1>3. OpenOK' /\ (Overlap' <=> Overlap) /\ (NoneAstray' <=> NoneAstray) /\ (ClientsOK => ClientsOK')
  BY <1>1 DEF OInv, OpenOK, Overlap, NoneAstray, Astray, ClientsOK
<1>4. ASSUME ClientsOK, OneSender
      PROVE  OneSender'
  <2>1. serverAddr' = serverAddr
    BY <1>1, <1>2, <1>4, HeldByTheSender
  <2> QED  BY <2>1, <1>1, <1>4 DEF OneSender, Unanswered
<1> QED  BY <1>2, <1>3, <1>4 DEF OInv

LEMMA OInvSend ==
  ASSUME EInv, OInv, SendAnswerSend
  PROVE  OInv'
<1> DEFINE t == "sendAnswer"
           s == [id |-> cur[t].id, to |-> serverAddr, answer |-> cur[t].answer]
<1>1. /\ TypeOK /\ FitsOK /\ pc[t] = "send" /\ t \in Locals /\ t \in Threads
      /\ sent \in Seq([id : Ids, to : Addresses, answer : Answer])
      /\ sent' = Append(sent, s) /\ cur' = [cur EXCEPT ![t] = None]
      /\ UNCHANGED <<arrived, queue, client, serverAddr>>
      /\ pc'["acceptRequests"] = pc["acceptRequests"]
  BY OwnFacts DEF EInv, SendAnswerSend, Goto, Threads, TypeOK
<1>2. Running /\ Running' /\ cur[t] # None /\ cur[t] \in Request /\ cur[t].answer # None
  BY <1>1 DEF EInv, ThreadsOK, CurOK, Running, TypeOK, FitsOK
<1>3. OpenOK' /\ (Overlap' <=> Overlap)
  BY <1>1 DEF OInv, OpenOK, Overlap
<1> SUFFICES ASSUME ~Overlap PROVE NoneAstray' /\ ClientsOK' /\ OneSender'
  BY <1>3 DEF OInv
<1>4. NoneAstray /\ ClientsOK /\ OneSender
  BY <1>2 DEF OInv
<1>5. s \in [id : Ids, to : Addresses, answer : Answer]
  BY <1>1, <1>2 DEF Request, TypeOK
<1>6. s.to = arrived[s.id].from
  BY <1>1, <1>2, <1>4, HeldByTheSender
<1>7. cur'[t] = None /\ \A u \in Locals : u # t => cur'[u] = cur[u]
  BY <1>1 DEF TypeOK
<1> HIDE DEF s
<1>8. /\ \A n \in 1..Len(sent') : sent'[n] = s \/ (n \in 1..Len(sent) /\ sent'[n] = sent[n])
      /\ \A n \in 1..Len(sent) : n \in 1..Len(sent') /\ sent'[n] = sent[n]
  BY <1>1, <1>5, AppendFacts
<1>9. NoneAstray'
  BY <1>1, <1>4, <1>6, <1>8 DEF NoneAstray, Astray
<1>10. ClientsOK'
  BY <1>1, <1>4, <1>7 DEF ClientsOK
<1>11. OneSender'
  BY <1>1, <1>4, <1>8 DEF OneSender, Unanswered
<1> QED  BY <1>9, <1>10, <1>11

\* The process ends: only what was sent matters.
LEMMA OInvTerminate ==
  ASSUME EInv, OInv, Terminate,
         \/ UNCHANGED arrived
         \/ \E p \in Peers, l \in Lines : arrived' = Append(arrived, Datagram(p, l))
  PROVE  OInv'
<1>1. ~Running' /\ UNCHANGED sent /\ KnownOK
  BY DEF Terminate, Running, Threads, EInv
<1>2. CASE UNCHANGED arrived
  <2>1. OpenOK' /\ (Overlap' <=> Overlap) /\ (NoneAstray' <=> NoneAstray)
    BY <1>1, <1>2 DEF OInv, OpenOK, Overlap, NoneAstray, Astray
  <2> QED  BY <2>1, <1>1 DEF OInv
<1>3. ASSUME NEW p \in Peers, NEW l \in Lines, arrived' = Append(arrived, Datagram(p, l))
      PROVE  OInv'
  <2>1. /\ \A i \in 1..Len(arrived) : i \in 1..Len(arrived') /\ arrived'[i] = arrived[i]
        /\ OpenOK' /\ (Overlap => Overlap')
    BY <1>3, ArrivedGrows
  <2>2. \A n \in 1..Len(sent) : arrived'[sent[n].id] = arrived[sent[n].id]
    BY <1>1, <2>1 DEF KnownOK
  <2>3. NoneAstray => NoneAstray'
    BY <1>1, <2>2 DEF NoneAstray, Astray
  <2> QED  BY <1>1, <2>1, <2>3 DEF OInv
<1> QED  BY <1>2, <1>3

LEMMA OInvPop ==
  ASSUME EInv, OInv, ProcessTQRPop \/ ProcessTERPop \/ ProcessIQRPop \/ SendAnswerPop
  PROVE  OInv'
<1>1. TypeOK
  BY DEF EInv
<1>2. ASSUME NEW t \in Workers, NEW a \in Answer \cup {None}, Take(t, Own(t)), Answers(t, a)
      PROVE  OInv'
  <2> DEFINE h == Head(queue[Own(t)])
             r == [h EXCEPT !.answer = a]
  <2>1. t \in Locals /\ t \in Threads /\ t # "acceptRequests" /\ h \in Request
    BY <1>1, <1>2, OwnFacts, TakeFacts DEF Take
  <2>2. r \in Request /\ r.id = h.id /\ r.client = h.client
    BY <2>1 DEF Request
  <2>3. /\ cur' = [cur EXCEPT ![t] = r] /\ pc'["acceptRequests"] = pc["acceptRequests"]
        /\ UNCHANGED <<arrived, sent, serverAddr, client>>
    BY <1>1, <1>2, <2>1 DEF Answers, Goto, TypeOK, Threads
  <2> HIDE DEF r
  <2> QED  BY <2>1, <2>2, <2>3, <1>2, OInvTake
<1>3. CASE ProcessTQRPop
  <2>1. EOF \in Answer /\ [kind |-> "AWT"] \in Answer
    BY DEF EOF, Answer
  <2>2. "processTQR" \in Workers /\ Own("processTQR") = "tqrRequests"
    BY DEF Workers, Own
  <2> QED  BY <2>1, <2>2, <1>2, <1>3 DEF ProcessTQRPop
<1>4. CASE ProcessTERPop
  <2>1. \A l : TopicData(l) \in Answer
    BY EcpAssumption DEF TopicData, Answer, ERR, EOF
  <2>2. "processTER" \in Workers /\ Own("processTER") = "terRequests"
    BY DEF Workers, Own
  <2> QED  BY <2>1, <2>2, <1>2, <1>4 DEF ProcessTERPop
<1>5. CASE ProcessIQRPop
  <2> DEFINE m == Head(queue["iqrRequests"]).message
  <2>1. "processIQR" \in Workers /\ Own("processIQR") = "iqrRequests"
    BY DEF Workers, Own
  <2>2. CASE m.kind = "IQR"
    <3>1. Head(queue["iqrRequests"]) \in Request
      BY <1>1, <1>5, IqrHead
    <3>2. AWI(m.result) \in Answer
      BY <3>1, <2>2 DEF Request, Line, Answer, AWI
    <3> QED  BY <3>2, <2>1, <2>2, <1>2, <1>5 DEF ProcessIQRPop
  <2>3. CASE m.kind # "IQR"
    <3>1. ERR \in Answer
      BY DEF ERR, Answer
    <3> QED  BY <3>1, <2>1, <2>3, <1>2, <1>5 DEF ProcessIQRPop
  <2> QED  BY <2>2, <2>3
<1>6. CASE SendAnswerPop
  <2>1. /\ "sendAnswer" \in Locals /\ Own("sendAnswer") = "answers"
        /\ "sendAnswer" \in Threads
    BY OwnFacts DEF Threads
  <2>2. Head(queue["answers"]) \in Request
    BY <1>1, <1>6, OwnFacts, TakeFacts DEF SendAnswerPop, Take
  <2>3. /\ Take("sendAnswer", "answers")
        /\ cur' = [cur EXCEPT !["sendAnswer"] = Head(queue["answers"])]
        /\ pc'["acceptRequests"] = pc["acceptRequests"]
        /\ UNCHANGED <<arrived, sent, serverAddr, client>>
    BY <1>1, <1>6 DEF SendAnswerPop, Goto, TypeOK, Threads
  <2> QED  BY <2>1, <2>2, <2>3, OInvTake
<1> QED  BY <1>3, <1>4, <1>5, <1>6

\* The steps of the threads that neither move a request nor use the address.
LEMMA OInvQuiet ==
  ASSUME EInv, OInv,
         \/ AcceptBind \/ AcceptBindFails \/ AcceptPost \/ SendAnswerWait
         \/ \E t \in Workers : WorkerWait(t) \/ WorkerPost(t)
  PROVE  OInv'
<1>1. TypeOK
  BY DEF EInv
<1>2. UNCHANGED <<arrived, queue, cur, sent, serverAddr>>
  BY DEF AcceptBind, AcceptBindFails, AcceptPost, SendAnswerWait, WorkerWait, WorkerPost, Wait
<1>3. CASE AcceptBind \/ AcceptBindFails \/ AcceptPost
  <2>1. Running /\ pc'["acceptRequests"] # "push"
    BY <1>1, <1>3 DEF AcceptBind, AcceptBindFails, AcceptPost, Running, Goto, TypeOK, Threads
  <2> QED  BY <2>1, <1>2, OInvSame
<1>4. ASSUME NEW t \in Threads, t # "acceptRequests", NEW label \in Labels,
             Goto(t, label), UNCHANGED client
      PROVE  OInv'
  <2>1. pc'["acceptRequests"] = pc["acceptRequests"]
    BY <1>1, <1>4, GotoFacts DEF Threads
  <2> QED  BY <2>1, <1>2, <1>4, OInvSame DEF Running
<1>5. CASE SendAnswerWait
  BY <1>4, <1>5 DEF SendAnswerWait, Wait, Threads, Labels
<1>6. ASSUME NEW t \in Workers, WorkerWait(t) \/ WorkerPost(t)
      PROVE  OInv'
  <2>1. t \in Threads /\ t # "acceptRequests"
    BY OwnFacts
  <2>2. (Goto(t, "pop") \/ Goto(t, "wait")) /\ UNCHANGED client
    BY <1>6 DEF WorkerWait, WorkerPost, Wait
  <2> QED  BY <2>1, <2>2, <1>4 DEF Labels
<1> QED  BY <1>3, <1>5, <1>6

LEMMA OInvInductive == EInv /\ OInv /\ [Next]_vars => OInv'
<1> SUFFICES ASSUME EInv, OInv, [Next]_vars PROVE OInv'
  OBVIOUS
<1>1. CASE UNCHANGED vars
  BY <1>1, OInvSame DEF vars, Running
<1>2. CASE AcceptRequests
  <2>1. ASSUME NEW p \in Peers, NEW l \in Lines, AcceptReceive(p, l)
        PROVE  OInv'
    BY <2>1, OInvReceive
  <2>2. ASSUME NEW p \in Peers, NEW l \in Lines, AcceptTooLong(p, l)
        PROVE  OInv'
    BY <2>2, OInvTerminate DEF AcceptTooLong
  <2>3. CASE AcceptInUse
    BY <2>3, OInvTerminate DEF AcceptInUse
  <2> QED  BY <2>1, <2>2, <2>3, <1>2, OInvClient, OInvPush, OInvQuiet DEF AcceptRequests
<1>3. ASSUME NEW t \in Workers, Worker(t)
      PROVE  OInv'
  BY <1>3, OInvQuiet, OInvWorkerPush DEF Worker
<1>4. CASE ProcessTQR \/ ProcessTER
  BY <1>3, <1>4, OInvPop DEF ProcessTQR, ProcessTER, Workers
<1>5. CASE ProcessIQR
  <2>1. CASE ProcessIQRThrows
    BY <2>1, OInvTerminate DEF ProcessIQRThrows
  <2> QED  BY <2>1, <1>3, <1>5, OInvPop DEF ProcessIQR, Workers
<1>6. CASE SendAnswer
  BY <1>6, OInvQuiet, OInvPop, OInvAddress, OInvSend DEF SendAnswer
<1> QED  BY <1>1, <1>2, <1>4, <1>5, <1>6 DEF Next

\* One address for the whole server is enough exactly as long as it serves one
\* sender at a time: an answer goes astray only if the requests of two senders
\* were in the server together.
THEOREM OwnAnswerUnlessOverlapAlways == Spec => []OwnAnswerUnlessOverlap
<1>1. Init => OInv
  BY DEF Init, OInv, OpenOK, Overlap, NoneAstray, ClientsOK, OneSender, Unanswered, Threads
<1>2. OInv => OwnAnswerUnlessOverlap
  BY DEF OInv, NoneAstray, OwnAnswerUnlessOverlap
<1> QED  BY <1>1, <1>2, OInvInductive, ContactInductive, PTL DEF Spec

-----------------------------------------------------------------------------
(* Nobody sleeps over a datagram, and each is answered as itself.          *)

\* The contact server never has all its threads asleep, waiting to be woken or
\* for a datagram, while one it received is unanswered.
THEOREM StuckOnlyWhenAnsweredAlways == Spec => []StuckOnlyWhenAnswered
<1>1. EInv => StuckOnlyWhenAnswered
  <2> SUFFICES ASSUME EInv, Stuck, NEW i \in 1..Len(arrived)
               PROVE  IsSent(i)
    BY DEF StuckOnlyWhenAnswered
  <2>1. Running /\ CurOK /\ TypeOK
    BY DEF EInv, Stuck, Running
  <2>2. ~InHand(i)
    BY DEF InHand, Stuck
  <2>3. ~InThread(i)
    BY <2>1, OwnFacts DEF InThread, CurOK, Stuck
  <2>4. ASSUME NEW q \in Queues
        PROVE  Len(queue[q]) = 0
    <3>0. \E t \in Locals : Own(t) = q
      <4>1. /\ {"processTQR", "processTER", "processIQR", "sendAnswer"} \subseteq Locals
            /\ Own("processTQR") = "tqrRequests" /\ Own("processTER") = "terRequests"
            /\ Own("processIQR") = "iqrRequests" /\ Own("sendAnswer") = "answers"
        BY DEF Locals, Threads, Own
      <4> QED  BY <4>1 DEF Queues
    <3>1. sem[q] = 0
      BY <3>0 DEF Stuck
    <3>2. Popping(q) = 0 /\ Posting(q) = 0
      BY DEF Stuck, Popping, Posting, At, Locals, Threads, Queues
    <3> QED  BY <2>1, <3>1, <3>2 DEF EInv, SemCountsQueue
  <2>5. ~InQueue(i)
    BY <2>4 DEF InQueue
  <2> QED  BY <2>1, <2>2, <2>3, <2>5 DEF EInv, OnePlace
<1> QED  BY <1>1, ContactInductive, PTL

\* r has a line its datagram can have been read as and, when it is answered, an
\* answer to that line.
AsRead(r) ==
  /\ r.message \in ReadAs(r.id)
  /\ r.answer # None => Answering(r.answer, r.message)

AInv ==
  /\ read # None => read \in ReadAs(Len(arrived)) /\ read.kind # "tooLong"
  /\ \A q \in Queues : \A n \in 1..Len(queue[q]) : AsRead(queue[q][n])
  /\ \A t \in Locals : cur[t] # None => AsRead(cur[t])
  /\ AnswersItsDatagram

\* What datagrams can be read as does not change when more of them arrive.
LEMMA ReadStays ==
  ASSUME EInv, \/ UNCHANGED arrived
               \/ \E p \in Peers, l \in Lines : arrived' = Append(arrived, Datagram(p, l))
  PROVE  \A i \in 1..Len(arrived) : ReadAs(i)' = ReadAs(i)
<1>1. CASE UNCHANGED arrived
  BY <1>1 DEF ReadAs, Received
<1>2. ASSUME NEW p \in Peers, NEW l \in Lines, arrived' = Append(arrived, Datagram(p, l))
      PROVE  \A i \in 1..Len(arrived) : ReadAs(i)' = ReadAs(i)
  <2>1. /\ arrived \in Seq([from : Peers, line : Lines, open : SUBSET Ids])
        /\ Datagram(p, l) \in [from : Peers, line : Lines, open : SUBSET Ids]
    BY DatagramFacts DEF EInv, TypeOK
  <2>2. Len(arrived) \in Nat /\ \A i \in 1..Len(arrived) : arrived'[i] = arrived[i]
    BY <2>1, <1>2, AppendFacts
  <2> QED  BY <2>2 DEF ReadAs, Received
<1> QED  BY <1>1, <1>2

\* As long as nothing is handed on.
LEMMA AInvQuiet ==
  ASSUME EInv, AInv, UNCHANGED <<queue, cur, sent>>,
         \/ UNCHANGED arrived /\ read' \in {read, None}
         \/ /\ \E p \in Peers, l \in Lines : arrived' = Append(arrived, Datagram(p, l))
            /\ read' # None => read' \in ReadAs(Len(arrived))' /\ read'.kind # "tooLong"
  PROVE  AInv'
<1>1. \A i \in 1..Len(arrived) : ReadAs(i)' = ReadAs(i)
  BY ReadStays
<1>2. read' # None => read' \in ReadAs(Len(arrived))' /\ read'.kind # "tooLong"
  BY DEF AInv, ReadAs, Received
<1>3. KnownOK
  BY DEF EInv
<1>4. ASSUME NEW q \in Queues, NEW n \in 1..Len(queue[q])
      PROVE  AsRead(queue[q][n])'
  BY <1>1, <1>3 DEF KnownOK, AInv, AsRead, Answering
<1>5. ASSUME NEW t \in Locals, cur[t] # None
      PROVE  AsRead(cur[t])'
  BY <1>1, <1>3, <1>5 DEF KnownOK, AInv, AsRead, Answering
<1>6. AnswersItsDatagram'
  BY <1>1, <1>3 DEF KnownOK, AInv, AnswersItsDatagram, Answering
<1> QED  BY <1>2, <1>4, <1>5, <1>6 DEF AInv

LEMMA AInvReceive ==
  ASSUME EInv, AInv, NEW p \in Peers, NEW l \in Lines, AcceptReceive(p, l)
  PROVE  AInv'
<1>1. /\ arrived \in Seq([from : Peers, line : Lines, open : SUBSET Ids])
      /\ Datagram(p, l) \in [from : Peers, line : Lines, open : SUBSET Ids]
  BY DatagramFacts DEF EInv, TypeOK
<1>2. /\ arrived' = Append(arrived, Datagram(p, l)) /\ read' \in Received(l)
      /\ UNCHANGED <<queue, cur, sent>>
  BY DEF AcceptReceive
<1>3. /\ Len(arrived) \in Nat /\ Len(arrived') = Len(arrived) + 1
      /\ arrived'[Len(arrived')] = Datagram(p, l)
      /\ \A i \in 1..Len(arrived) : arrived'[i] = arrived[i]
  BY <1>1, <1>2, AppendFacts
<1>4. read' \in ReadAs(Len(arrived))'
  <2>1. Datagram(p, l).line = l
    BY DEF Datagram
  <2> QED  BY <2>1, <1>2, <1>3 DEF ReadAs, Received
<1>5. read'.kind # "tooLong"
  BY <1>2 DEF AcceptReceive, Received
<1> QED  BY <1>2, <1>4, <1>5, AInvQuiet

\* While no datagram arrives, what is handed on and sent decides AInv.
LEMMA AInvFrom ==
  ASSUME AInv, UNCHANGED <<arrived, read>>,
         \A q \in Queues : \A n \in 1..Len(queue'[q]) : AsRead(queue'[q][n]),
         \A t \in Locals : cur'[t] # None => AsRead(cur'[t]),
         \A n \in 1..Len(sent') : \E l \in ReadAs(sent'[n].id) : Answering(sent'[n].answer, l)
  PROVE  AInv'
<1>1. \A i : ReadAs(i)' = ReadAs(i)
  BY DEF ReadAs, Received
<1>2. (read # None => read \in ReadAs(Len(arrived)) /\ read.kind # "tooLong")'
  BY DEF AInv, ReadAs, Received
<1>3. ASSUME NEW q \in Queues, NEW n \in 1..Len(queue'[q])
      PROVE  AsRead(queue[q][n])'
  <2>1. AsRead(queue'[q][n])
    OBVIOUS
  <2> QED  BY <2>1, <1>1 DEF AsRead, Answering
<1>4. ASSUME NEW t \in Locals, cur'[t] # None
      PROVE  AsRead(cur[t])'
  <2>1. AsRead(cur'[t])
    BY <1>4
  <2> QED  BY <2>1, <1>1 DEF AsRead, Answering
<1>5. ASSUME NEW n \in 1..Len(sent')
      PROVE  (\E l \in ReadAs(sent[n].id) : Answering(sent[n].answer, l))'
  <2>1. PICK l \in ReadAs(sent'[n].id) : Answering(sent'[n].answer, l)
    OBVIOUS
  <2> QED  BY <2>1, <1>1 DEF Answering
<1> QED  BY <1>2, <1>3, <1>4, <1>5 DEF AInv, AnswersItsDatagram

LEMMA AInvPush ==
  ASSUME EInv, AInv, AcceptPush
  PROVE  AInv'
<1> DEFINE r == [id |-> Len(arrived), message |-> read, client |-> client,
                 answer |-> IF Route(read) = "answers" THEN ERR ELSE None]
<1>1. /\ TypeOK /\ Running /\ CurOK /\ Push(Route(read), r) /\ Route(read) \in Queues
      /\ UNCHANGED <<arrived, read, cur, sent>>
  BY RouteFacts DEF EInv, AcceptPush, Running
<1>2. read # None /\ read \in Line /\ read \in ReadAs(Len(arrived)) /\ read.kind # "tooLong"
  BY <1>1, EcpAssumption DEF AcceptPush, CurOK, AInv, TypeOK
<1>3. r \in Request
  BY <1>1, <1>2 DEF TypeOK, CurOK, Request, Addresses, Ids, Answer, ERR
<1>4. AsRead(r)
  <2>1. Route(read) = "answers" => read.kind \in {"other", "unterminated"} \/ read.kind = "tooLong"
    BY <1>2 DEF Route, Line
  <2>2. read.kind # "tooLong"
    BY <1>2
  <2> QED  BY <2>1, <2>2, <1>2 DEF AsRead, Answering, ERR
<1>5. \A q \in Queues : \A n \in 1..Len(queue'[q]) :
        queue'[q][n] = r \/ (n \in 1..Len(queue[q]) /\ queue'[q][n] = queue[q][n])
  <2> HIDE DEF r
  <2> SUFFICES ASSUME NEW q \in Queues, NEW n \in 1..Len(queue'[q])
               PROVE  queue'[q][n] = r \/ (n \in 1..Len(queue[q]) /\ queue'[q][n] = queue[q][n])
    OBVIOUS
  <2>1. CASE q = Route(read)
    <3>1. queue[q] \in Seq(Request) /\ queue'[q] = Append(queue[q], r)
      BY <1>1, <2>1 DEF TypeOK, Push
    <3> QED  BY <3>1, <1>3, AppendFacts
  <2>2. CASE q # Route(read)
    BY <2>2, <1>1 DEF TypeOK, Push
  <2> QED  BY <2>1, <2>2
<1> HIDE DEF r
<1>6. \A q \in Queues : \A n \in 1..Len(queue'[q]) : AsRead(queue'[q][n])
  BY <1>4, <1>5 DEF AInv
<1>7. \A u \in Locals : cur'[u] # None => AsRead(cur'[u])
  BY <1>1 DEF AInv
<1>8. \A n \in 1..Len(sent') : \E l \in ReadAs(sent'[n].id) : Answering(sent'[n].answer, l)
  BY <1>1 DEF AInv, AnswersItsDatagram
<1> QED  BY <1>1, <1>6, <1>7, <1>8, AInvFrom

\* A worker takes a request and answers it.
LEMMA AInvTake ==
  ASSUME EInv, AInv, NEW t \in Workers, NEW a \in Answer, Take(t, Own(t)), Answers(t, a),
         Answering(a, Head(queue[Own(t)]).message), UNCHANGED arrived
  PROVE  AInv'
<1> DEFINE q == Own(t)
           f == Head(queue[q])
           r == [f EXCEPT !.answer = a]
<1>1. /\ TypeOK /\ t \in Locals /\ q \in Queues
      /\ queue[q] # <<>> /\ queue' = [queue EXCEPT ![q] = Tail(@)]
      /\ cur' = [cur EXCEPT ![t] = r] /\ UNCHANGED <<arrived, sent, read>>
  BY OwnFacts DEF EInv, Take, Answers
<1>3. f \in Request /\ 1 \in 1..Len(queue[q]) /\ f = queue[q][1]
  <2> HIDE DEF q
  <2> QED  BY <1>1, TakeFacts
<1>4. r.id = f.id /\ r.answer = a /\ r.message = f.message
  BY <1>3 DEF Request
<1>5. cur'[t] = r /\ \A u \in Locals : u # t => cur'[u] = cur[u]
  BY <1>1 DEF TypeOK
<1>6. AsRead(f) /\ Answering(a, f.message)
  BY <1>1, <1>3 DEF AInv
<1> HIDE DEF r, f, q
<1>7. \A p \in Queues : \A n \in 1..Len(queue'[p]) :
        \E m \in 1..Len(queue[p]) : queue'[p][n] = queue[p][m]
  BY <1>1, TakeFacts
<1>8. \A p \in Queues : \A n \in 1..Len(queue'[p]) : AsRead(queue'[p][n])
  BY <1>7 DEF AInv
<1>9. AsRead(r)
  BY <1>4, <1>6 DEF AsRead
<1>10. \A u \in Locals : cur'[u] # None => AsRead(cur'[u])
  BY <1>5, <1>9 DEF AInv
<1>11. \A n \in 1..Len(sent') : \E l \in ReadAs(sent'[n].id) : Answering(sent'[n].answer, l)
  BY <1>1 DEF AInv, AnswersItsDatagram
<1> QED  BY <1>1, <1>8, <1>10, <1>11, AInvFrom

LEMMA AInvWorkerPush ==
  ASSUME EInv, AInv, NEW t \in Workers, WorkerPush(t)
  PROVE  AInv'
<1>1. /\ TypeOK /\ Running /\ CurOK /\ t \in Locals /\ "answers" \in Queues
      /\ Push("answers", cur[t]) /\ cur' = [cur EXCEPT ![t] = None]
      /\ UNCHANGED <<arrived, read, sent>>
  BY OwnFacts DEF EInv, WorkerPush, ThreadsOK
<1>2. cur[t] # None /\ cur[t] \in Request /\ AsRead(cur[t])
  BY <1>1 DEF WorkerPush, CurOK, TypeOK, AInv
<1> PICK r \in Request : r = cur[t]
  BY <1>2
<1>3. AsRead(r)
  BY <1>2
<1>4. \A q \in Queues : \A n \in 1..Len(queue'[q]) :
        queue'[q][n] = r \/ (n \in 1..Len(queue[q]) /\ queue'[q][n] = queue[q][n])
  <2> SUFFICES ASSUME NEW q \in Queues, NEW n \in 1..Len(queue'[q])
               PROVE  queue'[q][n] = r \/ (n \in 1..Len(queue[q]) /\ queue'[q][n] = queue[q][n])
    OBVIOUS
  <2>1. CASE q = "answers"
    <3>1. queue[q] \in Seq(Request) /\ queue'[q] = Append(queue[q], r)
      BY <1>1, <2>1 DEF TypeOK, Push
    <3> QED  BY <3>1, AppendFacts
  <2>2. CASE q # "answers"
    BY <2>2, <1>1 DEF TypeOK, Push
  <2> QED  BY <2>1, <2>2
<1>5. \A q \in Queues : \A n \in 1..Len(queue'[q]) : AsRead(queue'[q][n])
  BY <1>3, <1>4 DEF AInv
<1>6. \A u \in Locals : cur'[u] # None => cur'[u] = cur[u]
  BY <1>1 DEF TypeOK
<1>7. \A u \in Locals : cur'[u] # None => AsRead(cur'[u])
  BY <1>6 DEF AInv
<1>8. \A n \in 1..Len(sent') : \E l \in ReadAs(sent'[n].id) : Answering(sent'[n].answer, l)
  BY <1>1 DEF AInv, AnswersItsDatagram
<1> QED  BY <1>1, <1>5, <1>7, <1>8, AInvFrom

LEMMA AInvSendPop ==
  ASSUME EInv, AInv, SendAnswerPop
  PROVE  AInv'
<1> DEFINE q == "answers"
           t == "sendAnswer"
<1>1. /\ TypeOK /\ t \in Locals /\ q \in Queues
      /\ queue[q] # <<>> /\ queue' = [queue EXCEPT ![q] = Tail(@)]
      /\ cur' = [cur EXCEPT ![t] = Head(queue[q])] /\ UNCHANGED <<arrived, sent, read>>
  BY OwnFacts DEF EInv, SendAnswerPop, Take
<1> HIDE DEF q, t
<1>2. Head(queue[q]) = queue[q][1] /\ 1 \in 1..Len(queue[q])
  BY <1>1, TakeFacts
<1>3. cur'[t] = Head(queue[q]) /\ \A u \in Locals : u # t => cur'[u] = cur[u]
  BY <1>1 DEF TypeOK
<1>4. AsRead(Head(queue[q]))
  BY <1>1, <1>2 DEF AInv
<1>5. \A p \in Queues : \A n \in 1..Len(queue'[p]) :
        \E m \in 1..Len(queue[p]) : queue'[p][n] = queue[p][m]
  BY <1>1, TakeFacts
<1>6. \A p \in Queues : \A n \in 1..Len(queue'[p]) : AsRead(queue'[p][n])
  BY <1>5 DEF AInv
<1>7. \A u \in Locals : cur'[u] # None => AsRead(cur'[u])
  BY <1>3, <1>4 DEF AInv
<1>8. \A n \in 1..Len(sent') : \E l \in ReadAs(sent'[n].id) : Answering(sent'[n].answer, l)
  BY <1>1 DEF AInv, AnswersItsDatagram
<1> QED  BY <1>1, <1>6, <1>7, <1>8, AInvFrom

LEMMA AInvSend ==
  ASSUME EInv, AInv, SendAnswerSend
  PROVE  AInv'
<1> DEFINE t == "sendAnswer"
           x == [id |-> cur[t].id, to |-> serverAddr, answer |-> cur[t].answer]
<1>1. /\ TypeOK /\ FitsOK /\ pc[t] = "send" /\ t \in Locals /\ t \in Threads /\ Running
      /\ sent \in Seq([id : Ids, to : Addresses, answer : Answer])
      /\ sent' = Append(sent, x) /\ cur' = [cur EXCEPT ![t] = None]
      /\ UNCHANGED <<arrived, queue, read>>
  BY OwnFacts DEF EInv, SendAnswerSend, Threads, TypeOK, ThreadsOK
<1>2. cur[t] # None /\ cur[t] \in Request /\ cur[t].answer # None /\ AsRead(cur[t])
  BY <1>1 DEF EInv, CurOK, TypeOK, FitsOK, AInv
<1>3. /\ x \in [id : Ids, to : Addresses, answer : Answer]
      /\ x.id = cur[t].id /\ x.answer = cur[t].answer
  BY <1>1, <1>2 DEF Request, TypeOK
<1>4. \E l \in ReadAs(x.id) : Answering(x.answer, l)
  BY <1>2, <1>3 DEF AsRead
<1>5. \A u \in Locals : cur'[u] # None => cur'[u] = cur[u]
  BY <1>1 DEF TypeOK
<1> HIDE DEF t, x
<1>6. \A n \in 1..Len(sent') : sent'[n] = x \/ (n \in 1..Len(sent) /\ sent'[n] = sent[n])
  BY <1>1, <1>3, AppendFacts
<1>7. \A n \in 1..Len(sent') : \E l \in ReadAs(sent'[n].id) : Answering(sent'[n].answer, l)
  BY <1>4, <1>6 DEF AInv, AnswersItsDatagram
<1>8. \A p \in Queues : \A n \in 1..Len(queue'[p]) : AsRead(queue'[p][n])
  BY <1>1 DEF AInv
<1>9. \A u \in Locals : cur'[u] # None => AsRead(cur'[u])
  BY <1>5 DEF AInv
<1> QED  BY <1>1, <1>7, <1>8, <1>9, AInvFrom

\* What the workers answer: a TER about a topic of the list, an IQR with a
\* result that is recorded.
LEMMA AInvPop ==
  ASSUME EInv, AInv, ProcessTQRPop \/ ProcessTERPop \/ ProcessIQRPop
  PROVE  AInv'
<1>0. /\ TypeOK /\ FitsOK
      /\ \A t \in Workers : Take(t, Own(t)) =>
           /\ Head(queue[Own(t)]) \in Request
           /\ Route(Head(queue[Own(t)]).message) = Own(t)
  <2>1. TypeOK /\ FitsOK
    BY DEF EInv
  <2>2. ASSUME NEW t \in Workers, Take(t, Own(t))
        PROVE  /\ Head(queue[Own(t)]) \in Request
               /\ Route(Head(queue[Own(t)]).message) = Own(t)
    <3>1. Own(t) \in Queues /\ queue[Own(t)] # <<>> /\ queue' = [queue EXCEPT ![Own(t)] = Tail(@)]
      BY <2>2, OwnFacts DEF Take
    <3>2. /\ Head(queue[Own(t)]) \in Request /\ 1 \in 1..Len(queue[Own(t)])
          /\ Head(queue[Own(t)]) = queue[Own(t)][1]
      BY <2>1, <3>1, TakeFacts
    <3> QED  BY <2>1, <3>2 DEF FitsOK
  <2> QED  BY <2>1, <2>2
<1>1. CASE ProcessTQRPop
  <2> DEFINE m == Head(queue["tqrRequests"]).message
             a == IF Topics = 0 THEN EOF ELSE [kind |-> "AWT"]
  <2>1. "processTQR" \in Workers /\ Own("processTQR") = "tqrRequests"
    BY DEF Workers, Own
  <2>2. Take("processTQR", "tqrRequests") /\ Answers("processTQR", a) /\ UNCHANGED arrived
    BY <1>1 DEF ProcessTQRPop, Answers
  <2>3. m \in Line /\ Route(m) = "tqrRequests"
    BY <1>0, <2>1, <2>2 DEF Request
  <2>4. m.kind = "TQR"
    BY <2>3 DEF Route
  <2>5. a \in Answer /\ Answering(a, m)
    BY <2>4, EcpAssumption DEF Answer, EOF, Answering
  <2> QED  BY <2>1, <2>2, <2>5, AInvTake
<1>2. CASE ProcessTERPop
  <2> DEFINE m == Head(queue["terRequests"]).message
             a == TopicData(m)
  <2>1. "processTER" \in Workers /\ Own("processTER") = "terRequests"
    BY DEF Workers, Own
  <2>2. Take("processTER", "terRequests") /\ Answers("processTER", a) /\ UNCHANGED arrived
    BY <1>2 DEF ProcessTERPop, Answers
  <2>3. m \in Line /\ Route(m) = "terRequests"
    BY <1>0, <2>1, <2>2 DEF Request
  <2>4. m.kind = "badTER" \/ (m.kind = "TER" /\ m.topic \in 1..99)
    BY <2>3 DEF Route, Line
  <2>5. a \in Answer /\ Answering(a, m)
    <3>1. CASE m.kind = "badTER"
      BY <3>1 DEF TopicData, Answer, ERR, Answering
    <3>2. CASE m.kind = "TER" /\ m.topic \in 1..Topics
      <4>1. a = [kind |-> "AWTES", topic |-> m.topic]
        BY <3>2 DEF TopicData
      <4>2. m.topic \in 1..99
        BY <3>2, <2>4
      <4>3. Topics \in Nat /\ m.topic \in Nat /\ m.topic <= Topics
        BY <3>2, <4>2, EcpAssumption
      <4>4. a \in Answer
        BY <4>1, <4>2 DEF Answer
      <4>5. Answering(a, m)
        BY <4>1, <4>3, <3>2 DEF Answering
      <4> QED  BY <4>4, <4>5
    <3>3. CASE m.kind = "TER" /\ m.topic \notin 1..Topics
      <4>1. a = EOF
        BY <3>3 DEF TopicData
      <4>2. Topics \in Nat /\ m.topic \in Nat \ {0}
        BY <3>3, <2>4, EcpAssumption
      <4>3. m.topic > Topics
        BY <3>3, <4>2
      <4> QED  BY <4>1, <4>3, <3>3 DEF Answer, EOF, Answering
    <3> QED  BY <3>1, <3>2, <3>3, <2>4
  <2> QED  BY <2>1, <2>2, <2>5, AInvTake
<1>3. CASE ProcessIQRPop
  <2> DEFINE m == Head(queue["iqrRequests"]).message
  <2>1. "processIQR" \in Workers /\ Own("processIQR") = "iqrRequests"
    BY DEF Workers, Own
  <2>2. Take("processIQR", "iqrRequests") /\ UNCHANGED arrived
    BY <1>3 DEF ProcessIQRPop, Answers
  <2>3. m \in Line
    BY <1>0, <2>1, <2>2 DEF Request
  <2>4. CASE m.kind = "IQR"
    <3>1. Answers("processIQR", AWI(m.result)) /\ m.result \in Results
      BY <1>3, <2>3, <2>4 DEF ProcessIQRPop, Line
    <3>2. AWI(m.result) \in Answer /\ Answering(AWI(m.result), m)
      BY <3>1, <2>4 DEF AWI, Answer, Answering
    <3> QED  BY <2>1, <2>2, <3>1, <3>2, AInvTake
  <2>5. CASE m.kind # "IQR"
    <3>1. m.kind = "badIQR" /\ Answers("processIQR", ERR)
      BY <1>3, <2>5 DEF ProcessIQRPop
    <3>2. ERR \in Answer /\ Answering(ERR, m)
      BY <3>1 DEF ERR, Answer, Answering
    <3> QED  BY <2>1, <2>2, <3>1, <3>2, AInvTake
  <2> QED  BY <2>4, <2>5
<1> QED  BY <1>1, <1>2, <1>3

LEMMA AInvInductive == EInv /\ AInv /\ [Next]_vars => AInv'
<1> SUFFICES ASSUME EInv, AInv, [Next]_vars PROVE AInv'
  OBVIOUS
<1>1. CASE UNCHANGED <<queue, cur, sent, arrived>> /\ read' \in {read, None}
  BY <1>1, AInvQuiet
<1>2. CASE AcceptRequests
  <2>1. ASSUME NEW p \in Peers, NEW l \in Lines, AcceptTooLong(p, l)
        PROVE  AInv'
    <3>1. /\ arrived' = Append(arrived, Datagram(p, l))
          /\ UNCHANGED <<queue, cur, sent, read>>
      BY <2>1 DEF AcceptTooLong, Terminate
    <3>2. read = None
      BY <2>1 DEF AcceptTooLong, EInv, CurOK, Running
    <3> QED  BY <3>1, <3>2, AInvQuiet
  <2>2. CASE AcceptBind \/ AcceptInUse \/ AcceptBindFails \/ AcceptClient \/ AcceptPost
    BY <2>2, <1>1 DEF AcceptBind, AcceptInUse, AcceptBindFails, AcceptClient, AcceptPost, Terminate
  <2> QED  BY <2>1, <2>2, <1>2, AInvReceive, AInvPush DEF AcceptRequests
<1>3. ASSUME NEW t \in Workers, Worker(t)
      PROVE  AInv'
  <2>1. WorkerPush(t) \/ UNCHANGED <<queue, cur, sent, arrived, read>>
    BY <1>3 DEF Worker, WorkerWait, Wait, WorkerPost
  <2> QED  BY <2>1, <1>1, AInvWorkerPush
<1>4. CASE ProcessTQR \/ ProcessTER
  BY <1>3, <1>4, AInvPop DEF ProcessTQR, ProcessTER, Workers
<1>5. CASE ProcessIQR
  <2>1. CASE ProcessIQRThrows
    BY <2>1, <1>1 DEF ProcessIQRThrows, Terminate
  <2> QED  BY <2>1, <1>3, <1>5, AInvPop DEF ProcessIQR, Workers
<1>6. CASE SendAnswer
  <2>1. SendAnswerPop \/ SendAnswerSend \/ UNCHANGED <<queue, cur, sent, arrived, read>>
    BY <1>6 DEF SendAnswer, SendAnswerWait, Wait, SendAnswerAddress
  <2> QED  BY <2>1, <1>1, AInvSendPop, AInvSend
<1>7. CASE UNCHANGED vars
  BY <1>7, <1>1 DEF vars
<1> QED  BY <1>2, <1>4, <1>5, <1>6, <1>7 DEF Next

\* Whatever is sent for a datagram answers its own line, not that of another the
\* server held meanwhile, unless it had no '\n' and was read as another.
THEOREM AnswersItsDatagramAlways == Spec => []AnswersItsDatagram
<1>1. Init => AInv
  BY DEF Init, AInv, AnswersItsDatagram
<1>2. AInv => AnswersItsDatagram
  BY DEF AInv
<1> QED  BY <1>1, <1>2, AInvInductive, ContactInductive, PTL DEF Spec

=============================================================================
