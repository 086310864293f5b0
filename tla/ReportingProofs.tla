-------------------------- MODULE ReportingProofs --------------------------
(***************************************************************************)
(* What becomes of a score between the two servers, for any number of      *)
(* scores, names, datagrams and restarts: AckedMeansRecorded and Accounted *)
(* of Reporting.                                                           *)
(*                                                                         *)
(* Both follow a score downstream.  An AWI exists, in a queue, in a thread *)
(* or on its way, only when its result is in stats.txt or could not be     *)
(* written there (Done); and what was sent once stays on its way, in the   *)
(* contact server, done or lost, so the reporter may drop the copy it      *)
(* keeps under the empty key.                                              *)
(***************************************************************************)
EXTENDS Reporting, TLAPS

Sent  == {"tes", "user", None}
Lines == {TQR} \cup {Iqr(i) : i \in Iqrs}
Mail  == [id : Nat, message : Lines, client : Sent, answer : Ecp!Answer \cup {None}]

EcpType ==
  /\ serverAddr \in Sent /\ client \in Sent
  /\ arrived \in Seq([from : Sent, line : Lines, open : SUBSET Nat])
  /\ pc \in [Ecp!Threads -> Ecp!Labels]
  /\ pc["acceptRequests"] \in {"client", "push", "post"} => read \in Lines
  /\ queue \in [Ecp!Queues -> Seq(Mail)]
  /\ cur \in [Ecp!Locals -> Mail \cup {None}]
  /\ \A t \in Ecp!Workers : pc[t] = "push" => cur[t] \in Mail
  /\ pc["sendAnswer"] \in {"address", "send"} => cur["sendAnswer"] \in Mail
  /\ stats \in Seq(Iqrs) /\ unwritten \in Seq(Iqrs)
  /\ sent \in Seq([id : Nat, to : Sent, answer : Ecp!Answer \cup {None}])

\* An acknowledgement waits, or is held by a thread, only for a result that was
\* written to stats.txt or that could not be.
Acks ==
  /\ \A n \in 1..Len(queue["answers"]), i \in Iqrs :
       queue["answers"][n].answer = Ecp!AWI(i) => Done(i)
  /\ \A t \in Ecp!Locals, i \in Iqrs :
       pc[t] \in {"push", "address", "send"} /\ cur[t].answer = Ecp!AWI(i) => Done(i)

TesType ==
  /\ results \in [Tes!Keys -> Iqrs \cup {None}]
  /\ hand \in Iqrs \cup {None}
  /\ graded \subseteq Iqrs

\* A score that left the topic server.
Down(i) == i \in toEcp \/ InEcp(i) \/ Done(i) \/ i \in lost

\* The reporter keeps under the empty key, and holds, only what it has sent.
Kept ==
  /\ hand # None => Down(hand)
  /\ phase # "sending" => hand = None
  /\ results[EmptyKey] # None => Down(results[EmptyKey])

PInv == EcpType /\ Acks /\ AckedMeansRecorded /\ TesType /\ Kept /\ Accounted

\* What a step of the contact server does to the scores it has.
Grows ==
  /\ \A i \in Iqrs : Done(i) => Done(i)'
  /\ \A i \in Iqrs : InEcp(i) => InEcp(i)' \/ Done(i)'

\* What no step of the contact server but ProcessIQRPop and AcceptPush touches.
Same ==
  /\ UNCHANGED <<stats, unwritten, queue["iqrRequests"]>>
  /\ pc["acceptRequests"] \in {"client", "push"} =>
       pc'["acceptRequests"] \in {"client", "push"} /\ UNCHANGED read

LEMMA SameGrows == Same => Grows
BY DEF Same, Grows, Done, InStats, Unwritten, InEcp

LEMMA SeqFacts ==
  ASSUME NEW S, NEW s \in Seq(S), NEW x \in S
  PROVE  /\ Append(s, x) \in Seq(S) /\ Len(Append(s, x)) = Len(s) + 1
         /\ \A n \in 1..Len(s) : Append(s, x)[n] = s[n]
         /\ Append(s, x)[Len(s) + 1] = x
OBVIOUS

LEMMA TailFacts ==
  ASSUME NEW S, NEW s \in Seq(S), s # <<>>
  PROVE  /\ Head(s) \in S /\ Head(s) = s[1] /\ 1 \in 1..Len(s)
         /\ Tail(s) \in Seq(S) /\ Len(Tail(s)) = Len(s) - 1
         /\ \A n \in 1..Len(Tail(s)) : n + 1 \in 1..Len(s) /\ Tail(s)[n] = s[n + 1]
         /\ \A n \in 1..Len(s) : n # 1 => n - 1 \in 1..Len(Tail(s)) /\ Tail(s)[n - 1] = s[n]
OBVIOUS

LEMMA Names ==
  /\ Ecp!Locals = {"processTQR", "processTER", "processIQR", "sendAnswer"}
  /\ Ecp!Workers \subseteq Ecp!Locals /\ Ecp!Locals \subseteq Ecp!Threads
  /\ Ecp!Threads = Ecp!Locals \cup {"acceptRequests"}
  /\ Ecp!Queues = {"tqrRequests", "terRequests", "iqrRequests", "answers"}
  /\ Ecp!Workers = {"processTQR", "processTER", "processIQR"}
BY DEF Ecp!Locals, Ecp!Workers, Ecp!Threads, Ecp!Queues

LEMMA LineFacts ==
  ASSUME NEW l \in Lines
  PROVE  /\ l.kind \in {"TQR", "IQR"}
         /\ l.kind = "IQR" => l.result \in Iqrs /\ l = Iqr(l.result)
         /\ Ecp!Route(l) \in {"tqrRequests", "iqrRequests"}
         /\ \A i \in Iqrs : l = Iqr(i) => Ecp!Route(l) = "iqrRequests"
         /\ Ecp!Received(l) = {l}
BY DEF Lines, Iqr, TQR, Ecp!Route, Ecp!Received

-----------------------------------------------------------------------------
(* The steps of the contact server.                                        *)

\* Two threads move that no acknowledgement depends on.
LEMMA QuietMove ==
  ASSUME EcpType, Acks,
         Ecp!AcceptBind \/ Ecp!AcceptClient \/ Ecp!AcceptPost \/ Ecp!SendAnswerWait
           \/ (\E t \in Ecp!Workers : Ecp!WorkerWait(t) \/ Ecp!WorkerPost(t))
           \/ Ecp!SendAnswerAddress
  PROVE  EcpType' /\ Acks' /\ Grows
<1>1. /\ UNCHANGED <<arrived, queue, cur, stats, unwritten, sent>>
      /\ pc' \in [Ecp!Threads -> Ecp!Labels]
      /\ serverAddr' \in Sent /\ client' \in Sent
  BY Names DEF EcpType, Ecp!AcceptBind, Ecp!AcceptClient, Ecp!Sender, Ecp!AcceptPost,
    Ecp!SendAnswerWait, Ecp!WorkerWait, Ecp!Wait, Ecp!WorkerPost, Ecp!SendAnswerAddress,
    Ecp!Goto, Ecp!Labels, Sent, Mail
<1>2. /\ pc'["acceptRequests"] \in {"client", "push", "post"} =>
           pc["acceptRequests"] \in {"client", "push", "post"} /\ UNCHANGED read
      /\ pc["acceptRequests"] \in {"client", "push"} =>
           pc'["acceptRequests"] \in {"client", "push"} /\ UNCHANGED read
      /\ \A t \in Ecp!Workers : pc'[t] = "push" => pc[t] = "push"
      /\ pc'["sendAnswer"] \in {"address", "send"} => pc["sendAnswer"] \in {"address", "send"}
  BY Names DEF EcpType, Ecp!AcceptBind, Ecp!AcceptClient, Ecp!AcceptPost,
    Ecp!SendAnswerWait, Ecp!WorkerWait, Ecp!Wait, Ecp!WorkerPost, Ecp!SendAnswerAddress,
    Ecp!Goto, Ecp!Labels
<1>3. EcpType'
  BY <1>1, <1>2 DEF EcpType
<1>4. Acks'
  <2>1. \A t \in Ecp!Locals : pc'[t] \in {"push", "address", "send"} =>
                              pc[t] \in {"push", "address", "send"}
    BY <1>2, Names DEF EcpType, Ecp!AcceptBind, Ecp!AcceptClient, Ecp!AcceptPost,
      Ecp!SendAnswerWait, Ecp!WorkerWait, Ecp!Wait, Ecp!WorkerPost, Ecp!SendAnswerAddress,
      Ecp!Goto, Ecp!Labels
  <2> QED  BY <1>1, <2>1 DEF Acks, Done, InStats, Unwritten
<1>5. Same
  BY <1>1, <1>2 DEF Same
<1> QED  BY <1>3, <1>4, <1>5, SameGrows

\* A datagram is received.
LEMMA ReceiveMove ==
  ASSUME EcpType, Acks, NEW p \in {"tes", "user"}, NEW l \in Lines, Ecp!AcceptReceive(p, l)
  PROVE  /\ EcpType' /\ Acks' /\ Grows
         /\ \A i \in Iqrs : l = Iqr(i) => InEcp(i)'
<1>1. /\ pc["acceptRequests"] = "receive" /\ serverAddr' = p /\ read' = l
      /\ arrived' = Append(arrived, Ecp!Datagram(p, l))
      /\ UNCHANGED <<client, queue, cur, stats, unwritten, sent>>
  BY LineFacts DEF Ecp!AcceptReceive
<1>2. /\ pc' \in [Ecp!Threads -> Ecp!Labels] /\ pc'["acceptRequests"] = "client"
      /\ \A t \in Ecp!Locals : pc'[t] = pc[t]
  BY Names DEF EcpType, Ecp!AcceptReceive, Ecp!Goto, Ecp!Labels
<1>3. Ecp!Datagram(p, l) \in [from : Sent, line : Lines, open : SUBSET Nat]
  <2>1. Ecp!Unanswered \subseteq Nat
    BY DEF Ecp!Unanswered, EcpType
  <2> QED  BY <2>1 DEF Ecp!Datagram, Sent
<1>4. arrived' \in Seq([from : Sent, line : Lines, open : SUBSET Nat])
  BY <1>1, <1>3, SeqFacts DEF EcpType
<1>5. EcpType'
  BY <1>1, <1>2, <1>4, Names DEF EcpType, Sent
<1>6. Acks'
  BY <1>1, <1>2 DEF Acks, Done, InStats, Unwritten
<1>7. Grows /\ \A i \in Iqrs : l = Iqr(i) => InEcp(i)'
  BY <1>1, <1>2 DEF Grows, Done, InStats, Unwritten, InEcp
<1> QED  BY <1>5, <1>6, <1>7

\* acceptRequests queues what it received; nothing is answered yet.
LEMMA PushMove ==
  ASSUME EcpType, Acks, Ecp!AcceptPush
  PROVE  EcpType' /\ Acks' /\ Grows
<1> DEFINE q == Ecp!Route(read)
           r == [id |-> Len(arrived), message |-> read, client |-> client,
                 answer |-> IF q = "answers" THEN Ecp!ERR ELSE None]
<1>1. /\ pc["acceptRequests"] = "push" /\ read \in Lines
      /\ queue' = [queue EXCEPT ![q] = Append(@, r)]
      /\ UNCHANGED <<serverAddr, arrived, read, client, cur, stats, unwritten, sent>>
  BY DEF EcpType, Ecp!AcceptPush, Ecp!Push
<1>2. q \in {"tqrRequests", "iqrRequests"} /\ q \in Ecp!Queues
  BY <1>1, LineFacts, Names
<1>3. r \in Mail
  BY <1>1, <1>2 DEF Mail, EcpType
<1>4. /\ queue' \in [Ecp!Queues -> Seq(Mail)]
      /\ queue'["answers"] = queue["answers"]
      /\ queue'[q] = Append(queue[q], r) /\ queue[q] \in Seq(Mail)
      /\ q # "iqrRequests" => queue'["iqrRequests"] = queue["iqrRequests"]
  <2> HIDE DEF q, r
  <2> QED  BY <1>1, <1>2, <1>3, Names, SeqFacts DEF EcpType
<1>5. /\ pc' \in [Ecp!Threads -> Ecp!Labels] /\ pc'["acceptRequests"] = "post"
      /\ \A t \in Ecp!Locals : pc'[t] = pc[t]
  BY Names DEF EcpType, Ecp!AcceptPush, Ecp!Goto, Ecp!Labels
<1>6. EcpType'
  BY <1>1, <1>4, <1>5, Names DEF EcpType
<1>7. Acks'
  <2> HIDE DEF q, r
  <2>1. \A n \in 1..Len(queue'["answers"]), i \in Iqrs :
          queue'["answers"][n].answer = Ecp!AWI(i) => Done(i)
    BY <1>4 DEF Acks
  <2>2. \A t \in Ecp!Locals, i \in Iqrs :
          pc'[t] \in {"push", "address", "send"} /\ cur[t].answer = Ecp!AWI(i) => Done(i)
    BY <1>5 DEF Acks
  <2> QED  BY <1>1, <2>1, <2>2 DEF Acks, Done, InStats, Unwritten, Ecp!AWI
<1>8. ASSUME NEW i \in Iqrs, InEcp(i) PROVE InEcp(i)'
  <2>1. CASE read = Iqr(i)
    <3>1. q = "iqrRequests"
      BY <1>1, <2>1, LineFacts
    <3>2. r.message = Iqr(i)
      BY <2>1
    <3> HIDE DEF q, r
    <3>3. /\ Len(queue[q]) + 1 \in 1..Len(queue'[q])
          /\ queue'[q][Len(queue[q]) + 1] = r
      BY <1>3, <1>4, SeqFacts
    <3> QED  BY <3>1, <3>2, <3>3 DEF InEcp
  <2>2. CASE read # Iqr(i)
    <3>1. PICK n \in 1..Len(queue["iqrRequests"]) : queue["iqrRequests"][n].message = Iqr(i)
      BY <1>8, <2>2 DEF InEcp
    <3> HIDE DEF q, r
    <3>2. n \in 1..Len(queue'["iqrRequests"])
          /\ queue'["iqrRequests"][n] = queue["iqrRequests"][n]
      BY <1>3, <1>4, SeqFacts
    <3> QED  BY <3>1, <3>2 DEF InEcp
  <2> QED  BY <2>1, <2>2
<1> QED  BY <1>1, <1>6, <1>7, <1>8 DEF Grows, Done, InStats, Unwritten

\* A worker queues its answer.
LEMMA WorkerPushMove ==
  ASSUME EcpType, Acks, NEW t \in Ecp!Workers, Ecp!WorkerPush(t)
  PROVE  EcpType' /\ Acks' /\ Grows
<1> DEFINE Q == queue["answers"]
<1>1. /\ cur[t] \in Mail /\ t \in Ecp!Locals /\ Q \in Seq(Mail)
      /\ queue' = [queue EXCEPT !["answers"] = Append(@, cur[t])]
      /\ cur' = [cur EXCEPT ![t] = None]
      /\ UNCHANGED <<serverAddr, arrived, read, client, stats, unwritten, sent>>
  BY Names DEF EcpType, Ecp!WorkerPush, Ecp!Push
<1>2. /\ queue' \in [Ecp!Queues -> Seq(Mail)]
      /\ queue'["answers"] = Append(Q, cur[t])
      /\ queue'["iqrRequests"] = queue["iqrRequests"]
  BY <1>1, Names, SeqFacts DEF EcpType
<1>3. /\ pc' \in [Ecp!Threads -> Ecp!Labels] /\ pc'[t] = "post"
      /\ \A u \in Ecp!Threads : u # t => pc'[u] = pc[u]
      /\ t # "acceptRequests" /\ t # "sendAnswer"
  BY Names DEF EcpType, Ecp!WorkerPush, Ecp!Goto, Ecp!Labels
<1>4. /\ cur' \in [Ecp!Locals -> Mail \cup {None}]
      /\ \A u \in Ecp!Locals : cur'[u] = cur[u] \/ cur'[u] = None
      /\ \A u \in Ecp!Locals : u # t => cur'[u] = cur[u]
      /\ cur'[t] = None
  BY <1>1 DEF EcpType
<1>5. EcpType'
  BY <1>1, <1>2, <1>3, <1>4, Names DEF EcpType
<1>6. Acks'
  <2>1. ASSUME NEW n \in 1..Len(queue'["answers"]), NEW i \in Iqrs,
               queue'["answers"][n].answer = Ecp!AWI(i)
        PROVE  Done(i)
    <3>1. CASE n \in 1..Len(Q)
      <4>1. queue'["answers"][n] = Q[n]
        BY <1>1, <1>2, <3>1, SeqFacts
      <4> QED  BY <2>1, <3>1, <4>1 DEF Acks
    <3>2. CASE n \notin 1..Len(Q)
      <4>1. n = Len(Q) + 1
        BY <1>1, <1>2, <3>2, SeqFacts
      <4>2. queue'["answers"][n] = cur[t]
        BY <1>1, <1>2, <4>1, SeqFacts
      <4>3. pc[t] = "push"
        BY DEF Ecp!WorkerPush
      <4> QED  BY <1>1, <2>1, <4>2, <4>3 DEF Acks
    <3> QED  BY <3>1, <3>2
  <2>2. ASSUME NEW u \in Ecp!Locals, NEW i \in Iqrs,
               pc'[u] \in {"push", "address", "send"}, cur'[u].answer = Ecp!AWI(i)
        PROVE  Done(i)
    <3>1. u # t /\ u \in Ecp!Threads
      BY <1>3, <2>2, Names
    <3> QED  BY <1>3, <1>4, <2>2, <3>1 DEF Acks
  <2> QED  BY <1>1, <2>1, <2>2 DEF Acks, Done, InStats, Unwritten, Ecp!AWI
<1>7. Same
  BY <1>1, <1>2, <1>3, Names DEF Same
<1> QED  BY <1>5, <1>6, <1>7, SameGrows

\* A worker takes a request and works out its answer: an AWI only after its
\* result was written down.
LEMMA WorkerTakes ==
  ASSUME EcpType, Acks, NEW t \in Ecp!Workers, NEW a \in Ecp!Answer,
         Ecp!Take(t, Ecp!Own(t)), Ecp!Answers(t, a), arrived' = arrived,
         stats' \in Seq(Iqrs), unwritten' \in Seq(Iqrs),
         \A i \in Iqrs : Done(i) => Done(i)',
         \A i \in Iqrs : a = Ecp!AWI(i) => Done(i)',
         \A i \in Iqrs : t = "processIQR" /\ Head(queue["iqrRequests"]).message = Iqr(i)
                            => Done(i)'
  PROVE  EcpType' /\ Acks' /\ Grows
<1> DEFINE q == Ecp!Own(t)
           h == Head(queue[q])
           r == [h EXCEPT !.answer = a]
<1>1. /\ q \in {"tqrRequests", "terRequests", "iqrRequests"} /\ q \in Ecp!Queues
      /\ q = "iqrRequests" => t = "processIQR"
      /\ t \in Ecp!Locals /\ t # "acceptRequests" /\ t # "sendAnswer"
  BY Names DEF Ecp!Own
<1>2. /\ queue[q] \in Seq(Mail) /\ queue[q] # <<>>
      /\ queue' = [queue EXCEPT ![q] = Tail(@)] /\ cur' = [cur EXCEPT ![t] = r]
      /\ UNCHANGED <<serverAddr, arrived, read, client, sent>>
  BY <1>1 DEF EcpType, Ecp!Take, Ecp!Answers
<1>3. h \in Mail /\ r \in Mail /\ r.answer = a
  <2>1. h \in Mail
    BY <1>2, TailFacts
  <2> HIDE DEF h
  <2> QED  BY <2>1 DEF Mail
<1>4. /\ queue' \in [Ecp!Queues -> Seq(Mail)]
      /\ queue'["answers"] = queue["answers"]
      /\ queue'[q] = Tail(queue[q])
      /\ q # "iqrRequests" => queue'["iqrRequests"] = queue["iqrRequests"]
  <2>1. Tail(queue[q]) \in Seq(Mail)
    BY <1>2, TailFacts
  <2> HIDE DEF q
  <2> QED  BY <1>1, <1>2, <2>1, Names DEF EcpType
<1>5. /\ cur' \in [Ecp!Locals -> Mail \cup {None}] /\ cur'[t] = r
      /\ \A u \in Ecp!Locals : u # t => cur'[u] = cur[u]
  <2> HIDE DEF r
  <2> QED  BY <1>1, <1>2, <1>3 DEF EcpType
<1>6. /\ pc' \in [Ecp!Threads -> Ecp!Labels] /\ pc'[t] = "push"
      /\ \A u \in Ecp!Threads : u # t => pc'[u] = pc[u]
  BY Names DEF EcpType, Ecp!Answers, Ecp!Goto, Ecp!Labels
<1> HIDE DEF q, h, r
<1>7. EcpType'
  BY <1>1, <1>2, <1>3, <1>4, <1>5, <1>6, Names DEF EcpType
<1>8. Acks'
  <2>1. \A n \in 1..Len(queue'["answers"]), i \in Iqrs :
          queue'["answers"][n].answer = Ecp!AWI(i) => Done(i)'
    BY <1>4 DEF Acks
  <2>2. ASSUME NEW u \in Ecp!Locals, NEW i \in Iqrs,
               pc'[u] \in {"push", "address", "send"}, cur'[u].answer = Ecp!AWI(i)
        PROVE  Done(i)'
    <3>1. CASE u = t
      BY <1>3, <1>5, <2>2, <3>1
    <3>2. CASE u # t
      BY <1>5, <1>6, <2>2, <3>2, Names DEF Acks
    <3> QED  BY <3>1, <3>2
  <2> QED  BY <2>1, <2>2 DEF Acks, Ecp!AWI
<1>9. ASSUME NEW i \in Iqrs, InEcp(i) PROVE InEcp(i)' \/ Done(i)'
  <2>1. CASE pc["acceptRequests"] \in {"client", "push"} /\ read = Iqr(i)
    <3>1. pc'["acceptRequests"] = pc["acceptRequests"]
      BY <1>1, <1>6, Names
    <3> QED  BY <1>2, <2>1, <3>1 DEF InEcp
  <2>2. CASE \E n \in 1..Len(queue["iqrRequests"]) : queue["iqrRequests"][n].message = Iqr(i)
    <3>1. PICK n \in 1..Len(queue["iqrRequests"]) : queue["iqrRequests"][n].message = Iqr(i)
      BY <2>2
    <3>2. CASE q # "iqrRequests"
      BY <1>4, <3>1, <3>2 DEF InEcp
    <3>3. CASE q = "iqrRequests" /\ n = 1
      <4>1. Head(queue["iqrRequests"]) = queue["iqrRequests"][1]
        BY <1>2, <3>3, TailFacts
      <4> QED  BY <1>1, <3>1, <3>3, <4>1
    <3>4. CASE q = "iqrRequests" /\ n # 1
      <4>1. /\ n - 1 \in 1..Len(queue'["iqrRequests"])
            /\ queue'["iqrRequests"][n - 1] = queue["iqrRequests"][n]
        BY <1>2, <1>4, <3>4, TailFacts
      <4> QED  BY <3>1, <4>1 DEF InEcp
    <3> QED  BY <3>2, <3>3, <3>4
  <2> QED  BY <1>9, <2>1, <2>2 DEF InEcp
<1> QED  BY <1>7, <1>8, <1>9 DEF Grows

LEMMA PopMove ==
  ASSUME EcpType, Acks, Ecp!ProcessTQRPop \/ Ecp!ProcessIQRPop
  PROVE  EcpType' /\ Acks' /\ Grows
<1>1. CASE Ecp!ProcessTQRPop
  <2>1. PICK a : /\ a \in {Ecp!EOF, [kind |-> "AWT"]} /\ Ecp!Answers("processTQR", a)
                 /\ Ecp!Take("processTQR", "tqrRequests") /\ UNCHANGED <<stats, unwritten>>
    BY <1>1 DEF Ecp!ProcessTQRPop
  <2>2. a \in Ecp!Answer /\ \A i \in Iqrs : a # Ecp!AWI(i)
    BY <2>1 DEF Ecp!Answer, Ecp!EOF, Ecp!AWI
  <2>3. "processTQR" \in Ecp!Workers /\ Ecp!Own("processTQR") = "tqrRequests"
    BY DEF Ecp!Workers, Ecp!Own
  <2>4. UNCHANGED arrived
    BY <2>1 DEF Ecp!Answers
  <2>5. \A i \in Iqrs : Done(i) => Done(i)'
    BY <2>1 DEF Done, InStats, Unwritten
  <2> QED  BY <2>1, <2>2, <2>3, <2>4, <2>5, WorkerTakes DEF EcpType
<1>2. CASE Ecp!ProcessIQRPop
  <2> DEFINE m == Head(queue["iqrRequests"]).message
  <2>1. "processIQR" \in Ecp!Workers /\ Ecp!Own("processIQR") = "iqrRequests"
    BY DEF Ecp!Workers, Ecp!Own
  <2>2. Ecp!Take("processIQR", "iqrRequests") /\ queue["iqrRequests"] \in Seq(Mail)
    BY <1>2, Names DEF Ecp!ProcessIQRPop, EcpType
  <2>3. m \in Lines
    <3>1. Head(queue["iqrRequests"]) \in Mail
      BY <2>2, TailFacts DEF Ecp!Take
    <3> QED  BY <3>1 DEF Mail
  <2>4. m.kind = "IQR" /\ m.result \in Iqrs /\ m = Iqr(m.result)
    BY <1>2, <2>3, LineFacts DEF Ecp!ProcessIQRPop
  <2>5. /\ Ecp!Answers("processIQR", Ecp!AWI(m.result))
        /\ \/ stats' = Append(stats, m.result) /\ unwritten' = unwritten
           \/ unwritten' = Append(unwritten, m.result) /\ stats' = stats
    BY <1>2, <2>4 DEF Ecp!ProcessIQRPop, Ecp!Write, Ecp!Record
  <2>6. UNCHANGED arrived
    BY <2>5 DEF Ecp!Answers
  <2>7. PICK x \in Iqrs : x = m.result
    BY <2>4
  <2>8. /\ stats' \in Seq(Iqrs) /\ unwritten' \in Seq(Iqrs)
        /\ \A i \in Iqrs : Done(i) => Done(i)'
        /\ Done(x)'
    <3>1. stats \in Seq(Iqrs) /\ unwritten \in Seq(Iqrs)
      BY DEF EcpType
    <3>2. CASE stats' = Append(stats, x) /\ unwritten' = unwritten
      BY <3>1, <3>2, SeqFacts DEF Done, InStats, Unwritten
    <3>3. CASE unwritten' = Append(unwritten, x) /\ stats' = stats
      BY <3>1, <3>3, SeqFacts DEF Done, InStats, Unwritten
    <3> QED  BY <2>5, <2>7, <3>2, <3>3
  <2>9. Ecp!AWI(x) \in Ecp!Answer /\ \A i \in Iqrs : Ecp!AWI(x) = Ecp!AWI(i) => i = x
    BY DEF Ecp!Answer, Ecp!AWI
  <2>10. \A i \in Iqrs : m = Iqr(i) => i = x
    BY <2>4, <2>7 DEF Iqr
  <2> QED  BY <2>1, <2>2, <2>5, <2>6, <2>7, <2>8, <2>9, <2>10, WorkerTakes
<1> QED  BY <1>1, <1>2

\* sendAnswer takes an answer, and sends it.
LEMMA SendPopMove ==
  ASSUME EcpType, Acks, Ecp!SendAnswerPop
  PROVE  EcpType' /\ Acks' /\ Grows
<1> DEFINE Q == queue["answers"]
<1>1. /\ Q \in Seq(Mail) /\ Q # <<>> /\ queue' = [queue EXCEPT !["answers"] = Tail(@)]
      /\ cur' = [cur EXCEPT !["sendAnswer"] = Head(Q)]
      /\ UNCHANGED <<serverAddr, arrived, read, client, stats, unwritten, sent>>
  BY Names DEF EcpType, Ecp!SendAnswerPop, Ecp!Take
<1>2. /\ Head(Q) \in Mail /\ Head(Q) = Q[1] /\ 1 \in 1..Len(Q) /\ Tail(Q) \in Seq(Mail)
      /\ \A n \in 1..Len(Tail(Q)) : n + 1 \in 1..Len(Q) /\ Tail(Q)[n] = Q[n + 1]
  BY <1>1, TailFacts
<1>3. /\ queue' \in [Ecp!Queues -> Seq(Mail)] /\ queue'["answers"] = Tail(Q)
      /\ queue'["iqrRequests"] = queue["iqrRequests"]
      /\ cur' \in [Ecp!Locals -> Mail \cup {None}] /\ cur'["sendAnswer"] = Head(Q)
      /\ \A u \in Ecp!Workers : cur'[u] = cur[u]
  BY <1>1, <1>2, Names DEF EcpType
<1>4. /\ pc' \in [Ecp!Threads -> Ecp!Labels] /\ pc'["sendAnswer"] = "address"
      /\ \A u \in Ecp!Threads : u # "sendAnswer" => pc'[u] = pc[u]
  BY Names DEF EcpType, Ecp!SendAnswerPop, Ecp!Goto, Ecp!Labels
<1> HIDE DEF Q
<1>5. EcpType'
  BY <1>1, <1>2, <1>3, <1>4, Names DEF EcpType
<1>6. Acks'
  <2>1. \A n \in 1..Len(queue'["answers"]), i \in Iqrs :
          queue'["answers"][n].answer = Ecp!AWI(i) => Done(i)
    BY <1>2, <1>3 DEF Acks, Q
  <2>2. \A u \in Ecp!Locals, i \in Iqrs :
          pc'[u] \in {"push", "address", "send"} /\ cur'[u].answer = Ecp!AWI(i) => Done(i)
    BY <1>2, <1>3, <1>4, Names DEF Acks, Q
  <2> QED  BY <1>1, <2>1, <2>2 DEF Acks, Done, InStats, Unwritten, Ecp!AWI
<1>7. Same
  BY <1>1, <1>3, <1>4, Names DEF Same
<1> QED  BY <1>5, <1>6, <1>7, SameGrows

LEMMA SendMove ==
  ASSUME EcpType, Acks, Ecp!SendAnswerSend
  PROVE  /\ EcpType' /\ Acks' /\ Grows /\ UNCHANGED <<stats, unwritten>>
         /\ \A i \in Iqrs : sent'[Len(sent')].answer = Ecp!AWI(i) => Done(i)
<1> DEFINE r == cur["sendAnswer"]
           s == [id |-> r.id, to |-> serverAddr, answer |-> r.answer]
<1>1. /\ pc["sendAnswer"] = "send" /\ r \in Mail /\ sent' = Append(sent, s)
      /\ cur' = [cur EXCEPT !["sendAnswer"] = None]
      /\ UNCHANGED <<serverAddr, arrived, read, client, queue, stats, unwritten>>
  BY DEF EcpType, Ecp!SendAnswerSend
<1>2. s \in [id : Nat, to : Sent, answer : Ecp!Answer \cup {None}] /\ s.answer = r.answer
  BY <1>1 DEF EcpType, Mail
<1>3. /\ sent' \in Seq([id : Nat, to : Sent, answer : Ecp!Answer \cup {None}])
      /\ sent'[Len(sent')] = s
  <2> HIDE DEF s
  <2> QED  BY <1>1, <1>2, SeqFacts DEF EcpType
<1>4. /\ pc' \in [Ecp!Threads -> Ecp!Labels] /\ pc'["sendAnswer"] = "wait"
      /\ \A u \in Ecp!Threads : u # "sendAnswer" => pc'[u] = pc[u]
  BY Names DEF EcpType, Ecp!SendAnswerSend, Ecp!Goto, Ecp!Labels
<1>5. /\ cur' \in [Ecp!Locals -> Mail \cup {None}]
      /\ \A u \in Ecp!Workers : cur'[u] = cur[u]
  BY <1>1, Names DEF EcpType
<1> HIDE DEF r, s
<1>6. EcpType'
  BY <1>1, <1>3, <1>4, <1>5, Names DEF EcpType
<1>7. Acks'
  <2>1. \A u \in Ecp!Locals, i \in Iqrs :
          pc'[u] \in {"push", "address", "send"} /\ cur'[u].answer = Ecp!AWI(i) => Done(i)
    BY <1>4, <1>5, Names DEF Acks
  <2> QED  BY <1>1, <2>1 DEF Acks, Done, InStats, Unwritten, Ecp!AWI
<1>8. Same
  BY <1>1, <1>4, Names DEF Same
<1>9. \A i \in Iqrs : sent'[Len(sent')].answer = Ecp!AWI(i) => Done(i)
  BY <1>1, <1>2, <1>3, Names DEF Acks, r
<1> QED  BY <1>1, <1>6, <1>7, <1>8, <1>9, SameGrows

\* All the steps that Reporting takes together.
LEMMA WorksMove ==
  ASSUME EcpType, Acks, EcpWorks
  PROVE  EcpType' /\ Acks' /\ Grows
<1>1. CASE Ecp!AcceptBind \/ Ecp!AcceptClient \/ Ecp!AcceptPost \/ Ecp!SendAnswerWait
             \/ Ecp!SendAnswerAddress
  BY <1>1, QuietMove
<1>2. CASE Ecp!AcceptPush
  BY <1>2, PushMove
<1>3. CASE Ecp!SendAnswerPop
  BY <1>3, SendPopMove
<1>4. CASE Ecp!ProcessTQR
  <2>1. CASE Ecp!ProcessTQRPop
    BY <2>1, PopMove
  <2>2. CASE Ecp!Worker("processTQR")
    BY <2>2, QuietMove, WorkerPushMove, Names DEF Ecp!Worker
  <2> QED  BY <1>4, <2>1, <2>2 DEF Ecp!ProcessTQR
<1>5. CASE Ecp!ProcessIQR
  <2>1. CASE Ecp!ProcessIQRPop
    BY <2>1, PopMove
  <2>2. CASE Ecp!Worker("processIQR")
    BY <2>2, QuietMove, WorkerPushMove, Names DEF Ecp!Worker
  <2>3. ~Ecp!ProcessIQRThrows
    <3>1. SUFFICES ASSUME Ecp!ProcessIQRThrows PROVE FALSE
      OBVIOUS
    <3>2. /\ queue["iqrRequests"] \in Seq(Mail) /\ queue["iqrRequests"] # <<>>
          /\ Head(queue["iqrRequests"]).message.kind = "hugeIQR"
      BY <3>1, Names DEF Ecp!ProcessIQRThrows, EcpType
    <3>3. Head(queue["iqrRequests"]) \in Mail
      BY <3>2, TailFacts
    <3>4. Head(queue["iqrRequests"]).message \in Lines
      BY <3>3 DEF Mail
    <3> QED  BY <3>2, <3>4, LineFacts
  <2> QED  BY <1>5, <2>1, <2>2, <2>3 DEF Ecp!ProcessIQR
<1> QED  BY <1>1, <1>2, <1>3, <1>4, <1>5 DEF EcpWorks

-----------------------------------------------------------------------------
(* The invariant.                                                          *)

LEMMA Initially ==
  ASSUME Init
  PROVE  PInv
<1> USE ReportingAssumption
<1>1. EcpType
  BY Names DEF Init, Ecp!Init, EcpType, Sent, Ecp!Labels
<1>2. Acks
  BY Names DEF Init, Ecp!Init, Acks
<1>3. TesType /\ Kept /\ AckedMeansRecorded /\ Accounted
  BY DEF Init, Tes!Init, TesType, Tes!Keys, Kept, AckedMeansRecorded, Accounted
<1> QED  BY <1>1, <1>2, <1>3 DEF PInv

LEMMA KeptMove ==
  ASSUME Kept, TesType, UNCHANGED <<results, hand, phase>>,
         \A i \in Iqrs : Down(i) => Down(i)'
  PROVE  Kept'
<1> USE ReportingAssumption
<1>1. PICK h : h = hand
  OBVIOUS
<1>2. PICK e : e = results[EmptyKey]
  OBVIOUS
<1>3. h \in Iqrs \cup {None} /\ e \in Iqrs \cup {None}
  BY <1>1, <1>2 DEF TesType, Tes!Keys
<1>4. (h # None => Down(h)') /\ (e # None => Down(e)')
  BY <1>1, <1>2, <1>3 DEF Kept
<1>5. hand' = h /\ results'[EmptyKey] = e /\ (phase' # "sending" => hand' = None)
  BY <1>1, <1>2 DEF Kept
<1> QED  BY <1>4, <1>5 DEF Kept

\* A step of the contact server that the topic server does not see: what it
\* was sent it keeps, records or loses.
LEMMA EcpMove ==
  ASSUME PInv, EcpType', Acks', UNCHANGED <<tesVars, graded, toTes>>,
         \A i \in Iqrs : Done(i) => Done(i)',
         \A i \in Iqrs : Down(i) => Down(i)'
  PROVE  PInv'
<1>1. TesType'
  BY DEF PInv, TesType, tesVars, Tes!Keys
<1>2. Kept'
  BY KeptMove DEF PInv, tesVars
<1>3. AckedMeansRecorded'
  <2>1. toTes' = toTes
    OBVIOUS
  <2> QED  BY <2>1 DEF PInv, AckedMeansRecorded
<1>4. Accounted'
  BY DEF PInv, Accounted, TesType, tesVars, Down
<1> QED  BY <1>1, <1>2, <1>3, <1>4 DEF PInv

\* A step of the topic server that the contact server does not see.
LEMMA TesMove ==
  ASSUME PInv, UNCHANGED <<ecpVars, toTes>>,
         toEcp \subseteq toEcp', lost \subseteq lost'
  PROVE  /\ EcpType' /\ Acks' /\ AckedMeansRecorded'
         /\ \A i \in Iqrs : Down(i) => Down(i)'
         /\ \A i \in Iqrs : Done(i)' <=> Done(i)
<1>1. EcpType'
  BY DEF PInv, EcpType, ecpVars
<1>2. Acks' /\ AckedMeansRecorded'
  BY DEF PInv, Acks, Done, InStats, Unwritten, ecpVars, AckedMeansRecorded
<1>3. /\ \A i \in Iqrs : Down(i) => Down(i)'
      /\ \A i \in Iqrs : Done(i)' <=> Done(i)
  BY DEF Down, InEcp, Done, InStats, Unwritten, ecpVars
<1> QED  BY <1>1, <1>2, <1>3

LEMMA GradeKeeps ==
  ASSUME PInv, NEW i \in Iqrs, Grade(i)
  PROVE  PInv'
<1> USE ReportingAssumption
<1>1. /\ UNCHANGED <<ecpVars, toTes, toEcp, hand, phase>> /\ graded' = graded \cup {i}
      /\ results' = Tes!Inserted(i.qid, i)
      /\ lost' = IF results'[i.qid] = i THEN lost ELSE lost \cup {i}
  BY DEF Grade, Tes!Grade
<1>2. /\ EcpType' /\ Acks' /\ AckedMeansRecorded'
      /\ \A j \in Iqrs : Down(j) => Down(j)'
  BY <1>1, TesMove
<1>3. /\ \A k \in Tes!Keys : results[k] # None => results'[k] = results[k]
      /\ results'[EmptyKey] = results[EmptyKey]
      /\ results' \in [Tes!Keys -> Iqrs \cup {None}]
  BY <1>1 DEF Tes!Inserted, Tes!Keys, PInv, TesType
<1>4. TesType'
  BY <1>1, <1>3 DEF PInv, TesType
<1>5. Kept'
  BY <1>1, <1>2, <1>3 DEF PInv, Kept, TesType, Tes!Keys
<1>6. ASSUME NEW j \in graded'
      PROVE  \/ j = hand' \/ \E k \in Qids \cup {EmptyKey} : results'[k] = j
             \/ Down(j)'
  <2>1. CASE j \in graded
    BY <1>1, <1>2, <1>3, <2>1 DEF PInv, Accounted, Down, Tes!Keys, TesType
  <2>2. CASE j = i
    BY <1>1, <2>2 DEF Down
  <2> QED  BY <1>1, <2>1, <2>2
<1>7. Accounted'
  BY <1>6 DEF Accounted, Down
<1> QED  BY <1>2, <1>4, <1>5, <1>7 DEF PInv

LEMMA SendKeeps ==
  ASSUME PInv, NEW i \in Iqrs, Send(i)
  PROVE  PInv'
<1> USE ReportingAssumption
<1>1. /\ UNCHANGED <<ecpVars, toTes, graded>> /\ hand' = i /\ phase' = "sending"
      /\ i \in toEcp' \/ i \in lost'
      /\ toEcp \subseteq toEcp' /\ lost \subseteq lost'
      /\ phase = "idle"
  BY DEF Send, Tes!Send
<1>2. /\ EcpType' /\ Acks' /\ AckedMeansRecorded'
      /\ \A j \in Iqrs : Down(j) => Down(j)'
  BY <1>1, TesMove
<1>3. PICK k \in Tes!Keys : results[k] = i /\ results' = [results EXCEPT ![k] = None]
  BY DEF Send, Tes!Send
<1>4. TesType'
  BY <1>1, <1>3 DEF PInv, TesType
<1>5. Down(i)'
  BY <1>1 DEF Down
<1>6. Kept'
  BY <1>1, <1>2, <1>3, <1>5 DEF PInv, Kept, TesType, Tes!Keys
<1>7. ASSUME NEW j \in graded'
      PROVE  \/ j = hand' \/ \E l \in Qids \cup {EmptyKey} : results'[l] = j
             \/ Down(j)'
  <2>1. j \in graded /\ j \in Iqrs /\ hand = None
    BY <1>1 DEF PInv, Kept, TesType
  <2>2. CASE \E l \in Qids \cup {EmptyKey} : results[l] = j
    BY <1>1, <1>3, <2>2 DEF PInv, TesType, Tes!Keys
  <2>3. CASE Down(j)
    BY <1>2, <2>1, <2>3
  <2> QED  BY <2>1, <2>2, <2>3 DEF PInv, Accounted, Down
<1>8. Accounted'
  BY <1>7 DEF Accounted, Down
<1> QED  BY <1>2, <1>4, <1>6, <1>8 DEF PInv

\* What Store does not keep was sent before.
LEMMA StoreKeeps ==
  ASSUME PInv, Store
  PROVE  PInv'
<1> USE ReportingAssumption
<1>1. /\ UNCHANGED <<ecpVars, toTes, toEcp, lost, graded>> /\ hand' = None
      /\ results' = Tes!Inserted(EmptyKey, hand)
  BY DEF Store, Tes!Store
<1>2. /\ EcpType' /\ Acks' /\ AckedMeansRecorded'
      /\ \A j \in Iqrs : Down(j) => Down(j)'
  BY <1>1, TesMove
<1>3. /\ \A k \in Tes!Keys : results[k] # None => results'[k] = results[k]
      /\ results'[EmptyKey] = IF results[EmptyKey] = None THEN hand ELSE results[EmptyKey]
      /\ results' \in [Tes!Keys -> Iqrs \cup {None}]
  BY <1>1 DEF Tes!Inserted, Tes!Keys, PInv, TesType
<1>4. TesType'
  BY <1>1, <1>3 DEF PInv, TesType
<1>5. Kept'
  BY <1>1, <1>2, <1>3 DEF PInv, Kept, TesType, Tes!Keys
<1>6. ASSUME NEW j \in graded'
      PROVE  \/ j = hand' \/ \E l \in Qids \cup {EmptyKey} : results'[l] = j
             \/ Down(j)'
  <2>1. j \in graded /\ j \in Iqrs
    BY <1>1 DEF PInv, TesType
  <2>2. CASE \E l \in Qids \cup {EmptyKey} : results[l] = j
    BY <1>3, <2>1, <2>2 DEF Tes!Keys
  <2>3. CASE Down(j) \/ j = hand
    BY <1>2, <2>1, <2>3 DEF PInv, Kept
  <2> QED  BY <2>1, <2>2, <2>3 DEF PInv, Accounted, Down
<1>7. Accounted'
  BY <1>6 DEF Accounted, Down
<1> QED  BY <1>2, <1>4, <1>5, <1>7 DEF PInv

LEMMA ProcessAWIKeeps ==
  ASSUME PInv, NEW q \in Qids, ProcessAWI(q)
  PROVE  PInv'
<1> USE ReportingAssumption
<1>1. /\ UNCHANGED <<ecpVars, toTes, toEcp, graded, hand, phase>>
      /\ results' = [results EXCEPT ![q] = None]
      /\ lost' = lost \cup {i \in Iqrs : results[q] = i /\ ~Done(i)}
  BY DEF ProcessAWI, Tes!Acknowledge
<1>2. /\ EcpType' /\ Acks' /\ AckedMeansRecorded'
      /\ \A j \in Iqrs : Down(j) => Down(j)'
      /\ \A j \in Iqrs : Done(j)' <=> Done(j)
  BY <1>1, TesMove
<1>3. TesType'
  BY <1>1 DEF PInv, TesType
<1>4. Kept'
  BY <1>1, <1>2 DEF PInv, Kept, TesType, Tes!Keys
<1>5. ASSUME NEW j \in graded'
      PROVE  \/ j = hand' \/ \E l \in Qids \cup {EmptyKey} : results'[l] = j
             \/ Down(j)'
  <2>1. j \in graded /\ j \in Iqrs
    BY <1>1 DEF PInv, TesType
  <2>2. CASE \E l \in Qids \cup {EmptyKey} : l # q /\ results[l] = j
    BY <1>1, <2>2 DEF PInv, TesType, Tes!Keys
  <2>3. CASE results[q] = j
    BY <1>1, <1>2, <2>1, <2>3 DEF Down
  <2>4. CASE Down(j) \/ j = hand
    BY <1>1, <1>2, <2>1, <2>4
  <2> QED  BY <2>1, <2>2, <2>3, <2>4 DEF PInv, Accounted, Down
<1>6. Accounted'
  BY <1>5 DEF Accounted, Down
<1> QED  BY <1>2, <1>3, <1>4, <1>6 DEF PInv

LEMMA AcceptUDPKeeps ==
  ASSUME PInv, NEW from \in {"ecp", "stranger"}, AcceptUDP(from)
  PROVE  PInv'
<1>1. UNCHANGED <<tesVars, ecpVars, toEcp, toTes, graded, lost>>
  BY DEF AcceptUDP
<1>2. /\ EcpType' /\ Acks'
      /\ \A i \in Iqrs : Done(i)' <=> Done(i)
      /\ \A i \in Iqrs : Down(i) => Down(i)'
  BY <1>1, TesMove
<1> QED  BY <1>1, <1>2, EcpMove

\* A step of the contact server that leaves the network alone.
LEMMA GrowsMove ==
  ASSUME PInv, EcpType', Acks', Grows, UNCHANGED <<tesVars, graded, toTes, lost>>,
         \A i \in Iqrs : i \in toEcp => i \in toEcp' \/ InEcp(i)'
  PROVE  PInv'
<1>1. \A i \in Iqrs : Down(i) => Down(i)'
  BY DEF Down, Grows
<1> QED  BY <1>1, EcpMove DEF Grows

LEMMA DeliverKeeps ==
  ASSUME PInv, NEW i \in Iqrs, Deliver(i)
  PROVE  PInv'
<1>1. /\ UNCHANGED <<tesVars, graded, toTes, lost>>
      /\ Ecp!AcceptReceive("tes", Iqr(i)) /\ Iqr(i) \in Lines
      /\ toEcp' = toEcp \/ toEcp' = toEcp \ {i}
  BY DEF Deliver, Receive, Lines
<1>2. EcpType /\ Acks
  BY DEF PInv
<1>3. EcpType' /\ Acks' /\ Grows /\ InEcp(i)'
  BY <1>1, <1>2, ReceiveMove
<1>4. ASSUME NEW j \in Iqrs, j \in toEcp PROVE j \in toEcp' \/ InEcp(j)'
  BY <1>1, <1>3, <1>4
<1> QED  BY <1>1, <1>3, <1>4, GrowsMove

LEMMA UserAsksKeeps ==
  ASSUME PInv, UserAsks
  PROVE  PInv'
<1>1. /\ UNCHANGED <<tesVars, graded, toTes, toEcp, lost>>
      /\ Ecp!AcceptReceive("user", TQR) /\ TQR \in Lines
  BY DEF UserAsks, Receive, Lines
<1>2. EcpType /\ Acks
  BY DEF PInv
<1>3. EcpType' /\ Acks' /\ Grows
  BY <1>1, <1>2, ReceiveMove
<1> QED  BY <1>1, <1>3, GrowsMove

\* The qid of an AWI that leaves is that of a result that is done with.
LEMMA EcpSendsKeeps ==
  ASSUME PInv, EcpSends
  PROVE  PInv'
<1> DEFINE s == sent'[Len(sent')]
           Now == {i.qid : i \in {j \in Iqrs : s.to = "tes" /\ s.answer = Ecp!AWI(j)}}
<1>1. /\ UNCHANGED <<tesVars, graded, toEcp, lost>> /\ Ecp!SendAnswerSend
      /\ toTes' = toTes \cup Now
  BY DEF EcpSends
<1>2. /\ EcpType /\ Acks
  BY DEF PInv
<1>3. /\ EcpType' /\ Acks' /\ Grows /\ UNCHANGED <<stats, unwritten>>
      /\ \A i \in Iqrs : s.answer = Ecp!AWI(i) => Done(i)
  BY <1>1, <1>2, SendMove
<1>4. \A i \in Iqrs : Down(i) => Down(i)'
  BY <1>1, <1>3 DEF Down, Grows
<1>5. AckedMeansRecorded'
  <2>1. ASSUME NEW q \in toTes' PROVE \E i \in Iqrs : i.qid = q /\ Done(i)'
    <3>1. CASE q \in toTes
      BY <1>3, <3>1 DEF PInv, AckedMeansRecorded, Grows
    <3>2. CASE q \in Now
      <4>1. PICK j \in Iqrs : s.answer = Ecp!AWI(j) /\ q = j.qid
        BY <3>2
      <4> QED  BY <1>3, <4>1 DEF Grows
    <3> QED  BY <1>1, <2>1, <3>1, <3>2
  <2> QED  BY <2>1 DEF AckedMeansRecorded
<1>6. TesType'
  BY <1>1 DEF PInv, TesType, tesVars, Tes!Keys
<1>7. Kept'
  BY <1>1, <1>4, KeptMove DEF PInv, tesVars
<1>8. Accounted'
  BY <1>1, <1>4 DEF PInv, Accounted, TesType, tesVars, Down
<1> QED  BY <1>3, <1>5, <1>6, <1>7, <1>8 DEF PInv

LEMMA EcpWorksKeeps ==
  ASSUME PInv, EcpWorks
  PROVE  PInv'
<1>1. UNCHANGED <<tesVars, graded, toTes, toEcp, lost>>
  BY DEF EcpWorks
<1>2. EcpType /\ Acks
  BY DEF PInv
<1>3. EcpType' /\ Acks' /\ Grows
  BY <1>2, WorksMove
<1> QED  BY <1>1, <1>3, GrowsMove

\* What a restart takes away is lost; what is in the file stays.
LEMMA EcpRestartKeeps ==
  ASSUME PInv, EcpRestart
  PROVE  PInv'
<1>1. /\ UNCHANGED <<tesVars, graded, toTes, toEcp, stats, unwritten>>
      /\ lost' = lost \cup {i \in Iqrs : InEcp(i)}
      /\ queue' = [q \in Ecp!Queues |-> <<>>]
      /\ serverAddr' = None /\ arrived' = <<>> /\ read' = None /\ client' = None
      /\ cur' = [t \in DOMAIN cur |-> None]
      /\ pc' = [t \in Ecp!Threads |-> IF t = "acceptRequests" THEN "bind" ELSE "wait"]
      /\ sent' = <<>>
  BY DEF EcpRestart
<1>2. /\ queue' \in [Ecp!Queues -> Seq(Mail)] /\ queue'["answers"] = <<>>
      /\ pc' \in [Ecp!Threads -> Ecp!Labels] /\ pc'["acceptRequests"] = "bind"
      /\ \A t \in Ecp!Locals : pc'[t] = "wait"
      /\ cur' \in [Ecp!Locals -> Mail \cup {None}]
  BY <1>1, Names DEF PInv, EcpType, Ecp!Labels
<1>3. EcpType'
  BY <1>1, <1>2, Names DEF PInv, EcpType, Sent
<1>4. Acks'
  <2>1. \A n \in 1..Len(queue'["answers"]), i \in Iqrs :
          queue'["answers"][n].answer = Ecp!AWI(i) => Done(i)
    BY <1>2
  <2>2. \A t \in Ecp!Locals : pc'[t] \notin {"push", "address", "send"}
    BY <1>2
  <2> QED  BY <1>1, <2>1, <2>2 DEF Acks, Done, InStats, Unwritten, Ecp!AWI
<1>5. /\ \A i \in Iqrs : Done(i) => Done(i)'
      /\ \A i \in Iqrs : Down(i) => Down(i)'
  BY <1>1 DEF Done, InStats, Unwritten, Down
<1> QED  BY <1>1, <1>3, <1>4, <1>5, EcpMove

\* One step per action.
LEMMA StepKeeps ==
  ASSUME PInv, [Next]_vars
  PROVE  PInv'
<1>1. CASE \E i \in Iqrs : Grade(i) \/ Send(i) \/ Deliver(i)
  BY <1>1, GradeKeeps, SendKeeps, DeliverKeeps
<1>2. CASE \E q \in Qids : ProcessAWI(q)
  BY <1>2, ProcessAWIKeeps
<1>3. CASE \E from \in {"ecp", "stranger"} : AcceptUDP(from)
  BY <1>3, AcceptUDPKeeps
<1>4. CASE Store
  BY <1>4, StoreKeeps
<1>5. CASE UserAsks
  BY <1>5, UserAsksKeeps
<1>6. CASE EcpSends
  BY <1>6, EcpSendsKeeps
<1>7. CASE EcpWorks
  BY <1>7, EcpWorksKeeps
<1>8. CASE EcpRestart
  BY <1>8, EcpRestartKeeps
<1>9. CASE UNCHANGED vars
  <2>1. UNCHANGED <<tesVars, ecpVars, toEcp, toTes, graded, lost>>
    BY <1>9 DEF vars
  <2>2. /\ EcpType' /\ Acks'
        /\ \A i \in Iqrs : Done(i)' <=> Done(i)
        /\ \A i \in Iqrs : Down(i) => Down(i)'
    BY <2>1, TesMove
  <2> QED  BY <2>1, <2>2, EcpMove
<1> QED
  BY <1>1, <1>2, <1>3, <1>4, <1>5, <1>6, <1>7, <1>8, <1>9 DEF Next

\* Both properties, with what they need, hold in every reachable state.
THEOREM ReportingInductive == Spec => []PInv
<1>1. Init => PInv
  BY Initially
<1>2. PInv /\ [Next]_vars => PInv'
  BY StepKeeps
<1> QED  BY <1>1, <1>2, PTL DEF Spec

\* processAWI forgets a questionnaire only when a result of it is in stats.txt or
\* failed to be written there, for any number of scores, datagrams and restarts.
THEOREM AckedMeansRecordedAlways == Spec => []AckedMeansRecorded
<1>1. PInv => AckedMeansRecorded
  BY DEF PInv
<1> QED  BY <1>1, ReportingInductive, PTL

\* A score that was given is kept, on its way, in stats.txt, not written there or
\* lost in one of the ways Reporting names: no other step of the two servers
\* loses one.
THEOREM AccountedAlways == Spec => []Accounted
<1>1. PInv => Accounted
  BY DEF PInv
<1> QED  BY <1>1, ReportingInductive, PTL
=============================================================================
