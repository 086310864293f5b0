------------------------------ MODULE Reporting ------------------------------
(***************************************************************************)
(* The way of a score from the topic server, where it was given, to        *)
(* stats.txt, and of its acknowledgement back: a Reporter, which           *)
(* TesManager implements, and the whole EcpManager, joined by a network    *)
(* that loses, repeats and reorders datagrams, with a user who asks the    *)
(* contact server meanwhile, a third party who sends to the topic server's *)
(* port, and a contact server that is started again.                       *)
(* Nobody has to do anything: a datagram that is lost is one that is never *)
(* received, and a topic server that stops is one that does no more.       *)
(*                                                                         *)
(*   Reporter --IQR--> acceptRequests .. processIQR --> stats.txt          *)
(*      ^                                   sendAnswer --AWI--+            *)
(*      +------ processAWI <-- acceptUDP <--------------------+            *)
(***************************************************************************)
EXTENDS Integers, Sequences, FiniteSets

CONSTANTS
  Iqrs,          \* the scores that are reported, records with a field qid
  Qids,          \* the names of the questionnaires
  MaxDatagrams,  \* bound of the datagrams the contact server receives
  MaxRestarts,   \* bound of its restarts
  EmptyKey,      \* the empty string, as a key of the topic server's map
  None           \* no value

ASSUME ReportingAssumption ==
  /\ \A i \in Iqrs : i.qid \in Qids
  /\ EmptyKey \notin Qids /\ None \notin Iqrs
  /\ MaxDatagrams \in Nat /\ MaxRestarts \in Nat

VARIABLES
  results, due, hand, phase,            \* of Reporter
  serverAddr, arrived, read, client, queue, sem, cur, pc, stats, unwritten, sent,
                                        \* of EcpManager
  peer,       \* the topic server's _socketUDP._serverAddr
  toEcp,      \* the IQRs on their way
  toTes,      \* the qids of the AWIs sent to the topic server
  received,   \* the datagrams the contact server has received
  restarts,   \* how often it was started again
  graded,     \* history: the submissions that got a score
  lost        \* history: the scores lost by one of the ways named below

tesVars  == <<results, due, hand, phase>>
ecpVars  == <<serverAddr, arrived, read, client, queue, sem, cur, pc, stats,
              unwritten, sent>>
vars == <<tesVars, ecpVars, peer, toEcp, toTes, received, restarts, graded, lost>>

Iqr(i) == [kind |-> "IQR", result |-> i]
TQR    == [kind |-> "TQR"]

Tes == INSTANCE Reporter
Ecp == INSTANCE EcpManager WITH
  Peers <- {"tes", "user"}, Lines <- {TQR} \cup {Iqr(i) : i \in Iqrs},
  Results <- Iqrs, Topics <- 1, MayFail <- FALSE

Init ==
  /\ Tes!Init /\ Ecp!Init
  /\ peer = "ecp"
  /\ toEcp = {} /\ toTes = {}
  /\ received = 0 /\ restarts = 0 /\ graded = {} /\ lost = {}

-----------------------------------------------------------------------------
(* The topic server.                                                       *)

\* A questionnaire whose name was used twice: the second score is dropped.
Grade(i) ==
  /\ i \notin graded
  /\ Tes!Grade(i)
  /\ graded' = graded \cup {i}
  /\ lost' = IF results'[i.qid] = i THEN lost ELSE lost \cup {i}
  /\ UNCHANGED <<ecpVars, peer, toEcp, toTes, received, restarts>>

\* The datagram goes to whoever the socket last received from.
Send(i) ==
  /\ Tes!Send(i)
  /\ IF peer = "ecp" THEN toEcp' = toEcp \cup {i} /\ UNCHANGED lost
                     ELSE lost' = lost \cup {i} /\ UNCHANGED toEcp
  /\ UNCHANGED <<ecpVars, peer, toTes, received, restarts, graded>>

Store ==
  /\ Tes!Store /\ phase' = "idle"
  /\ UNCHANGED <<ecpVars, peer, toEcp, toTes, received, restarts, graded, lost>>

\* recvfrom() makes the sender the peer, before anything is done with the line.
\* The port exists once something was sent from it.
AcceptUDP(from) ==
  /\ CASE from = "ecp"      -> toTes # {}
       [] from = "stranger" -> due < Cardinality(graded)
  /\ peer' = from
  /\ UNCHANGED <<tesVars, ecpVars, toEcp, toTes, received, restarts, graded, lost>>

InStats(i) == \E n \in 1..Len(stats) : stats[n] = i

\* processIQR wrote the score, or it failed to.
Unwritten(i) == \E n \in 1..Len(unwritten) : unwritten[n] = i
Done(i)      == InStats(i) \/ Unwritten(i)

\* processAWI: what waits under the qid is forgotten, recorded or not.  By then
\* the socket may have received from anybody.
ProcessAWI(q) ==
  /\ q \in toTes
  /\ Tes!Acknowledge(q)
  /\ lost' = lost \cup {i \in Iqrs : results[q] = i /\ ~Done(i)}
  /\ UNCHANGED <<ecpVars, peer, toEcp, toTes, received, restarts, graded>>

-----------------------------------------------------------------------------
(* The network.                                                            *)

Receive(from, l) ==
  /\ received < MaxDatagrams
  /\ received' = received + 1
  /\ Ecp!AcceptReceive(from, l)

\* A datagram is received in any order, or again.
Deliver(i) ==
  /\ i \in toEcp
  /\ Receive("tes", Iqr(i))
  /\ toEcp' \in {toEcp, toEcp \ {i}}
  /\ UNCHANGED <<tesVars, peer, toTes, restarts, graded, lost>>

-----------------------------------------------------------------------------
(* The contact server.                                                     *)

UserAsks ==
  /\ Receive("user", TQR)
  /\ UNCHANGED <<tesVars, peer, toEcp, toTes, restarts, graded, lost>>

\* sendto() reaches the topic server when the socket has its address by then.
EcpSends ==
  LET s == sent'[Len(sent')] IN
  /\ Ecp!SendAnswerSend
  /\ toTes' = toTes \cup
       {i.qid : i \in {j \in Iqrs : s.to = "tes" /\ s.answer = Ecp!AWI(j)}}
  /\ UNCHANGED <<tesVars, peer, toEcp, received, restarts, graded, lost>>

EcpWorks ==
  /\ \/ Ecp!AcceptBind \/ Ecp!AcceptClient \/ Ecp!AcceptPush \/ Ecp!AcceptPost
     \/ Ecp!ProcessTQR \/ Ecp!ProcessIQR
     \/ Ecp!SendAnswerWait \/ Ecp!SendAnswerPop \/ Ecp!SendAnswerAddress
  /\ UNCHANGED <<tesVars, peer, toEcp, toTes, received, restarts, graded, lost>>

\* A score the contact server has received and not yet looked at.
InEcp(i) ==
  \/ pc["acceptRequests"] \in {"client", "push"} /\ read = Iqr(i)
  \/ \E n \in 1..Len(queue["iqrRequests"]) : queue["iqrRequests"][n].message = Iqr(i)

\* The process ends and another is started: it has the file and nothing else.
EcpRestart ==
  /\ restarts < MaxRestarts
  /\ restarts' = restarts + 1
  /\ lost' = lost \cup {i \in Iqrs : InEcp(i)}
  /\ serverAddr' = None /\ arrived' = <<>> /\ read' = None /\ client' = None
  /\ queue' = [q \in Ecp!Queues |-> <<>>] /\ sem' = [q \in Ecp!Queues |-> 0]
  /\ cur' = [t \in DOMAIN cur |-> None]
  /\ pc' = [t \in Ecp!Threads |-> IF t = "acceptRequests" THEN "bind" ELSE "wait"]
  /\ sent' = <<>>
  /\ UNCHANGED <<tesVars, peer, stats, unwritten, toEcp, toTes, received, graded>>

-----------------------------------------------------------------------------
Next ==
  \/ \E i \in Iqrs : Grade(i) \/ Send(i) \/ Deliver(i)
  \/ \E q \in Qids : ProcessAWI(q)
  \/ \E from \in {"ecp", "stranger"} : AcceptUDP(from)
  \/ Store
  \/ UserAsks \/ EcpSends \/ EcpWorks \/ EcpRestart

Spec == Init /\ [][Next]_vars

-----------------------------------------------------------------------------
(* Properties.                                                             *)

\* The topic server only ever forgets, on an AWI, a questionnaire of which a
\* result is in stats.txt or could not be written there: whatever the network
\* loses, repeats or delays, whichever address an answer goes to and however
\* often the contact server is started again, the only acknowledgements of
\* nothing are those of a write that failed unseen.
AckedMeansRecorded == \A q \in toTes : \E i \in Iqrs : i.qid = q /\ Done(i)

\* A score is lost only by the network, by a restart of the contact server, by
\* a write of stats.txt that fails unseen, by a third party that turned the
\* topic server's socket to itself, or by a qid used twice: until then it waits
\* in the topic server, travels, waits in the contact server or is in stats.txt.
Accounted ==
  \A i \in graded :
    \/ i = hand \/ \E k \in Qids \cup {EmptyKey} : results[k] = i
    \/ i \in toEcp \/ InEcp(i) \/ Done(i) \/ i \in lost
=============================================================================
