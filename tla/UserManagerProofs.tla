-------------------------- MODULE UserManagerProofs --------------------------
(* Proofs about UserManager, for every value of its constants.             *)
EXTENDS UserManager, TLAPS

-----------------------------------------------------------------------------
(* The inductive invariant.                                                *)

\* The labels at which a command is under way, with what it has by then: a
\* question, a server, a questionnaire to hand in, connections left to make.
CallOK ==
  /\ pc \in {"send", "receive"} => question \in Questions
  /\ pc = "send" => tries < Tries
  /\ pc \in {"connect", "aqt"} => question \in Topics
  /\ pc = "connect" => host \in Servers
  /\ pc = "aqt" => tes \in Servers
  /\ pc = "aqs" => qid # None
  /\ pc \in {"send", "receive", "connect"} => sock < MaxSocks
  /\ qid # None => tes \in Servers

\* What was sent on the socket of a call is what the call asks, and a connection
\* is used by one call only: what came back on it belongs to that call.
SocketsOK ==
  /\ \A l \in lines : l.sock <= sock
  /\ \A a \in answers : a.sock <= sock
  /\ \A l, m \in lines : l.sock = m.sock => l = m
  /\ \A l \in lines, a \in answers : l.sock # a.sock
  /\ pc \in {"send", "receive"} => asked \subseteq {question}

\* A line that hands in a questionnaire is the one of this call, or of a call
\* that heard no score.
HandedIn ==
  \A l \in lines :
    l.kind = "RQS" =>
      \/ pc \in {"aqs", "spin"} /\ l.sock = sock
      \/ <<l.server, l.qid>> \in unscored

\* The submission under way is that of the questionnaire at hand.
SubmissionOK ==
  pc = "aqs" =>
    /\ \A l \in lines : l.sock = sock => l.kind = "RQS" /\ l.server = tes /\ l.qid = qid
    /\ \A a \in answers : a.sock = sock /\ a.kind = "AQS" /\ a.mark = 1 => <<tes, qid>> \in graded

Waits(s, q) == quizzes[s][q] # None \/ <<s, q>> \in unscored \cup mislaid

\* A questionnaire its server has not taken out waits there, from the moment it
\* is issued, unless a submission of it came back without a score or others lost
\* it.
WaitsOK ==
  /\ pc = "aqt" =>
       \A l \in lines : l.sock = sock => l.kind = "RQT" /\ l.server = tes
  /\ pc = "aqt" =>
       \A a \in answers : a.sock = sock /\ a.kind = "AQT" => Waits(tes, a.qid)
  /\ qid # None /\ ~unsettled /\ pc \notin {"aqs", "spin"} => Waits(tes, qid)
  /\ qid # None /\ ~unsettled /\ pc = "aqs" =>
       \A l \in lines : l.sock = sock => Waits(tes, qid)

\* The file numbers since the questionnaire at hand was stored: they run on
\* from its number, starting again at 1 after the last.
FilesOK ==
  qid # None /\ opened < LastCounter =>
    /\ pdf \in [name : PdfNames, from : Socks] /\ counter > 0
    /\ \/ counter = pdf.name[2] + opened
       \/ counter = pdf.name[2] + opened - LastCounter
    /\ file[pdf.name] = pdf.from

UInv ==
  /\ TypeOK /\ CallOK /\ SocketsOK /\ HandedIn /\ SubmissionOK /\ WaitsOK
  /\ FilesOK /\ AnswerToThisCall /\ SubmitsToIssuer /\ InvalidOnlyAfterLoss


-----------------------------------------------------------------------------
(* The student's steps that neither make a connection nor store a file.    *)

\* The clock of the topic servers.
LEMMA TickStep ==
  ASSUME UInv, Tick
  PROVE  UInv'
<1>1. TypeOK' /\ CallOK'
  BY UserAssumption DEF UInv, TypeOK, CallOK, Tick, session, disk, remote, Time, Socks, Questions, PdfNames, Labels
<1>2. SocketsOK' /\ HandedIn' /\ SubmissionOK' /\ WaitsOK'
  BY DEF UInv, SocketsOK, HandedIn, SubmissionOK, WaitsOK, Waits, Tick, session, disk, remote, Time, Socks, Questions, PdfNames, Labels
<1>3. FilesOK' /\ AnswerToThisCall' /\ SubmitsToIssuer' /\ InvalidOnlyAfterLoss'
  BY DEF UInv, FilesOK, AnswerToThisCall, SubmitsToIssuer, InvalidOnlyAfterLoss,
         Tick, session, disk, remote, Time, Socks, Questions, PdfNames, Labels
<1> QED  BY <1>1, <1>2, <1>3 DEF UInv

\* The program ends.
LEMMA LeaveStep ==
  ASSUME UInv, SubmitRefused \/ Exit \/ ConnectReset \/ ReceiveTooLong
  PROVE  UInv'
<1>1. CASE SubmitRefused
  <2>1. TypeOK' /\ CallOK'
    BY <1>1, UserAssumption DEF UInv, TypeOK, CallOK, SubmitRefused, TesAfter, session, disk, remote, Time, Socks, Questions, PdfNames, Labels
  <2>2. SocketsOK' /\ HandedIn' /\ SubmissionOK' /\ WaitsOK'
    BY <1>1 DEF UInv, TypeOK, CallOK, SocketsOK, HandedIn, SubmissionOK, WaitsOK, Waits, SubmitRefused, TesAfter, session, disk, remote, Time, Socks, Questions, PdfNames, Labels
  <2>3. FilesOK' /\ AnswerToThisCall' /\ SubmitsToIssuer' /\ InvalidOnlyAfterLoss'
    BY <1>1 DEF UInv, TypeOK, SocketsOK, CallOK, FilesOK, AnswerToThisCall, SubmitsToIssuer,
           InvalidOnlyAfterLoss, SubmitRefused, TesAfter, session, disk, remote, Time, Socks, Questions, PdfNames, Labels
  <2> QED  BY <2>1, <2>2, <2>3 DEF UInv
<1>2. CASE Exit
  <2>1. TypeOK' /\ CallOK'
    BY <1>2, UserAssumption DEF UInv, TypeOK, CallOK, Exit, TesAfter, session, disk, remote, Time, Socks, Questions, PdfNames, Labels
  <2>2. SocketsOK' /\ HandedIn' /\ SubmissionOK' /\ WaitsOK'
    BY <1>2 DEF UInv, TypeOK, CallOK, SocketsOK, HandedIn, SubmissionOK, WaitsOK, Waits, Exit, TesAfter, session, disk, remote, Time, Socks, Questions, PdfNames, Labels
  <2>3. FilesOK' /\ AnswerToThisCall' /\ SubmitsToIssuer' /\ InvalidOnlyAfterLoss'
    BY <1>2 DEF UInv, TypeOK, SocketsOK, CallOK, FilesOK, AnswerToThisCall, SubmitsToIssuer,
           InvalidOnlyAfterLoss, Exit, TesAfter, session, disk, remote, Time, Socks, Questions, PdfNames, Labels
  <2> QED  BY <2>1, <2>2, <2>3 DEF UInv
<1>3. CASE ConnectReset
  <2>1. TypeOK' /\ CallOK'
    BY <1>3, UserAssumption DEF UInv, TypeOK, CallOK, ConnectReset, TesAfter, session, disk, remote, Time, Socks, Questions, PdfNames, Labels
  <2>2. SocketsOK' /\ HandedIn' /\ SubmissionOK' /\ WaitsOK'
    BY <1>3 DEF UInv, TypeOK, CallOK, SocketsOK, HandedIn, SubmissionOK, WaitsOK, Waits, ConnectReset, TesAfter, session, disk, remote, Time, Socks, Questions, PdfNames, Labels
  <2>3. FilesOK' /\ AnswerToThisCall' /\ SubmitsToIssuer' /\ InvalidOnlyAfterLoss'
    BY <1>3 DEF UInv, TypeOK, SocketsOK, CallOK, FilesOK, AnswerToThisCall, SubmitsToIssuer,
           InvalidOnlyAfterLoss, ConnectReset, TesAfter, session, disk, remote, Time, Socks, Questions, PdfNames, Labels
  <2> QED  BY <2>1, <2>2, <2>3 DEF UInv
<1>4. CASE ReceiveTooLong
  <2>1. TypeOK' /\ CallOK'
    BY <1>4, UserAssumption DEF UInv, TypeOK, CallOK, ReceiveTooLong, TesAfter, session, disk, remote, Time, Socks, Questions, PdfNames, Labels
  <2>2. SocketsOK' /\ HandedIn' /\ SubmissionOK' /\ WaitsOK'
    BY <1>4 DEF UInv, TypeOK, CallOK, SocketsOK, HandedIn, SubmissionOK, WaitsOK, Waits, ReceiveTooLong, TesAfter, session, disk, remote, Time, Socks, Questions, PdfNames, Labels
  <2>3. FilesOK' /\ AnswerToThisCall' /\ SubmitsToIssuer' /\ InvalidOnlyAfterLoss'
    BY <1>4 DEF UInv, TypeOK, SocketsOK, CallOK, FilesOK, AnswerToThisCall, SubmitsToIssuer,
           InvalidOnlyAfterLoss, ReceiveTooLong, TesAfter, session, disk, remote, Time, Socks, Questions, PdfNames, Labels
  <2> QED  BY <2>1, <2>2, <2>3 DEF UInv
<1> QED  BY <1>1, <1>2, <1>3, <1>4

\* The locals of a command that is over.
LEMMA ReturnFacts ==
  ASSUME UInv, Return
  PROVE  /\ pc' = "menu" /\ pc' \in Labels /\ sock' \in Socks /\ asked' \subseteq Questions
         /\ question' \in Questions \cup {None} /\ tries' \in 0..Tries
         /\ host' \in Servers \cup {None} /\ astray' \in BOOLEAN
<1>1. sock \in Socks /\ asked \subseteq Questions /\ 0 \in 0..Tries
  BY UserAssumption DEF UInv, TypeOK
<1> QED  BY <1>1 DEF Return, Labels

\* Asking the contact server.
LEMMA AskStep ==
  ASSUME UInv,
         Send \/ TryAgain \/ GiveUp
           \/ ReceiveServer \/ ReceiveAstray \/ ReceiveList \/ ReceiveOther
  PROVE  UInv'
<1>1. CASE Send
  <2>1. TypeOK' /\ CallOK'
    BY <1>1, UserAssumption DEF UInv, TypeOK, CallOK, Send, NextTry, session, disk, remote, Time, Socks, Questions, PdfNames, Labels
  <2>2. SocketsOK' /\ HandedIn' /\ SubmissionOK' /\ WaitsOK'
    BY <1>1 DEF UInv, TypeOK, CallOK, SocketsOK, HandedIn, SubmissionOK, WaitsOK, Waits, Send, NextTry, session, disk, remote, Time, Socks, Questions, PdfNames, Labels
  <2>3. FilesOK' /\ AnswerToThisCall' /\ SubmitsToIssuer' /\ InvalidOnlyAfterLoss'
    BY <1>1 DEF UInv, TypeOK, SocketsOK, CallOK, FilesOK, AnswerToThisCall, SubmitsToIssuer,
           InvalidOnlyAfterLoss, Send, NextTry, session, disk, remote, Time, Socks, Questions, PdfNames, Labels
  <2> QED  BY <2>1, <2>2, <2>3 DEF UInv
<1>2. CASE TryAgain
  <2>1. TypeOK' /\ CallOK'
    BY <1>2, UserAssumption DEF UInv, TypeOK, CallOK, TryAgain, MoreTries, session, disk, remote, Time, Socks, Questions, PdfNames, Labels
  <2>2. SocketsOK' /\ HandedIn' /\ SubmissionOK' /\ WaitsOK'
    BY <1>2 DEF UInv, TypeOK, CallOK, SocketsOK, HandedIn, SubmissionOK, WaitsOK, Waits, TryAgain, MoreTries, session, disk, remote, Time, Socks, Questions, PdfNames, Labels
  <2>3. FilesOK' /\ AnswerToThisCall' /\ SubmitsToIssuer' /\ InvalidOnlyAfterLoss'
    BY <1>2 DEF UInv, TypeOK, SocketsOK, CallOK, FilesOK, AnswerToThisCall, SubmitsToIssuer,
           InvalidOnlyAfterLoss, TryAgain, MoreTries, session, disk, remote, Time, Socks, Questions, PdfNames, Labels
  <2> QED  BY <2>1, <2>2, <2>3 DEF UInv
<1>3. CASE GiveUp
  <2>1. TypeOK' /\ CallOK'
    BY <1>3, ReturnFacts DEF UInv, TypeOK, CallOK, GiveUp, MoreTries, session, disk, remote
  <2>2. SocketsOK' /\ HandedIn' /\ SubmissionOK' /\ WaitsOK'
    BY <1>3 DEF UInv, TypeOK, CallOK, SocketsOK, HandedIn, SubmissionOK, WaitsOK, Waits, GiveUp, MoreTries, Return, session, disk, remote, Time, Socks, Questions, PdfNames, Labels
  <2>3. FilesOK' /\ AnswerToThisCall' /\ SubmitsToIssuer' /\ InvalidOnlyAfterLoss'
    BY <1>3 DEF UInv, TypeOK, SocketsOK, CallOK, FilesOK, AnswerToThisCall, SubmitsToIssuer,
           InvalidOnlyAfterLoss, GiveUp, MoreTries, Return, session, disk, remote, Time, Socks, Questions, PdfNames, Labels
  <2> QED  BY <2>1, <2>2, <2>3 DEF UInv
<1>4. CASE ReceiveServer
  <2>1. TypeOK' /\ CallOK'
    <3>1. PICK t \in Topics : Directory[t] # None /\ Received(Directory[t]) /\ astray' = FALSE
      BY <1>4 DEF ReceiveServer
    <3>2. Directory[t] \in Servers /\ 0 \in 0..Tries /\ "connect" \in Labels
      BY <3>1, UserAssumption DEF Labels
    <3> QED  BY <3>1, <3>2 DEF UInv, TypeOK, CallOK, Received, session, disk, remote
  <2>2. SocketsOK' /\ HandedIn' /\ SubmissionOK' /\ WaitsOK'
    BY <1>4 DEF UInv, TypeOK, CallOK, SocketsOK, HandedIn, SubmissionOK, WaitsOK, Waits, ReceiveServer, Received, session, disk, remote, Time, Socks, Questions, PdfNames, Labels
  <2>3. FilesOK' /\ AnswerToThisCall' /\ SubmitsToIssuer' /\ InvalidOnlyAfterLoss'
    BY <1>4 DEF UInv, TypeOK, SocketsOK, CallOK, FilesOK, AnswerToThisCall, SubmitsToIssuer,
           InvalidOnlyAfterLoss, ReceiveServer, Received, session, disk, remote, Time, Socks, Questions, PdfNames, Labels
  <2> QED  BY <2>1, <2>2, <2>3 DEF UInv
<1>5. CASE ReceiveOther
  <2>1. TypeOK' /\ CallOK'
    BY <1>5, ReturnFacts DEF UInv, TypeOK, CallOK, ReceiveOther, session, disk, remote
  <2>2. SocketsOK' /\ HandedIn' /\ SubmissionOK' /\ WaitsOK'
    BY <1>5 DEF UInv, TypeOK, CallOK, SocketsOK, HandedIn, SubmissionOK, WaitsOK, Waits, ReceiveOther, Return, session, disk, remote, Time, Socks, Questions, PdfNames, Labels
  <2>3. FilesOK' /\ AnswerToThisCall' /\ SubmitsToIssuer' /\ InvalidOnlyAfterLoss'
    BY <1>5 DEF UInv, TypeOK, SocketsOK, CallOK, FilesOK, AnswerToThisCall, SubmitsToIssuer,
           InvalidOnlyAfterLoss, ReceiveOther, Return, session, disk, remote, Time, Socks, Questions, PdfNames, Labels
  <2> QED  BY <2>1, <2>2, <2>3 DEF UInv
<1>6. CASE ReceiveAstray
  <2>1. TypeOK' /\ CallOK'
    BY <1>6, UserAssumption DEF UInv, TypeOK, CallOK, ReceiveAstray, Received, session, disk, remote, Time, Socks, Questions, PdfNames, Labels
  <2>2. SocketsOK' /\ HandedIn' /\ SubmissionOK' /\ WaitsOK'
    BY <1>6 DEF UInv, TypeOK, CallOK, SocketsOK, HandedIn, SubmissionOK, WaitsOK, Waits, ReceiveAstray, Received, session, disk, remote, Time, Socks, Questions, PdfNames, Labels
  <2>3. FilesOK' /\ AnswerToThisCall' /\ SubmitsToIssuer' /\ InvalidOnlyAfterLoss'
    BY <1>6 DEF UInv, TypeOK, SocketsOK, CallOK, FilesOK, AnswerToThisCall, SubmitsToIssuer,
           InvalidOnlyAfterLoss, ReceiveAstray, Received, session, disk, remote, Time, Socks, Questions, PdfNames, Labels
  <2> QED  BY <2>1, <2>2, <2>3 DEF UInv
<1>7. CASE ReceiveList
  <2>1. TypeOK' /\ CallOK'
    BY <1>7, ReturnFacts DEF UInv, TypeOK, CallOK, ReceiveList, session, disk, remote
  <2>2. SocketsOK' /\ HandedIn' /\ SubmissionOK' /\ WaitsOK'
    BY <1>7 DEF UInv, TypeOK, CallOK, SocketsOK, HandedIn, SubmissionOK, WaitsOK, Waits, ReceiveList, Return, session, disk, remote, Time, Socks, Questions, PdfNames, Labels
  <2>3. FilesOK' /\ AnswerToThisCall' /\ SubmitsToIssuer' /\ InvalidOnlyAfterLoss'
    BY <1>7 DEF UInv, TypeOK, SocketsOK, CallOK, FilesOK, AnswerToThisCall, SubmitsToIssuer,
           InvalidOnlyAfterLoss, ReceiveList, Return, session, disk, remote, Time, Socks, Questions, PdfNames, Labels
  <2> QED  BY <2>1, <2>2, <2>3 DEF UInv
<1> QED  BY <1>1, <1>2, <1>3, <1>4, <1>5, <1>6, <1>7

\* No connection, no questionnaire, no end of the stream.
LEMMA FailStep ==
  ASSUME UInv, ConnectFails \/ ReadAQTFails \/ ReadSpin
  PROVE  UInv'
<1>1. CASE ConnectFails
  <2>1. TypeOK' /\ CallOK'
    BY <1>1, ReturnFacts DEF UInv, TypeOK, CallOK, ConnectFails, TesAfter, session, disk, remote
  <2>2. SocketsOK' /\ HandedIn' /\ SubmissionOK' /\ WaitsOK'
    BY <1>1 DEF UInv, TypeOK, CallOK, SocketsOK, HandedIn, SubmissionOK, WaitsOK, Waits, ConnectFails, TesAfter, Return, session, disk, remote, Time, Socks, Questions, PdfNames, Labels
  <2>3. FilesOK' /\ AnswerToThisCall' /\ SubmitsToIssuer' /\ InvalidOnlyAfterLoss'
    BY <1>1 DEF UInv, TypeOK, SocketsOK, CallOK, FilesOK, AnswerToThisCall, SubmitsToIssuer,
           InvalidOnlyAfterLoss, ConnectFails, TesAfter, Return, session, disk, remote, Time, Socks, Questions, PdfNames, Labels
  <2> QED  BY <2>1, <2>2, <2>3 DEF UInv
<1>2. CASE ReadAQTFails
  <2>1. TypeOK' /\ CallOK'
    BY <1>2, ReturnFacts DEF UInv, TypeOK, CallOK, ReadAQTFails, TesAfter, session, disk, remote
  <2>2. SocketsOK' /\ HandedIn' /\ SubmissionOK' /\ WaitsOK'
    BY <1>2 DEF UInv, TypeOK, CallOK, SocketsOK, HandedIn, SubmissionOK, WaitsOK, Waits, ReadAQTFails, TesAfter, Return, session, disk, remote, Time, Socks, Questions, PdfNames, Labels
  <2>3. FilesOK' /\ AnswerToThisCall' /\ SubmitsToIssuer' /\ InvalidOnlyAfterLoss'
    BY <1>2 DEF UInv, TypeOK, SocketsOK, CallOK, FilesOK, AnswerToThisCall, SubmitsToIssuer,
           InvalidOnlyAfterLoss, ReadAQTFails, TesAfter, Return, session, disk, remote, Time, Socks, Questions, PdfNames, Labels
  <2> QED  BY <2>1, <2>2, <2>3 DEF UInv
<1>3. CASE ReadSpin
  <2>1. TypeOK' /\ CallOK'
    BY <1>3, UserAssumption DEF UInv, TypeOK, CallOK, ReadSpin, TesAfter, Return, session, disk, remote, Time, Socks, Questions, PdfNames, Labels
  <2>2. SocketsOK' /\ HandedIn' /\ SubmissionOK' /\ WaitsOK'
    BY <1>3 DEF UInv, TypeOK, CallOK, SocketsOK, HandedIn, SubmissionOK, WaitsOK, Waits, ReadSpin, TesAfter, Return, session, disk, remote, Time, Socks, Questions, PdfNames, Labels
  <2>3. FilesOK' /\ AnswerToThisCall' /\ SubmitsToIssuer' /\ InvalidOnlyAfterLoss'
    BY <1>3 DEF UInv, TypeOK, SocketsOK, CallOK, FilesOK, AnswerToThisCall, SubmitsToIssuer,
           InvalidOnlyAfterLoss, ReadSpin, TesAfter, Return, session, disk, remote, Time, Socks, Questions, PdfNames, Labels
  <2> QED  BY <2>1, <2>2, <2>3 DEF UInv
<1> QED  BY <1>1, <1>2, <1>3

-----------------------------------------------------------------------------
(* The steps that make a connection: nothing was sent on it or came on it. *)

LEMMA Fresh ==
  ASSUME UInv
  PROVE  /\ sock \in Nat
         /\ \A l \in lines : l.sock \in Nat /\ l.sock <= sock /\ l.sock # sock + 1
         /\ \A a \in answers : a.sock \in Nat /\ a.sock <= sock /\ a.sock # sock + 1
<1>1. sock \in Nat
  BY UserAssumption DEF UInv, TypeOK, Socks
<1>2. \A l \in lines : l.sock \in Nat
  BY UserAssumption DEF UInv, TypeOK, Line, Socks
<1>3. \A a \in answers : a.sock \in Nat
  BY UserAssumption DEF UInv, TypeOK, Answer, Socks
<1> QED  BY <1>1, <1>2, <1>3 DEF UInv, SocketsOK

LEMMA OpenStep ==
  ASSUME UInv, NEW q \in Questions, Open(q)
  PROVE  UInv'
<1>1. TypeOK' /\ CallOK'
  BY UserAssumption DEF UInv, TypeOK, CallOK, Open, NewSocket, session, disk, remote, Time, Socks, Questions, PdfNames, Labels
<1>2. SocketsOK'
  BY DEF UInv, SocketsOK, Open, NewSocket, remote
<1>3. HandedIn' /\ SubmissionOK' /\ WaitsOK'
  BY DEF UInv, HandedIn, SubmissionOK, WaitsOK, Waits, Open, session, remote
<1>4. FilesOK' /\ AnswerToThisCall' /\ SubmitsToIssuer' /\ InvalidOnlyAfterLoss'
  BY DEF UInv, FilesOK, AnswerToThisCall, SubmitsToIssuer, InvalidOnlyAfterLoss, Open,
         session, disk, remote
<1> QED  BY <1>1, <1>2, <1>3, <1>4 DEF UInv

\* A line put on a new connection leaves every connection to one call.
LEMMA NewLine ==
  ASSUME UInv, NEW l, l.sock = sock + 1, sock' = sock + 1, lines' = lines \cup {l},
         UNCHANGED answers, pc' \notin {"send", "receive"}
  PROVE  SocketsOK'
<1>1. /\ \A m \in lines : m.sock <= sock + 1 /\ m.sock # sock + 1
      /\ \A a \in answers : a.sock <= sock + 1 /\ a.sock # sock + 1
      /\ sock + 1 <= sock + 1
  BY Fresh
<1>2. \A m, n \in lines' : m.sock = n.sock => m = n
  BY <1>1 DEF UInv, SocketsOK
<1>3. \A m \in lines', a \in answers' : m.sock # a.sock
  BY <1>1 DEF UInv, SocketsOK
<1> QED  BY <1>1, <1>2, <1>3 DEF SocketsOK

LEMMA SubmitStep ==
  ASSUME UInv, Submit
  PROVE  UInv'
<1> DEFINE l == [sock |-> sock + 1, server |-> tes, kind |-> "RQS", qid |-> qid]
<1>1. /\ pc = "menu" /\ pc' = "aqs" /\ sock < MaxSocks /\ qid # None
      /\ sock' = sock + 1 /\ lines' = lines \cup {l}
      /\ UNCHANGED <<question, tries, host, astray, asked, unscored, session, disk, now,
                     answers, quizzes, graded, mislaid>>
  BY DEF Submit
<1>2. tes \in Servers /\ qid \in Time
  BY <1>1 DEF UInv, CallOK, TypeOK
<1>3. TypeOK' /\ CallOK'
  <2>1. l \in Line /\ sock' \in Socks
    BY <1>1, <1>2, UserAssumption DEF UInv, TypeOK, Line, Socks
  <2> HIDE DEF l
  <2> QED  BY <1>1, <2>1 DEF UInv, TypeOK, CallOK, session, disk, remote, Time, Socks, Questions, PdfNames, Labels
<1>4. SocketsOK'
  <2>1. l.sock = sock + 1
    OBVIOUS
  <2> HIDE DEF l
  <2> QED  BY <1>1, <2>1, NewLine
<1>5. \A m \in lines' : m.sock = sock' => m = l
  BY <1>1, Fresh
<1>6. \A a \in answers : a.sock # sock'
  BY <1>1, Fresh
<1>7. HandedIn'
  BY <1>1 DEF UInv, HandedIn
<1>8. SubmissionOK' /\ InvalidOnlyAfterLoss'
  BY <1>1, <1>5, <1>6 DEF SubmissionOK, InvalidOnlyAfterLoss, session
<1>9. WaitsOK'
  BY <1>1 DEF UInv, WaitsOK, Waits, session
<1>10. FilesOK' /\ AnswerToThisCall' /\ SubmitsToIssuer'
  BY <1>1 DEF UInv, FilesOK, AnswerToThisCall, SubmitsToIssuer, session, disk
<1> QED  BY <1>3, <1>4, <1>7, <1>8, <1>9, <1>10 DEF UInv

LEMMA ConnectStep ==
  ASSUME UInv, Connect
  PROVE  UInv'
<1> DEFINE l == [sock |-> sock + 1, server |-> host, kind |-> "RQT"]
<1>1. /\ pc = "connect" /\ pc' = "aqt" /\ tes' = host /\ unsettled' = TRUE
      /\ sock' = sock + 1 /\ lines' = lines \cup {l}
      /\ UNCHANGED <<question, tries, host, astray, asked, unscored, qid, issuer, pdf, disk,
                     now, answers, quizzes, graded, mislaid>>
  BY DEF Connect, TesAfter
<1>2. host \in Servers /\ sock < MaxSocks /\ question \in Topics
  BY <1>1 DEF UInv, CallOK
<1>3. TypeOK' /\ CallOK'
  <2>1. l \in Line /\ sock' \in Socks
    BY <1>1, <1>2, UserAssumption DEF UInv, TypeOK, Line, Socks
  <2> HIDE DEF l
  <2> QED  BY <1>1, <1>2, <2>1 DEF UInv, TypeOK, CallOK, session, disk, remote, Time, Socks, Questions, PdfNames, Labels
<1>4. SocketsOK'
  <2>1. l.sock = sock + 1
    OBVIOUS
  <2> HIDE DEF l
  <2> QED  BY <1>1, <2>1, NewLine
<1>5. \A m \in lines' : m.sock = sock' => m = l
  BY <1>1, Fresh
<1>6. \A a \in answers : a.sock # sock'
  BY <1>1, Fresh
<1>7. HandedIn'
  BY <1>1 DEF UInv, HandedIn
<1>8. SubmissionOK' /\ InvalidOnlyAfterLoss'
  BY <1>1 DEF SubmissionOK, InvalidOnlyAfterLoss
<1>9. WaitsOK'
  BY <1>1, <1>5, <1>6 DEF WaitsOK
<1>10. FilesOK' /\ AnswerToThisCall' /\ SubmitsToIssuer'
  BY <1>1 DEF UInv, FilesOK, AnswerToThisCall, SubmitsToIssuer, disk
<1> QED  BY <1>3, <1>4, <1>7, <1>8, <1>9, <1>10 DEF UInv

-----------------------------------------------------------------------------
(* The topic servers: a line is taken and an answer comes on its socket.   *)

\* Whatever the answer is.
LEMMA ReplyFacts ==
  ASSUME UInv, NEW l \in lines, NEW a, a.sock = l.sock, Reply(l, a)
  PROVE  /\ CallOK' /\ SocketsOK' /\ HandedIn'
         /\ FilesOK' /\ AnswerToThisCall' /\ SubmitsToIssuer'
         /\ lines' = lines \ {l} /\ answers' = answers \cup {a}
         /\ UNCHANGED <<now, pc, sock, unscored, tes, qid, unsettled>>
<1>1. /\ lines' = lines \ {l} /\ answers' = answers \cup {a}
      /\ UNCHANGED <<now, pc, sock, question, tries, host, astray, asked, unscored, session, disk>>
  BY DEF Reply
<1>2. CallOK' /\ HandedIn' /\ FilesOK' /\ AnswerToThisCall' /\ SubmitsToIssuer'
  BY <1>1 DEF UInv, CallOK, HandedIn, FilesOK, AnswerToThisCall, SubmitsToIssuer, session, disk
<1>3. \A m \in lines' : m.sock # l.sock
  BY <1>1 DEF UInv, SocketsOK
<1>4. SocketsOK'
  BY <1>1, <1>3 DEF UInv, SocketsOK
<1> QED  BY <1>1, <1>2, <1>4 DEF session

LEMMA IssueStep ==
  ASSUME UInv, NEW l \in lines, TesIssue(l)
  PROVE  UInv'
<1> DEFINE a == [sock |-> l.sock, kind |-> "AQT", qid |-> now]
<1>1. /\ l.kind = "RQT" /\ l.server \in Servers /\ l.sock \in Socks /\ now \in Time
      /\ \/ /\ quizzes' = [quizzes EXCEPT ![l.server][now] = now + Window]
            /\ UNCHANGED mislaid
         \/ /\ mislaid' = mislaid \cup {<<l.server, now>>}
            /\ UNCHANGED quizzes
      /\ UNCHANGED graded /\ Reply(l, a)
  BY DEF UInv, TypeOK, Line, TesIssue
<1>2. /\ CallOK' /\ SocketsOK' /\ HandedIn'
      /\ FilesOK' /\ AnswerToThisCall' /\ SubmitsToIssuer'
      /\ lines' = lines \ {l} /\ answers' = answers \cup {a}
      /\ UNCHANGED <<now, pc, sock, unscored, tes, qid, unsettled>>
  <2>1. a.sock = l.sock
    OBVIOUS
  <2> HIDE DEF a
  <2> QED  BY <1>1, <2>1, ReplyFacts
<1>3. a.kind = "AQT" /\ a.qid = now /\ a.sock = l.sock /\ a \in Answer
  BY <1>1 DEF Answer
<1> HIDE DEF a
<1>4. now + Window \in Nat /\ now + Window # None
  BY <1>1, UserAssumption DEF Time
<1>5. TypeOK'
  <2>1. quizzes' \in [Servers -> [Time -> Nat \cup {None}]]
    BY <1>1, <1>4 DEF UInv, TypeOK
  <2>2. mislaid' \subseteq Servers \X Time
    BY <1>1 DEF UInv, TypeOK
  <2> QED  BY <1>1, <1>2, <1>3, <2>1, <2>2 DEF UInv, TypeOK, Reply, session, disk
<1>6. Waits(l.server, now)' /\ \A s \in Servers, q \in Time : Waits(s, q) => Waits(s, q)'
  BY <1>1, <1>2, <1>4 DEF Waits, UInv, TypeOK
<1>7. SubmissionOK' /\ InvalidOnlyAfterLoss'
  BY <1>1, <1>2, <1>3 DEF UInv, SubmissionOK, InvalidOnlyAfterLoss
<1>8. WaitsOK'
  <2>1. pc = "aqt" => tes \in Servers
    BY DEF UInv, CallOK
  <2>2. qid # None => tes \in Servers /\ qid \in Time
    BY DEF UInv, CallOK, TypeOK
  <2>3. pc = "aqt" =>
          \A m \in answers : m.sock = sock /\ m.kind = "AQT" => m.qid \in Time
    BY DEF UInv, TypeOK, Answer
  <2>4. pc = "aqt" => \A m \in answers' : m.sock = sock /\ m.kind = "AQT" => Waits(tes, m.qid)'
    <3> SUFFICES ASSUME pc = "aqt", NEW m \in answers', m.sock = sock, m.kind = "AQT"
                 PROVE  Waits(tes, m.qid)'
      OBVIOUS
    <3>1. CASE m = a
      <4>1. l.server = tes
        BY <3>1, <1>3 DEF UInv, WaitsOK
      <4> QED  BY <4>1, <3>1, <1>2, <1>3, <1>6 DEF Waits
    <3>2. CASE m \in answers
      <4>1. Waits(tes, m.qid)
        BY <3>2 DEF UInv, WaitsOK
      <4> QED  BY <4>1, <3>2, <2>1, <2>3, <1>2, <1>6 DEF Waits
    <3> QED  BY <3>1, <3>2, <1>2
  <2>5. qid # None /\ Waits(tes, qid) => Waits(tes, qid)'
    BY <2>2, <1>2, <1>6 DEF Waits
  <2> QED  BY <2>4, <2>5, <1>2 DEF UInv, WaitsOK
<1> QED  BY <1>2, <1>5, <1>7, <1>8 DEF UInv

LEMMA GradeStep ==
  ASSUME UInv, NEW l \in lines, TesGrade(l)
  PROVE  UInv'
<1> DEFINE m == TesMark(l)
           a == [sock |-> l.sock, kind |-> "AQS", mark |-> m]
<1>1. /\ l.kind = "RQS" /\ l.server \in Servers /\ l.qid \in Time /\ l.sock \in Socks
      /\ quizzes' = [quizzes EXCEPT ![l.server][l.qid] = None]
      /\ graded' = graded \cup {x \in {<<l.server, l.qid>>} : m = 1}
      /\ UNCHANGED mislaid /\ Reply(l, a)
  BY DEF UInv, TypeOK, Line, TesGrade
<1>2. /\ CallOK' /\ SocketsOK' /\ HandedIn'
      /\ FilesOK' /\ AnswerToThisCall' /\ SubmitsToIssuer'
      /\ lines' = lines \ {l} /\ answers' = answers \cup {a}
      /\ UNCHANGED <<now, pc, sock, unscored, tes, qid, unsettled>>
  <2>1. a.sock = l.sock
    OBVIOUS
  <2> HIDE DEF a
  <2> QED  BY <1>1, <2>1, ReplyFacts
<1>3. m \in {-2, -1, 1} /\ (m = -2 <=> quizzes[l.server][l.qid] = None)
  BY DEF TesMark
<1>4. a.kind = "AQS" /\ a.mark = m /\ a.sock = l.sock /\ a \in Answer
  BY <1>1, <1>3 DEF Answer
<1> HIDE DEF a, m
<1>5. TypeOK'
  <2>1. quizzes' \in [Servers -> [Time -> Nat \cup {None}]]
    BY <1>1 DEF UInv, TypeOK
  <2>2. graded' \subseteq Servers \X Time
    BY <1>1 DEF UInv, TypeOK
  <2> QED  BY <1>1, <1>2, <1>4, <2>1, <2>2 DEF UInv, TypeOK, Reply, session, disk
<1>6. \A s \in Servers, q \in Time :
        Waits(s, q) /\ <<s, q>> # <<l.server, l.qid>> => Waits(s, q)'
  BY <1>1, <1>2 DEF Waits, UInv, TypeOK
\* Other submissions than the one under way came back without a score.
<1>7. ASSUME ~(pc \in {"aqs", "spin"} /\ l.sock = sock)
      PROVE  \A s \in Servers, q \in Time : Waits(s, q) => Waits(s, q)'
  <2>1. <<l.server, l.qid>> \in unscored
    BY <1>1, <1>7 DEF UInv, HandedIn
  <2>2. ASSUME NEW s \in Servers, NEW q \in Time, Waits(s, q)
        PROVE  Waits(s, q)'
    <3>1. CASE <<s, q>> = <<l.server, l.qid>>
      BY <3>1, <2>1, <1>2 DEF Waits
    <3>2. CASE <<s, q>> # <<l.server, l.qid>>
      BY <3>2, <2>2, <1>6
    <3> QED  BY <3>1, <3>2
  <2> QED  BY <2>2
<1>8. ASSUME pc = "aqs", l.sock = sock
      PROVE  l.server = tes /\ l.qid = qid /\ (~unsettled => Waits(tes, qid))
  BY <1>8 DEF UInv, CallOK, SubmissionOK, WaitsOK
<1>9. SubmissionOK'
  BY <1>1, <1>2, <1>4, <1>8 DEF UInv, SubmissionOK
<1>10. InvalidOnlyAfterLoss'
  <2>1. UNCHANGED mislaid
    BY <1>1
  <2> QED  BY <2>1, <1>2, <1>3, <1>4, <1>8 DEF UInv, InvalidOnlyAfterLoss, Waits
<1>11. WaitsOK'
  <2>1. qid # None => tes \in Servers /\ qid \in Time
    BY DEF UInv, CallOK, TypeOK
  <2>2. CASE pc = "aqt"
    <3>1. tes \in Servers /\ \A x \in answers : x.sock = sock /\ x.kind = "AQT" => x.qid \in Time
      BY <2>2 DEF UInv, CallOK, TypeOK, Answer
    <3>2. \A s \in Servers, q \in Time : Waits(s, q) => Waits(s, q)'
      BY <2>2, <1>7
    <3>3. \A x \in answers' : x.sock = sock /\ x.kind = "AQT" => Waits(tes, x.qid)'
      <4> SUFFICES ASSUME NEW x \in answers', x.sock = sock, x.kind = "AQT"
                   PROVE  Waits(tes, x.qid)'
        OBVIOUS
      <4>1. x \in answers
        BY <1>2, <1>4
      <4>2. Waits(tes, x.qid) /\ x.qid \in Time
        BY <4>1, <3>1, <2>2 DEF UInv, WaitsOK
      <4> QED  BY <4>2, <3>1, <3>2, <1>2 DEF Waits
    <3>4. qid # None /\ Waits(tes, qid) => Waits(tes, qid)'
      BY <2>1, <3>2, <1>2 DEF Waits
    <3> QED  BY <2>2, <3>3, <3>4, <1>2 DEF UInv, WaitsOK
  <2>3. CASE pc = "aqs"
    <3>1. CASE l.sock = sock
      <4>1. \A x \in lines' : x.sock # sock
        BY <3>1, <1>2 DEF UInv, SocketsOK
      <4> QED  BY <4>1, <2>3, <1>2 DEF WaitsOK
    <3>2. CASE l.sock # sock
      <4>1. \A s \in Servers, q \in Time : Waits(s, q) => Waits(s, q)'
        BY <3>2, <1>7
      <4>2. qid # None /\ Waits(tes, qid) => Waits(tes, qid)'
        BY <2>1, <4>1, <1>2 DEF Waits
      <4> QED  BY <4>2, <2>3, <1>2 DEF UInv, WaitsOK
    <3> QED  BY <3>1, <3>2
  <2>4. CASE pc \notin {"aqt", "aqs"}
    <3>1. pc # "spin" => \A s \in Servers, q \in Time : Waits(s, q) => Waits(s, q)'
      BY <2>4, <1>7
    <3>2. pc # "spin" /\ qid # None /\ Waits(tes, qid) => Waits(tes, qid)'
      BY <2>1, <3>1, <1>2 DEF Waits
    <3> QED  BY <3>2, <2>4, <1>2 DEF UInv, WaitsOK
  <2> QED  BY <2>2, <2>3, <2>4
<1> QED  BY <1>2, <1>5, <1>9, <1>10, <1>11 DEF UInv

LEMMA RefuseStep ==
  ASSUME UInv, NEW l \in lines, TesRefuse(l) \/ TesClose(l)
  PROVE  UInv'
<1>1. PICK a \in [sock : {l.sock}, kind : {"ERR", "closed"}] :
        Reply(l, a) /\ UNCHANGED <<quizzes, graded, mislaid>>
  BY DEF TesRefuse, TesClose
<1>2. a.sock = l.sock /\ a.kind \in {"ERR", "closed"} /\ a \in Answer
  BY DEF UInv, TypeOK, Line, Answer
<1>3. /\ CallOK' /\ SocketsOK' /\ HandedIn'
      /\ FilesOK' /\ AnswerToThisCall' /\ SubmitsToIssuer'
      /\ lines' = lines \ {l} /\ answers' = answers \cup {a}
      /\ UNCHANGED <<now, pc, sock, unscored, tes, qid, unsettled>>
  BY <1>1, <1>2, ReplyFacts
<1>4. TypeOK'
  BY <1>1, <1>2, <1>3 DEF UInv, TypeOK, Reply, session, disk
<1>5. SubmissionOK' /\ InvalidOnlyAfterLoss'
  BY <1>1, <1>2, <1>3 DEF UInv, SubmissionOK, InvalidOnlyAfterLoss
<1>6. WaitsOK'
  BY <1>1, <1>2, <1>3 DEF UInv, WaitsOK, Waits
<1> QED  BY <1>3, <1>4, <1>5, <1>6 DEF UInv

\* What another's submission takes out is mislaid.
LEMMA TakenStep ==
  ASSUME UInv, NEW s \in Servers, NEW q \in Time, TesTaken(s, q)
  PROVE  UInv'
<1>1. /\ quizzes' = [quizzes EXCEPT ![s][q] = None]
      /\ mislaid' = mislaid \cup {<<s, q>>}
      /\ UNCHANGED <<now, pc, sock, question, tries, host, astray, asked, unscored,
                     session, disk, lines, answers, graded>>
  BY DEF TesTaken
<1>2. TypeOK'
  <2>1. quizzes' \in [Servers -> [Time -> Nat \cup {None}]]
    BY <1>1 DEF UInv, TypeOK
  <2>2. mislaid' \subseteq Servers \X Time
    BY <1>1 DEF UInv, TypeOK
  <2> QED  BY <1>1, <2>1, <2>2 DEF UInv, TypeOK, session, disk
<1>3. CallOK' /\ SocketsOK' /\ HandedIn' /\ SubmissionOK'
  BY <1>1 DEF UInv, CallOK, SocketsOK, HandedIn, SubmissionOK, session
<1>4. FilesOK' /\ AnswerToThisCall' /\ SubmitsToIssuer' /\ InvalidOnlyAfterLoss'
  BY <1>1 DEF UInv, FilesOK, AnswerToThisCall, SubmitsToIssuer, InvalidOnlyAfterLoss,
              session, disk
<1>5. \A r \in Servers, p \in Time : Waits(r, p) => Waits(r, p)'
  BY <1>1 DEF Waits, UInv, TypeOK
<1>6. WaitsOK'
  <2>1. qid # None => tes \in Servers /\ qid \in Time
    BY DEF UInv, CallOK, TypeOK
  <2>2. pc = "aqt" => tes \in Servers /\ \A a \in answers : a.kind = "AQT" => a.qid \in Time
    BY DEF UInv, CallOK, TypeOK, Answer
  <2>3. UNCHANGED <<pc, sock, tes, qid, unsettled, lines, answers>>
    BY <1>1 DEF session
  <2>4. qid # None /\ Waits(tes, qid) => Waits(tes, qid)'
    BY <2>1, <2>3, <1>5 DEF Waits
  <2>5. pc = "aqt" =>
          \A a \in answers : a.sock = sock /\ a.kind = "AQT" => Waits(tes, a.qid)'
    BY <2>2, <2>3, <1>5 DEF Waits, UInv, WaitsOK
  <2> QED  BY <2>3, <2>4, <2>5 DEF UInv, WaitsOK
<1> QED  BY <1>2, <1>3, <1>4, <1>6 DEF UInv

-----------------------------------------------------------------------------
(* The ends of the commands: a questionnaire stored, a mark read.          *)

\* The number of the next file.
LEMMA StoreFacts ==
  ASSUME UInv, pc = "aqt", Store
  PROVE  /\ counter \in 0..LastCounter /\ counter' \in 1..LastCounter
         /\ counter' = counter + 1 \/ (counter = LastCounter /\ counter' = 1)
         /\ <<question, counter'>> \in PdfNames
         /\ file' \in [PdfNames -> Socks]
         /\ file'[<<question, counter'>>] \in Socks
         /\ \A f \in PdfNames : f # <<question, counter'>> => file'[f] = file[f]
<1>1. counter \in 0..LastCounter /\ question \in Topics /\ sock \in Socks
  BY DEF UInv, TypeOK, CallOK
<1>2. /\ counter' \in 1..LastCounter
      /\ counter' = counter + 1 \/ (counter = LastCounter /\ counter' = 1)
  BY <1>1, UserAssumption DEF Store, NextPdf
<1>3. <<question, counter'>> \in PdfNames
  BY <1>1, <1>2 DEF PdfNames
<1> QED  BY <1>1, <1>2, <1>3 DEF UInv, TypeOK, Store

LEMMA ReadAQTStep ==
  ASSUME UInv, ReadAQT
  PROVE  UInv'
<1>1. PICK a \in answers : Came(a, "AQT") /\ qid' = a.qid
  BY DEF ReadAQT
<1>2. a.sock = sock /\ a.kind = "AQT" /\ a.qid \in Time
  BY <1>1 DEF Came, UInv, TypeOK, Answer
<1>3. /\ pc = "aqt" /\ pc' = "menu" /\ Store /\ opened' = 0
      /\ issuer' = tes /\ unsettled' = FALSE
      /\ pdf' = [name |-> <<question, counter'>>, from |-> file'[<<question, counter'>>]]
      /\ question' = None /\ tries' = 0 /\ host' = None /\ astray' = FALSE
      /\ UNCHANGED <<sock, asked, unscored, tes, remote>>
  BY DEF ReadAQT, Return
<1>4. /\ counter' \in 1..LastCounter /\ <<question, counter'>> \in PdfNames
      /\ file' \in [PdfNames -> Socks] /\ file'[<<question, counter'>>] \in Socks
  BY <1>3, StoreFacts
<1>5. pdf' \in [name : PdfNames, from : Socks]
  BY <1>3, <1>4 DEF UInv, TypeOK
<1>6. TypeOK' /\ CallOK'
  <2>1. tes \in Servers /\ qid' \in Time
    BY <1>1, <1>2, <1>3 DEF UInv, CallOK
  <2>2. TypeOK'
    <3>1. unsettled' \in BOOLEAN /\ opened' \in Nat /\ pc' \in Labels
      BY <1>3 DEF Labels
    <3>2. counter' \in 0..LastCounter
      BY <1>4, UserAssumption
    <3>3. Return
      BY DEF ReadAQT
    <3> QED  BY <3>1, <3>2, <3>3, <2>1, <1>3, <1>4, <1>5, ReturnFacts DEF UInv, TypeOK, remote
  <2>3. CallOK'
    BY <2>1, <1>3 DEF CallOK
  <2> QED  BY <2>2, <2>3
<1>7. SocketsOK' /\ SubmissionOK' /\ InvalidOnlyAfterLoss' /\ AnswerToThisCall' /\ SubmitsToIssuer'
  BY <1>3 DEF UInv, SocketsOK, SubmissionOK, InvalidOnlyAfterLoss, AnswerToThisCall,
              SubmitsToIssuer, remote
<1>8. HandedIn'
  BY <1>3 DEF UInv, HandedIn, remote
<1>9. WaitsOK'
  <2>1. Waits(tes, a.qid)
    BY <1>2, <1>3 DEF UInv, WaitsOK
  <2> QED  BY <2>1, <1>1, <1>3 DEF WaitsOK, Waits, remote
<1>10. FilesOK'
  <2>1. counter' \in Nat /\ counter' > 0 /\ LastCounter \in Nat
    BY <1>4, UserAssumption
  <2>2. /\ pdf'.name = <<question, counter'>>
        /\ pdf'.from = file'[<<question, counter'>>]
    BY <1>3
  <2>3. counter' = pdf'.name[2] + opened'
    <3>1. pdf'.name[2] = counter'
      BY <2>2
    <3>2. opened' = 0
      BY <1>3
    <3>3. \A n \in Nat : n = n + 0
      OBVIOUS
    <3> QED  BY <3>1, <3>2, <3>3, <2>1
  <2>4. file'[pdf'.name] = pdf'.from
    BY <2>2
  <2> QED  BY <2>1, <2>3, <2>4, <1>5 DEF FilesOK
<1> QED  BY <1>6, <1>7, <1>8, <1>9, <1>10 DEF UInv

\* The file that ends short is not the one of the questionnaire at hand, as
\* long as fewer than LastCounter were opened since.
LEMMA ReadAQTShortStep ==
  ASSUME UInv, ReadAQTShort
  PROVE  UInv'
<1>1. /\ pc = "aqt" /\ pc' = "menu" /\ Store /\ opened' = opened + 1
      /\ question' = None /\ tries' = 0 /\ host' = None /\ astray' = FALSE
      /\ UNCHANGED <<sock, asked, unscored, session, remote>>
  BY DEF ReadAQTShort, Return
<1>2. /\ counter \in 0..LastCounter /\ counter' \in 1..LastCounter
      /\ counter' = counter + 1 \/ (counter = LastCounter /\ counter' = 1)
      /\ file' \in [PdfNames -> Socks]
      /\ \A f \in PdfNames : f # <<question, counter'>> => file'[f] = file[f]
  BY <1>1, StoreFacts
<1>3. TypeOK' /\ CallOK'
  <2>1. Return /\ counter' \in 0..LastCounter /\ opened' \in Nat
    BY <1>1, <1>2, UserAssumption DEF ReadAQTShort, UInv, TypeOK
  <2> QED  BY <2>1, <1>1, <1>2, ReturnFacts DEF UInv, TypeOK, CallOK, session, remote
<1>4. SocketsOK' /\ SubmissionOK' /\ InvalidOnlyAfterLoss' /\ AnswerToThisCall' /\ SubmitsToIssuer'
  BY <1>1 DEF UInv, SocketsOK, SubmissionOK, InvalidOnlyAfterLoss, AnswerToThisCall,
              SubmitsToIssuer, session, remote
<1>5. HandedIn' /\ WaitsOK'
  BY <1>1 DEF UInv, HandedIn, WaitsOK, Waits, session, remote
<1>6. FilesOK'
  <2> SUFFICES ASSUME qid # None, opened + 1 < LastCounter
               PROVE  /\ pdf \in [name : PdfNames, from : Socks] /\ counter' > 0
                      /\ \/ counter' = pdf.name[2] + (opened + 1)
                         \/ counter' = pdf.name[2] + (opened + 1) - LastCounter
                      /\ file'[pdf.name] = pdf.from
    BY <1>1 DEF FilesOK, session
  <2>1. opened \in Nat /\ LastCounter \in Nat
    BY UserAssumption DEF UInv, TypeOK
  <2>2. /\ pdf \in [name : PdfNames, from : Socks]
        /\ \/ counter = pdf.name[2] + opened
           \/ counter = pdf.name[2] + opened - LastCounter
        /\ file[pdf.name] = pdf.from
    BY <2>1 DEF UInv, FilesOK
  <2>3. pdf.name \in PdfNames /\ pdf.name[2] \in 1..LastCounter
    BY <2>2 DEF PdfNames
  <2>4. \/ counter' = pdf.name[2] + (opened + 1)
        \/ counter' = pdf.name[2] + (opened + 1) - LastCounter
    BY <2>1, <2>2, <2>3, <1>2
  <2>5. pdf.name[2] # counter'
    BY <2>1, <2>3, <2>4, <1>2
  <2>6. pdf.name # <<question, counter'>>
    BY <2>5
  <2>7. file'[pdf.name] = pdf.from
    BY <2>2, <2>3, <2>6, <1>2
  <2> QED  BY <2>2, <2>4, <2>7, <1>2
<1> QED  BY <1>3, <1>4, <1>5, <1>6 DEF UInv

\* When a mark is read no line of the submission is left.
LEMMA ReadAQSStep ==
  ASSUME UInv, ReadAQS
  PROVE  UInv'
<1>1. PICK a \in answers : /\ Came(a, "AQS") /\ qid' = QidAfter(a.mark)
                           /\ unscored' = unscored \cup {x \in {<<tes, qid>>} : a.mark # 1}
  BY DEF ReadAQS
<1>2. a.sock = sock /\ a.mark \in {-2, -1, 1}
  BY <1>1 DEF Came, UInv, TypeOK, Answer
<1>3. /\ pc = "aqs" /\ pc' = "menu" /\ qid # None
      /\ question' = None /\ tries' = 0 /\ host' = None /\ astray' = FALSE
      /\ UNCHANGED <<sock, asked, tes, issuer, unsettled, pdf, disk, remote>>
  BY DEF ReadAQS, Return, UInv, CallOK
<1>4. /\ a.mark = 1 => qid' = None /\ unscored' = unscored
      /\ a.mark # 1 => qid' = qid /\ unscored' = unscored \cup {<<tes, qid>>}
  BY <1>1, <1>2 DEF QidAfter
<1>5. TypeOK' /\ CallOK'
  <2>1. Return /\ tes \in Servers /\ qid \in Time
    BY <1>3 DEF ReadAQS, UInv, TypeOK, CallOK
  <2>2. unscored' \subseteq Servers \X Time /\ qid' \in Time \cup {None}
    BY <2>1, <1>2, <1>4 DEF UInv, TypeOK
  <2> QED  BY <2>1, <2>2, <1>3, ReturnFacts DEF UInv, TypeOK, CallOK, disk, remote
<1>6. SocketsOK' /\ SubmissionOK' /\ InvalidOnlyAfterLoss' /\ AnswerToThisCall' /\ SubmitsToIssuer'
  BY <1>3, <1>4 DEF UInv, SocketsOK, SubmissionOK, InvalidOnlyAfterLoss, AnswerToThisCall,
              SubmitsToIssuer, remote
<1>7. HandedIn'
  <2>1. \A l \in lines : l.sock # sock
    BY <1>1, <1>2 DEF UInv, SocketsOK
  <2> QED  BY <2>1, <1>3, <1>4 DEF UInv, HandedIn, remote
<1>8. WaitsOK'
  BY <1>3, <1>4 DEF WaitsOK, Waits
<1>9. FilesOK'
  BY <1>3, <1>4 DEF UInv, FilesOK, disk
<1> QED  BY <1>5, <1>6, <1>7, <1>8, <1>9 DEF UInv

LEMMA ReadAQSFailsStep ==
  ASSUME UInv, ReadAQSFails
  PROVE  UInv'
<1>1. /\ pc = "aqs" /\ pc' = "menu" /\ qid # None
      /\ unscored' = unscored \cup {<<tes, qid>>}
      /\ question' = None /\ tries' = 0 /\ host' = None /\ astray' = FALSE
      /\ UNCHANGED <<sock, asked, session, disk, remote>>
  BY DEF ReadAQSFails, Return, UInv, CallOK
<1>2. TypeOK' /\ CallOK'
  <2>1. Return /\ tes \in Servers /\ qid \in Time
    BY <1>1 DEF ReadAQSFails, UInv, TypeOK, CallOK
  <2> QED  BY <2>1, <1>1, ReturnFacts DEF UInv, TypeOK, CallOK, session, disk, remote
<1>3. SocketsOK' /\ SubmissionOK' /\ InvalidOnlyAfterLoss' /\ AnswerToThisCall' /\ SubmitsToIssuer'
  BY <1>1 DEF UInv, SocketsOK, SubmissionOK, InvalidOnlyAfterLoss, AnswerToThisCall,
              SubmitsToIssuer, session, remote
<1>4. HandedIn'
  BY <1>1 DEF UInv, HandedIn, SubmissionOK, remote
<1>5. WaitsOK'
  BY <1>1 DEF WaitsOK, Waits, session
<1>6. FilesOK'
  BY <1>1 DEF UInv, FilesOK, session, disk
<1> QED  BY <1>2, <1>3, <1>4, <1>5, <1>6 DEF UInv

-----------------------------------------------------------------------------
(* The theorems.                                                           *)

LEMMA InitUInv == Init => UInv
<1> SUFFICES ASSUME Init PROVE UInv
  OBVIOUS
<1>1. TypeOK
  <2>1. 0 \in Time /\ 0 \in Socks /\ 0 \in 0..Tries /\ 0 \in 0..LastCounter
    BY UserAssumption DEF Time, Socks
  <2>2. /\ file \in [PdfNames -> Socks]
        /\ quizzes \in [Servers -> [Time -> Nat \cup {None}]]
    BY <2>1 DEF Init
  <2> QED  BY <2>1, <2>2 DEF Init, TypeOK, Labels
<1>2. CallOK
  BY DEF Init, CallOK
<1> QED  BY <1>1, <1>2 DEF Init, UInv, SocketsOK, HandedIn, SubmissionOK, WaitsOK, FilesOK,
                     AnswerToThisCall, SubmitsToIssuer, InvalidOnlyAfterLoss

LEMMA UInvInductive == UInv /\ [Next]_vars => UInv'
<1> SUFFICES ASSUME UInv, [Next]_vars PROVE UInv'
  OBVIOUS
<1>1. CASE UNCHANGED vars
  <2>1. TypeOK' /\ CallOK' /\ SocketsOK' /\ HandedIn' /\ SubmissionOK'
    BY <1>1 DEF UInv, TypeOK, CallOK, SocketsOK, HandedIn, SubmissionOK, vars, session, disk, remote
  <2>2. /\ WaitsOK' /\ FilesOK' /\ AnswerToThisCall' /\ SubmitsToIssuer'
        /\ InvalidOnlyAfterLoss'
    BY <1>1 DEF UInv, WaitsOK, Waits, FilesOK, AnswerToThisCall, SubmitsToIssuer,
                InvalidOnlyAfterLoss, vars, session, disk, remote
  <2> QED  BY <2>1, <2>2 DEF UInv
<1>2. CASE Tes
  BY <1>2, IssueStep, GradeStep, RefuseStep, TakenStep DEF Tes
<1>3. CASE Command
  <2>1. "TQR" \in Questions /\ \A t \in Topics : t \in Questions
    BY DEF Questions
  <2> QED  BY <2>1, <1>3, OpenStep, SubmitStep, LeaveStep DEF Command, List, Request
<1>4. CASE Ask
  BY <1>4, AskStep, LeaveStep DEF Ask
<1>5. CASE Fetch
  BY <1>5, FailStep, ConnectStep, LeaveStep, ReadAQTStep, ReadAQTShortStep DEF Fetch
<1>6. CASE Mark
  BY <1>6, ReadAQSStep, ReadAQSFailsStep DEF Mark
<1> QED  BY <1>1, <1>2, <1>3, <1>4, <1>5, <1>6, TickStep, FailStep DEF Next

\* UInv holds in every state of a session.
THEOREM SessionInductive == Spec => []UInv
<1> QED  BY InitUInv, UInvInductive, PTL DEF Spec

\* Every variable of the student's program keeps its type.
THEOREM SessionTypeCorrect == Spec => []TypeOK
<1>1. UInv => TypeOK
  BY DEF UInv
<1> QED  BY <1>1, SessionInductive, PTL

\* A request that goes to the topic server of another topic was sent something
\* it never asked for on its socket: no late or repeated answer to an earlier
\* call of the program's own is taken for the answer to this one.
THEOREM AnswerToThisCallAlways == Spec => []AnswerToThisCall
<1>1. UInv => AnswerToThisCall
  BY DEF UInv
<1> QED  BY <1>1, SessionInductive, PTL

\* _qid, _tesname and _tesport belong together until a request is broken off.
THEOREM SubmitsToIssuerAlways == Spec => []SubmitsToIssuer
<1>1. UInv => SubmitsToIssuer
  BY DEF UInv
<1> QED  BY <1>1, SessionInductive, PTL

\* Invalid is not the first thing a good submission hears, unless a request was
\* broken off or others lost the questionnaire in the topic server.
THEOREM InvalidOnlyAfterLossAlways == Spec => []InvalidOnlyAfterLoss
<1>1. UInv => InvalidOnlyAfterLoss
  BY DEF UInv
<1> QED  BY <1>1, SessionInductive, PTL

\* What was stored of the questionnaire at hand outlives fewer than LastCounter
\* requests.
THEOREM PdfKeptAlways == Spec => []PdfKept
<1>1. UInv => PdfKept
  BY DEF UInv, FilesOK, PdfKept
<1> QED  BY <1>1, SessionInductive, PTL

\* A session that goes on forgets a questionnaire only once it was graded.
THEOREM ForgottenOnceGradedAlways == Spec => ForgottenOnceGraded
<1> DEFINE A == qid # None /\ qid' = None => unsettled \/ <<issuer, qid>> \in graded
<1>1. UInv /\ [Next]_vars => [A]_vars
  <2> SUFFICES ASSUME UInv, [Next]_vars, qid # None, qid' = None
               PROVE  unsettled \/ <<issuer, qid>> \in graded
    BY DEF vars
  <2>1. ReadAQT \/ ReadAQS
    BY DEF Next, vars, session, Tick, Tes, TesIssue, TesGrade, TesRefuse, TesClose, TesTaken,
           Reply, Command, List, Request, Open, Submit, SubmitRefused, Exit,
           Ask, Send, TryAgain, GiveUp, Received, ReceiveServer, ReceiveAstray, ReceiveList,
           ReceiveOther, ReceiveTooLong,
           Fetch, ConnectFails, Connect, ConnectReset, ReadAQTShort, ReadAQTFails,
           Mark, ReadAQSFails, ReadSpin
  <2>2. ~ReadAQT
    <3> SUFFICES ASSUME ReadAQT PROVE FALSE
      OBVIOUS
    <3>1. PICK a \in answers : Came(a, "AQT") /\ qid' = a.qid
      BY DEF ReadAQT
    <3>2. a.qid \in Time
      BY <3>1 DEF Came, UInv, TypeOK, Answer
    <3> QED  BY <3>1, <3>2, UserAssumption DEF Time
  <2>3. PICK a \in answers : pc = "aqs" /\ Came(a, "AQS") /\ qid' = QidAfter(a.mark)
    BY <2>1, <2>2 DEF ReadAQS
  <2>4. a.sock = sock /\ a.kind = "AQS" /\ a.mark = 1
    BY <2>3 DEF Came, QidAfter, UInv, TypeOK, Answer
  <2>5. <<tes, qid>> \in graded
    BY <2>3, <2>4 DEF UInv, SubmissionOK
  <2> QED  BY <2>5 DEF UInv, SubmitsToIssuer
<1> QED  BY <1>1, SessionInductive, PTL DEF Spec, ForgottenOnceGraded

=============================================================================
