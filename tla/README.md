# RC1516 in TLA+

RC1516 is an online questionnaire system of three programs. A student runs
`user`; the contact server `ECP` knows which topic is served where and records
results; a topic evaluation server `TES` hands out questionnaires and grades
them.

    user --UDP: TQR, TER--> ECP <--UDP: IQR / AWI--> TES
      \------------------TCP: RQT, RQS---------------/

This directory holds TLA+ models of the three programs and of the reporting
between the two servers, the TLC runs that check them on small instances, and
TLAPS proofs for instances of every size.

## 1. Inventory

| component | state | operations | what makes it hard |
|---|---|---|---|
| `TES/TesManager` | five `std::queue`, `_answersUDP` (unordered map), `_questionaries` (map), seven semaphores, seven mutexes, `_exit` | `acceptRequestsTCP`, `acceptRequestsUDP`, `processTCP`, `processRQT`, `processRQS`, `processAWI`, `answerUDP`, `answerTCP` (ten threads) | eight kinds of threads hand requests to each other; one map is shared by two writers; deadlines; results reported over UDP |
| `TES/RequestTES`, `TES/Quiz` | socket, message, answer, qid, sid, deadline, file | accessors, `write()` | copied by value while the descriptor is shared |
| `ECP/ECPManager` | four `std::queue`, their semaphores, one UDP socket, `stats.txt` | `acceptRequests`, `processTQR`, `processTER`, `processIQR`, `sendAnswer` | receiving and sending threads share one socket address |
| `ECP/RequestECP` | message, answer, client address | accessors | |
| `SocketTCP`, `SocketUDP` (one copy in each program) | descriptor, address, connected flag | connect, accept, read, write, send, receive, timeout | end of file, timeouts, a buffer that is not cleared |
| `USER/UserManager` | `_qid`, `_tesname`, `_tesport` | `list`, `request`, `submit` | retries, late answers, half-updated state after a failure |
| `USER` menu and commands | none | `List`, `Request`, `Submit` | which exceptions they catch |
| `score`, `qid`, `toStringDeadline`, line parsers | none | pure | boundaries, calendar |
| `Dialog`, `Debug`, `Exception` | none | terminal output | |

What a correct component does:

* **TES**: a connection is answered and closed exactly once; a questionnaire is
  registered before its student hears of it, graded at most once for each time
  it was issued, for the right student, file and deadline; every score reaches
  the ECP; no pop of an empty queue, no thread left behind at shutdown.
* **ECP**: a datagram is answered exactly once, to its sender; a result is
  written to the file before it is acknowledged, for what the write is worth.
* **TES and ECP together**: the topic server forgets a questionnaire on an
  acknowledgement only if a result of it was written, or its write failed unseen;
  a score is lost only where the network, a restart, a failed write or a reused
  name loses it.
* **texts**: a qid names one student and one second, and what one program writes
  the others accept.
* **user**: what it remembers of a questionnaire agrees with the server that
  issued it; a retry never takes the answer to an earlier call of its own.

`PROJECT.json` lists the hazards behind these, each at its line.

## 2. Modules

* `TesManager` - the topic server. `MCTesManager` - its instance for TLC.
* `Ledger` - what the topic server promises its students. `TesLedger` - the
  mapping under which `TesManager` implements it.
* `Reporter` - how a topic server reports its scores. `TesReporter` - the mapping
  under which `TesManager` implements it.
* `Scores` - `score()`, which gives `MCTesManager` its marks.
* `QuizDates` - the texts of `qid()` and `toStringDeadline()`, and the programs
  that read them. `MCQuizDates` - its instance.
* `EcpManager` - the contact server. `MCEcpManager` - its instance.
* `Reporting` - a `Reporter`, the whole `EcpManager` and the network between them.
  `MCReporting` - its instance.
* `UserManager` - the student's program. `MCUserManager` - its instance.
* `TesManagerProofs`, `TesReportProofs`, `TesGradingProofs`, `LedgerProofs`,
  `EcpManagerProofs`, `ReportingProofs`, `UserManagerProofs`, `QuizDatesProofs` -
  the proofs.

      Ledger <--TesLedger-- TesManager --TesReporter--> Reporter
                                                           |
                                          Reporting == Reporter + network + EcpManager

### How the code is read

A step is what one thread does between two points at which another thread can
see it. A section under a correctly held mutex is one step. A `sem_post` made
before the mutex is released belongs to that step; one made after the release
is a step of its own (`Posting` counts the items between the two).
`_questionariesMutex` is the exception: a handler unlocks it without holding
it, so its lock, its use and its unlock stay separate.

`pc[t]` is the place of thread `t` in its loop: `wait` (in `sem_wait`), `pop`
(woken, `_exit` tested, about to take the mutex), then the labels of its body;
`done` is a thread that returned, `terminated` a process that is gone (`exit()`
or an exception nobody catches).

### TesManager

| variable | code |
|---|---|
| `client`, `line`, `answer` | the connection of a `RequestTES`, its `_message`, its `_answer` |
| `queue[q]`, `sem[q]` | `_requests`, `_rqtRequests`, `_rqsRequests`, `_awiRequests`, `_answers` and their semaphores (and `_answerUDPSem`) |
| `questionaries`, `questionariesMutex` | `_questionaries`, the owner of `_questionariesMutex` |
| `answersUDP`, `sent` | `_answersUDP`; the IQRs handed to `sendto()` |
| `cur`, `quiz`, `iqr` | the local `r` of the TCP threads, `quiz` of `processRQS`, `r` of `answerUDP` |
| `exit`, `now` | `_exit`, `time()` |

One action per section of a thread; its name is the thread's and the
section's: `ProcessRQSFind` is the section of `processRQS` that looks the qid
up. Some choices worth knowing:

* `begin()` of the unordered map is any of its entries (`AnswerUDPSend`).
* The stored entry goes back under the empty key, because the request was built
  from a message and its `_qid` was never set (`AnswerUDPStore`).
* When `processRQT` and `processRQS` are both inside the map, the insertion may
  be lost (`ProcessRQTInsert`) or the process may crash (`MapRace`).
* A client that closes early leaves `SocketTCP::read` in a loop
  (`ProcessTCPSpin`); only the members of `Quitters` do that.
* A qid is the pair of the student and the second. The text `qid()` builds
  tells two students and two local times apart (`QidTellsApart` of
  `QuizDatesProofs`), so the pair stands for it.
* `_answerSem` is never passed to `sem_init`; `new sem_t()` zeroes it, which is
  the value 0 the model starts from.

### EcpManager

`serverAddr` is the one `_serverAddr` of the socket, written by `receive()` and
by `client(addr)`, read by `client()` and `send()`; each use is a step.
`_UDPMutex` is taken by one thread only and excludes nobody. `arrived` keeps
what each datagram was and, for the properties, which earlier ones were still
unanswered. A datagram without a newline overlays the beginning of a buffer that
is not cleared, and with the rest of it may make any line, an earlier one, a
mixture or one that nobody sent, or is refused (`Received`). `stats.txt` is
opened, written and closed unchecked: `Write` adds the line or does not, and the
acknowledgement is queued either way; a line cut short counts as not written,
whatever the next one makes with it. `unwritten` is a history variable with the
results that did not get there. The address and the port are
copied in one store and are not torn. `_exit` is never set, so there is no
shutdown to model. A failure of `recvfrom` changes nothing and is left out.

### Ledger and Reporter

`Ledger` has neither threads nor locks: a questionnaire is dealt (`Deal`), opened
under its qid (`File`) or lost (`Mislay`, the race on the map), taken out once
(`Take`) and marked (`Mark`). Under `TesLedger` the answers of the connections are
what the students were told, `_questionaries` what is open, and the place of
`processRQT` and `processRQS` in their loops what is being filed and what is on
the desk. `ImplementsLedger == Promise!Spec` is a property of the topic server.

`Reporter` keeps of the topic server what reporting needs: `_answersUDP`
(`results`), the datagrams asked for and not yet sent (`due`), the one taken out
(`hand`) and what `answerUDP` does (`phase`). Under `TesReporter` `due` is the
value of `_answerUDPSem` with the post to come and the post just spent. Both
modules let the server do everything the code does, and it is the refinement
that shows they allow enough.

### Reporting

`Reporting` conjoins the actions of `Reporter` with those of `EcpManager` and the
variables between them: `peer`, the one address of the topic server's UDP socket,
which `recvfrom()` sets to the sender of whatever arrives and `sendto()` goes to;
`toEcp`, the IQRs on their way; `toTes`, the qids acknowledged.

* The network: a datagram is received in any order and any number of times
  (`Deliver` may keep it); a lost one is one that is never received.
* `AcceptUDP` makes the contact server or a third party the peer. It needs an
  acknowledgement sent, or a first IQR, without which the port does not exist.
* `EcpRestart` ends the contact server and starts another; it has `stats.txt` and
  nothing else, and may restart at any step.
* A user's requests compete for the contact server's socket, so an
  acknowledgement may go to the user, and is then not in `toTes`.
* A line of `stats.txt` carries no qid; the model keeps the result it came from.
* `lost` is a history variable; it names the ways a score may be lost: sent while
  the peer is a third party, in the contact server when it restarts, dropped
  because its qid already waits, erased by the acknowledgement of another result
  of the same qid. A fifth way, a write of `stats.txt` that fails unseen, is
  `unwritten` of `EcpManager`, which a restart keeps as it keeps the file
  (`Done`: written, or tried). The topic server does not restart: it keeps no
  file.

### Scores

`score()` fills `ans` with the first letters of five words and compares. A
question left out is worth nothing, a wrong one -5, and the total is not
negative. An extraction that fails leaves its string as it was, so a short file
repeats its last word (`Ans`).

### QuizDates

`qid()` runs the fields of the local time together, adds one to all but the year
(and to the month, which counts from zero) and pads each by comparing it with a
limit before it is increased. A text is the sequence of its characters, so that
the module says what the code writes and not what it should mean. `Tm` is the
range of each field of `struct tm` and `Local` is `localtime()`, any function
into it. `cur` is the request `processRQT` is at work on, `quizzes` the keys of
`_questionaries` with the student of each, `told` what the students were answered.

* `Field(n, limit)` is one padded field; the month of September has no zero, since
  its limit is 8 where the others have 9.
* `TakeQid` and `Register` are two steps, because the clock is read for the qid
  and again for the deadline.
* `toStringDeadline(t)` takes the present time: `time(int)` overwrites the deadline
  it is given (`TesManager.cpp:43`).
* `Submit` erases the quiz of the qid it is given: `processRQS` looks at the
  student number only afterwards, so anybody who knows a qid can do it.
* `ReadsQid` and `ReadsDeadline` are the checks of `processRQS`, of the contact
  server (`ECPManager.cpp:358`) and of `UserManager::request`, which also takes the
  month in lower case; no text has it so.

### UserManager

| variable | code |
|---|---|
| `tes`, `qid` | `_tesname` and `_tesport` together; `_qid` |
| `counter`, `file` | `counter`, the number of the last pdf; the pdf files on disk, each as the connection it was read from |
| `question`, `tries`, `host` | the datagram and `i` of the retry loop; `hostname` and `port` of `request` |
| `asked` | what was sent from the `SocketUDP` of this call |
| `sock`, `lines`, `answers` | the number of the connection made last; lines not yet looked at by a topic server, answers written, each with its connection |
| `quizzes`, `now` | `_questionaries` of each topic server, their clock |

The program is one thread; what makes it hard is what arrives late, and what
an exception leaves behind. `pc` is `menu`, `send` and `receive` in the retry
loop, `connect`, `aqt` and `aqs` in the exchanges with a topic server, `spin` in
`readWord` at the end of a stream, `terminated` when the student leaves or an
exception that no command catches ends the program.

* Every call asks the contact server from a socket of its own, so that what its
  answers answer is `asked`: any of it, once, twice, late or never
  (`ReceiveServer`). But `recvfrom()` takes a datagram from any sender, and the
  contact server may send this socket the answer to another (`ecp_astray`):
  `ReceiveAstray` takes whatever server such a datagram names, and `astray`
  remembers it until the call is over.
* `answers` only grows, and a reader takes what came on its own connection.
* `ReceiveList` stands for the ways `list` ends, `ReceiveOther` for the answers
  `EOF`, `ERR` and unreadable ones to `request`, which may come for any topic
  since they too may be astray. `ReceiveTooLong` is the datagram that fills the
  buffer: `List::execute` catches its exception and `Request::execute` does not.
  A failure before anything is sent (a host name that is not found, no socket)
  changes nothing and is left out.
* The pdf is opened and written unchecked (`Store`): the file holds what came on
  this connection, or what it held before.
* `ReadAQTShort` and `ReadAQTFails` differ in whether a pdf was opened, which
  advances `counter` and empties the file.
* The servers are reduced to what they answer one student: `TesIssue` and
  `TesGrade` are `processRQT` and `processRQS` with their locks left out
  (`TesManager` has them), but with what others do to the questionnaire: its
  insertion may be lost, when `processRQS` is inside the map beside `processRQT`
  (`tes_map_race`), and a submission of somebody else's that names its qid takes
  it out before the student number is looked at (`TesTaken`). `mislaid` remembers
  both. The servers do not restart; a restarted topic server knows no
  questionnaire.
* A qid is the second it was issued: there is one student, and two
  questionnaires of one server in one second do share their qid.
* `astray`, `issuer`, `unsettled`, `pdf`, `opened`, `graded`, `mislaid`,
  `unscored` are history variables; no guard reads them.

## 3. Runs

TLC, two workers. `CHECK_DEADLOCK FALSE` everywhere: a server whose clients
have all been served waits for ever, and so does a model whose bound on
datagrams is used up.

| run | bounds | what it shows |
|---|---|---|
| `tes_grading` | 3 clients, 2 `answerTCP` threads, 2 students, 2 files of which one is short, a clock of 2 seconds with a deadline of 1, malformed submissions | `TypeOK`; `SemCountsQueue`: posts, posts to come and woken threads account for every queued item; `OnePlace`: a connection is in exactly one place; `QuizReady`, `GradedOnce`, `GradedAsIssued`; `ImplementsLedger` |
| `tes_report` | 4 clients, 2 students, acknowledgements and noise | `NoBeginOnEmpty`; `IqrHonest`: a report always matches a graded submission; `ImplementsReporter` |
| `tes_live` | 2 clients, every kind of line and datagram, a missing pdf, one client that may close early, failures of `bind` and `accept` | `NoPopFromEmpty` through a shutdown; `StuckOnlyWhenServed`: the threads never all wait with a connection left; `ShutdownLeavesNobody`: the wake-ups of a shutdown are enough; `EveryClientAnswered`, `IqrSentUnlessOvertaken`, `ShutdownWakes` under fairness |
| `ecp_answers` | 2 datagrams of any kind from 2 senders, all failures | `TypeOK`, `SemCountsQueue`, `OnePlace`; `RecordedWhenAcknowledged`: an acknowledgement stands for one writing of its result; `OwnAnswerUnlessOverlap`; `AnswersItsDatagram`: what is sent for a datagram is an answer to it; `StuckOnlyWhenAnswered`: the threads never all wait with a datagram unanswered; `EveryDatagramAnswered` under fairness |
| `dates` | 2 students, 6 moments, 3 questionnaires | `OneStudentPerQid`: a qid is one student's and one second's; `ReadByAll`: every text passes the checks of its readers |
| `reporting` | 2 scores of one qid and 1 of another, 2 datagrams received by the contact server, 1 restart | `AckedMeansRecorded`: an acknowledged qid has a result in `stats.txt` or one that could not be written there; `Accounted`: a score is somewhere or was lost in a named way |
| `usr_session` | 3 connections, 3 topics of which one unknown, 2 topic servers of which one may close early, 2 tries, 2 pdf numbers, a clock of 2 seconds with a deadline of 1 | `TypeOK`; `AnswerToThisCall`; `SubmitsToIssuer`, `InvalidOnlyAfterLoss`, `ForgottenOnceGraded`: what a session remembers of its questionnaire; `PdfKept`; `EveryCommandEnds` under fairness |

Why the bounds suffice: a hazard of the hand-over needs two items in one queue
and two consumers; one of the grading needs two submissions competing for a
qid that a third client may have issued again in the same second; the report
needs one entry stored under the empty key and two results waiting, hence four
clients; a stray answer needs two senders. In `reporting` a second result of a
qid must wait while the first is acknowledged, beside one that may take the
empty key, and a user's request or a repeated IQR must overlap the report: three
scores and two datagrams. In `ecp_answers` every hazard is one of two
datagrams: two in one queue, one read from what the other left in the buffer, one
that redirects the answer to the other. The moments of `dates` lie on both sides
of the limits of the fields, with September and the last second of a year. Three
connections let a student complete a request and submit it, with a request to
the other server begun and broken off between the two, or submit it twice, or make
three requests with two pdf numbers, so that they wrap; questions to the contact
server are not bounded while a connection is left. Two tries make the last one
differ from the first. `MaxAwi` bounds the queue of acknowledgements,
which a network may repeat without end. Clients, threads and students are
symmetric in the safety runs of the topic server, and so are the two scores of
one qid in `reporting`; no other run uses symmetry. The theorems of section 4
hold without any of the bounds.

Five more runs show where the code departs from what its comments say; each is
a finding in `PROJECT.json`:

* `tes_map_race` - two threads inside `_questionaries`;
* `tes_iqr_stuck` - a result stays in `_answersUDP` unsent;
* `tes_read_spins` - a read that never ends;
* `tes_shutdown_hangs` - `answerUDP` is not woken at shutdown;
* `ecp_astray` - an answer goes to another sender.

The other properties take these into account: `QuizReady` allows for a quiz
taken by a submission that names it and for malformed submissions,
`IqrSentUnlessOvertaken` speaks of a result no other overtakes,
`OwnAnswerUnlessOverlap` of requests that do not overlap, `ShutdownWakes` leaves
out `answerUDP` and `acceptUDP`, `EveryClientAnswered`, `ShutdownWakes` and
`EveryCommandEnds` name the read that never ends, `AnswerToThisCall` what a socket
was sent that answers nothing sent from it, `InvalidOnlyAfterLoss` the
questionnaires others lost. The liveness properties ask nothing of a process that
ended, and `ForgottenOnceGraded` speaks of a session that goes on: a program that
ends, as after a refused connection (`SubmitRefused`), forgets its questionnaire.

What passes must not be read for more than it says. `RecordedWhenAcknowledged` and
`AckedMeansRecorded` do not promise that an acknowledged score is in the file: a
write may fail unseen, and they say that nothing else may. Nor do they promise one
line for a score: an IQR that is delivered twice, or made again by what is left in
the buffer, is a line and an acknowledgement like any other. `OneStudentPerQid`
does not keep a stranger from erasing a quiz, nor two requests within one second
from sharing a qid, although `TesManager.h:116` promises a new one.

### Fairness

Weak fairness of each thread: the operating system runs a thread that can go
on, and a semaphore that stays posted lets somebody through. It is weak because
a consumer, once its semaphore is posted, stays enabled until it runs; where ten
threads share a semaphore, any of them will do, and a mutex is only contended by
threads that release it. Nothing is assumed of the clients, the clock, the
network or the failures of `bind` and `accept`. A read from a client that stays
connected is taken to end, with a line or with the timeout; a client that sends
a byte every ten seconds is outside the model.

Of the student's program each wait is weakly fair (`Ask`, `Fetch`, `Mark`):
`recvfrom` and `read` carry a timeout, so a wait ends with an answer or without.
Nothing is assumed of the student, the servers or the network.

`Reporting` assumes no fairness and checks safety only: nothing in the code
repeats a report, so nothing promises that one arrives.

## 4. Proofs

Every safety property of the passing runs is proved, and so are both
refinements, for every value of the constants allowed by the assumptions:
`TesAssumption` and `LedgerNone` (any number of clients, `answerTCP` threads,
students, files and seconds), `EcpAssumption` (senders, lines, datagrams),
`UserAssumption` (connections, topics, servers, tries, pdf numbers),
`ReportingAssumption` (scores, names, datagrams, restarts) and `DatesAssumption`
(students, moments). They say that numbers are natural, that `None` and the empty
key are no value, that the scores are between 0 and 100, that a student is a number
`processRQT` accepts and that `localtime()` keeps the fields of `struct tm` in their
ranges; TLC evaluates each on the runs. `Ledger` states what it needs of
its constants as `ConstantsOK`, which its theorems assume and `LedgerFacts` proves
from the topic server's assumptions.

### TesManagerProofs

* `Inductive`, `TypeCorrect`, `OnePlaceAlways`
* `CountsAlways`, `SemCountsQueueAlways`, `NoPopFromEmptyAlways`
* `PlacesAlways`, `StuckOnlyWhenServedAlways`, `ShutdownLeavesNobodyAlways`

`TypeOK` is not inductive: `ProcessRQTInsert` builds a quiz from `answer[c]`,
which has the fields it reads only if the thread is at `insert` with a request
answered AQT; `ProcessRQSGrade` needs the line of its request to be a
well-formed RQS. Nor is `OnePlace`: taking the head of a queue keeps it only if
the local variable it goes to is empty at that label. So

    IInv == TypeOK /\ OnePlace /\ CurOK /\ LinesOK /\ LocalsOK

`CurOK` says at which labels a thread holds a request and that no thread
overwrites the one it holds, `LinesOK` that a request that waits to be read has
no line yet and that those in `rqtRequests` and `rqsRequests` carry a line of
their kind, `LocalsOK` that `quiz`, `iqr` and the answer a thread is about to
use are set. How a request moves is proved once (arrival, pop, push, close each
keep `OnePlace`); then one lemma per thread splits its actions and proves the
conjuncts one by one, and `Inductive` splits `Next` by thread.

`SemCountsQueue` balances each queue before a shutdown: what the semaphore holds,
what is pushed and not yet posted and what the woken threads are about to take
add up to its length. It says nothing once the wake-ups of a shutdown have been
posted, and `NoPopFromEmpty` is needed there too. The invariant `CInv` (with
`CountsAlways`) is the balance while `exit` is down and, at any time, that there
are no more woken threads than items. A thread is counted with the cardinality
of the set of consumers at `pop`, so the work is in a few lemmas on how that set
and the set of threads at a post change when one thread moves.

That the server has no deadlock is the part of its liveness that needs no
fairness. In a state from which no thread can go on, before a shutdown, the balance
leaves no item in a queue whose consumers all wait, since nothing is posted, about
to be posted or popped; `OnePlace` leaves no other place for a connection; and
nobody waits for the mutex, because whoever holds it is inside the map and can go
on. `DInv` supplies that last fact and the places a thread can be in: only
`processTCP` is ever kept in a read, only `processRQT` and `processRQS` wait for the
mutex, and a thread returns only after a shutdown (`PlacesOK`). For
`ShutdownLeavesNobody` it adds that, once `acceptRequestsTCP` has returned from its
wake-ups, each semaphore holds a post for every thread still asleep on it
(`WakeOK`): every step of a thread keeps this because none goes to sleep once
`_exit` is up and each that wakes takes one post and is one sleeper less. The ten
`answerTCP` threads share a semaphore, so both are counted. The proof goes
through `Moves`, what a step of a thread inside its loop may do, which each of the
actions is shown to satisfy once.

### TesReportProofs

* `NoBeginOnEmptyAlways`, `ReporterImplemented`

The posts of `_answerUDPSem` do not count `_answersUDP`: `processAWI` erases
entries that posts still announce. The map is not empty all the same, for a
reason that is not obvious from `answerUDP`: an entry can only be erased by an
acknowledgement, an acknowledgement follows a send, and every send stores what
it sent back under the empty key, which no acknowledgement names. `RInv` (with
`ReportAlways`) says this in two phases: until something was sent no
acknowledgement is queued and an entry is there whenever a send is expected;
afterwards the empty key is there or `answerUDP` is about to store it. It rests
on the contact server acknowledging only what it was sent.

`ReporterImplemented` shows that every step of the ten threads is a step of
`Reporter` or leaves its variables alone. The steps fall into those a reporter does
not see (`Aside`), those that end the process (`Dies`) and the five that are its
actions. `SInv` adds to `IInv` that everything in the map is a score the server
can put together and that `answerUDP` does not outlive the other threads.

### LedgerProofs and TesGradingProofs

* `LedgerInvariant`, `AtMostOnceAlways`, `MarkedAsDealtAlways`
* `Implements`, `GradedOnceAlways`, `QuizReadyAlways`, `GradedAsIssuedAlways`,
  `IqrHonestAlways`
* `ScoreInRange`, `FullMarks`, `NoFileNoMarks`, `NoWorseWithoutAWrongAnswer`

In the ledger the number of scores given for a qid, with the questionnaires of
that qid being filed, open and being marked, is at most the number dealt
(`Balance`), and whatever is open or on the desk is as it was dealt (`AsDealt`).

`Implements` needs two things `IInv` does not say: that a request has no answer
until the thread that answers it does so (`AnswersOK`), or the ledger would see a
connection told twice, and that `processRQS` holds a quiz only while it marks it
(`DeskOK`). `GradedOnceAlways` is then the ledger's balance read through the
mapping. `QuizReady` needs the reverse direction, that nothing but a submission
takes a quiz out: `GInv` says that the student of a quiz is the one in its qid
(`IssuedTo`, `QuizSid`), that the two users of the map exclude each other as long
as no submission was malformed (`Excludes`), and that a questionnaire is being
registered or available from the moment it is answered (`Registered`).
`GradedAsIssued` and `IqrHonest` follow from what each of the four ways to answer
a request does to the lines and the answers.

The others are about `score()` alone: whatever the file holds, a mark is between 0
and 100 and is never mistaken for -1 or -2; it is 0 when the file is missing; and
leaving out, or answering rightly, a question that was answered wrongly never
lowers it, although the total is cut off at zero.

### EcpManagerProofs

* `ContactInductive`, `ContactTypeCorrect`, `OnePlaceAlways`,
  `SemCountsQueueAlways`, `RecordedAlways`, `OwnAnswerUnlessOverlapAlways`,
  `StuckOnlyWhenAnsweredAlways`, `AnswersItsDatagramAlways`

    EInv == TypeOK /\ ThreadsOK /\ FitsOK /\ KnownOK /\ OnePlace
              /\ SemCountsQueue /\ (Running => CurOK)

`ThreadsOK` gives each thread its labels, `CurOK` the labels at which it holds
something, `FitsOK` says which requests are in which queue and that those that
wait for `sendAnswer` are answered, `KnownOK` that no datagram is invented.
`RecordedWhenAcknowledged` compares two lengths with a cardinality: the step of
`processIQR` that appends a line, or fails to, is the one that adds one identity to
`Acked`, and `Apart` makes it a new one. For `OwnAnswerUnlessOverlap`, `OInv` says that, as long
as nothing overlapped, everything unanswered has one sender, that this is the
address of the socket (`OneSender`), and that each request carries the address of
its sender (`ClientsOK`).

`StuckOnlyWhenAnswered` is a consequence of `EInv`: with all the threads waiting and
no post left, the balance makes the queues empty and `OnePlace` puts every datagram
among those sent. `AnswersItsDatagram` is not inductive: an answer is made of the line
of a request that went through two queues, and that line may be one the buffer
made of the datagram. `AInv` says of every request, in a queue or in a
thread, that its line is one its datagram can have been read as and its answer, if
it has one, an answer to that line (`AsRead`).

### ReportingProofs

* `ReportingInductive`, `AckedMeansRecordedAlways`, `AccountedAlways`

    PInv == EcpType /\ Acks /\ AckedMeansRecorded /\ TesType /\ Kept /\ Accounted

Both properties follow a score downstream. `Acks`: the result of an AWI in the
queue of answers or in a thread was written or its write failed, for the same
reason as in `EcpManager` alone, but without `OnePlace`, so that it survives
restarts. `Kept`: what the reporter holds or keeps under the empty key was sent
before, so it is on its way, in the contact server, written or not, or lost, and
the copy may be dropped.
The steps of the contact server are shown once to lose nothing (`Grows`), and
each action of `Reporting` is then one lemma.

### UserManagerProofs

* `SessionInductive`, `SessionTypeCorrect`, `AnswerToThisCallAlways`,
  `SubmitsToIssuerAlways`, `InvalidOnlyAfterLossAlways`, `PdfKeptAlways`,
  `ForgottenOnceGradedAlways`

`UInv` adds to the properties: what a command has at each label (`CallOK`); that
only what the call asks is sent from its socket, so that an answer to it is one to
this call, and that a connection is used by one call (`SocketsOK`); that a line
that hands in a questionnaire is the one of this call or of a call that heard no
score (`HandedIn`); that the submission under way is that of the
questionnaire at hand (`SubmissionOK`); that a questionnaire its server has not
taken out waits there, unless others lost it (`WaitsOK`), which is what makes -2
imply an earlier loss; and that the numbers of the pdf files run on from that of
the questionnaire at hand (`FilesOK`).

### QuizDatesProofs

* `QidTellsApart`, `QidFits`, `DeadlineIsRead`
* `OneStudentPerQidAlways`, `ReadByAllAlways`

The first three are about the two functions, for every student and every local
time. That a qid has no separators between year, month and day is harmless only
because of what the lengths are: the student has five digits, the year four, a
field two, except the month, which has one in September. Two texts that are equal
are taken apart from the left, where parts of equal length must agree
(`SameParts`), and what is left in the middle is a month and a day: if one month is
September and the other is not, the lengths of the whole texts differ. Each
part is then shown to determine its number (`SameNumber`, `Padded`, `FieldFacts`).

`OneStudentPerQid` and `ReadByAll` rest on `MadeInv`: whatever is in the map, in hand
or was told under a qid was made by `qid()` from its own student and some time.
That an entry is overwritten under a qid in use, or erased, keeps this.

### Only model-checked

Liveness under fairness, which is out of the prover's reach
(`EveryClientAnswered`, `IqrSentUnlessOvertaken`, `ShutdownWakes`,
`EveryDatagramAnswered`, `EveryCommandEnds`), and the five runs that show a
departure. Of the first, third and fourth the part without fairness is proved:
`StuckOnlyWhenServed`, `ShutdownLeavesNobody` and `StuckOnlyWhenAnswered` leave only
that threads that can go on do.

## 5. Not modelled, and limits

* Parsing and file contents: a line is well-formed or not, a topic is a
  number. A parser is a chain of tests on one string, each ending in the same
  exception; the models choose which side a line is on.
* The deadline a student reads. `TesManager.h:175` says that `toStringDeadline()`
  converts a timestamp, and `Request.cpp:22` prints the text as the limit; what it
  is made of is the present time with day, hour, minute and second one too large
  (`TesManager.cpp:43`). `QuizDates` writes it that way, but no state depends on it.
* The repeated hour when daylight saving ends: two moments with the same local
  time have one qid, as two requests within a second do. `QidTellsApart` is
  about local times.
* `Dialog`, `Debug` and the exception classes: output, and types whose handlers are
  in the control of the modelled threads. `read(int)`, `end()` and the accessors of
  the sockets change nothing that is modelled; ECP has a copy of `SocketTCP` and
  does not use it.
* Steps that no other thread can tell apart are merged: popping a request and
  parsing it, taking an entry of `_answersUDP` and sending it, the reads of the
  clock for the qid and for the deadline of one request (apart in `QuizDates`).
* `signal(SIGPIPE, SIG_IGN)` is called at the start of `processRQT` only
  (`TesManager.cpp:360`), before the thread first waits; the models take it to be in
  force before the first answer is written. The user's program never calls it: a
  write to a server that closed ends it, as an exception it does not catch does.
* `_requestID++` by two threads without a lock; it only numbers log lines.
* Two requests of a student within a second get one qid, although
  `TesManager.h:116` says `qid()` "always returns new quiz id". The models have
  this; `GradedOnce` counts the times a qid was issued, `QuizReady` allows for it,
  and `reporting` has two scores of one qid.
* `Request::execute` asks whether to give up the questionnaire at hand and does
  not look at the answer (`Request.cpp:13`); in the model a request goes on.
* `UserManager::list` tells "no questionnaire" by `stream.get(&c, 1)`, which
  never yields the newline it looks for, so the student is told of an unknown
  format instead: a text, not in the model.
* The topic server and the user's program keep nothing on disk that they read
  again, so a restart of either is a new run of its model.
* `UserManager` has its own reduction of the topic server (`TesIssue`, `TesGrade`)
  instead of an instance of `TesManager`: a student sees only what the ledger
  promises, with what it may mislay, and the product of the two state spaces is
  out of TLC's reach.

## 6. How the project was built

1. `TesManager`, its instance and its type and hand-over theorems: most of the
   concurrency is there.
2. `EcpManager` and `UserManager`, each with its own properties.
3. The abstract modules `Ledger` and `Reporter` and the refinements, first as
   properties TLC checks, then as theorems.
4. `Reporting`, which uses `Reporter` in place of `TesManager` and so stays small
   enough to check with the whole contact server.
5. The proofs of the properties TLC had found to hold.
6. The freedom from deadlock of both servers, checked and then proved, and
   `QuizDates`, which justifies the qids of the other models.

What could be added: the other parsers as operators against a grammar, and a topic
server that is started again while a session goes on.
