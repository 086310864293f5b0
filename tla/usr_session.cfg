SPECIFICATION FairSpec
CONSTANTS
  A = A
  B = B
  None = None
  t1 = t1
  t2 = t2
  t3 = t3
  Topics = {t1, t2, t3}
  Servers = {A, B}
  Directory <- TwoServers
  Closers = {B}
  Tries = 2
  LastCounter = 2
  Window = 1
  MaxTime = 1
  MaxSocks = 3
CHECK_DEADLOCK FALSE
INVARIANTS TypeOK AnswerToThisCall SubmitsToIssuer InvalidOnlyAfterLoss PdfKept
PROPERTIES ForgottenOnceGraded EveryCommandEnds
