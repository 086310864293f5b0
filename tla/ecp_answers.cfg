SPECIFICATION FairSpec
CONSTANTS
  Peers = {p1, p2}
  Lines <- AllLines
  Results = {r1, r2}
  Topics = 1
  MaxDatagrams = 2
  MayFail = TRUE
  None = None
CHECK_DEADLOCK FALSE
INVARIANTS
  TypeOK SemCountsQueue OnePlace RecordedWhenAcknowledged OwnAnswerUnlessOverlap
  AnswersItsDatagram StuckOnlyWhenAnswered
PROPERTY EveryDatagramAnswered
