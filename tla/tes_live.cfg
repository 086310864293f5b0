SPECIFICATION FairSpec
CONSTANTS
  Clients = {c1, c2}
  Answerers = {a1}
  Sids = {s1}
  Sheets = {"blank"}
  Files = {1, 2}
  PdfPresent = {1}
  Score <- MCScore
  Window = 1
  Kinds = {"RQT", "RQS", "badRQT", "badRQS", "other"}
  Quitters = {c1}
  Noise = {"unterminated"}
  MayFail = TRUE
  MaxTime = 0
  MaxAwi = 1
  EmptyKey = EmptyKey
  None = None
CHECK_DEADLOCK FALSE
INVARIANTS NoPopFromEmpty StuckOnlyWhenServed ShutdownLeavesNobody
PROPERTIES EveryClientAnswered IqrSentUnlessOvertaken ShutdownWakes
