SPECIFICATION Spec
CONSTANTS
  Clients = {c1, c2, c3}
  Answerers = {a1, a2}
  Sids = {s1, s2}
  Sheets = {"right"}
  Files = {1, 2}
  PdfPresent = {1, 2}
  Score <- MCScore
  Window = 1
  Kinds = {"RQT", "RQS", "badRQS"}
  Quitters = {}
  Noise = {}
  MayFail = FALSE
  MaxTime = 1
  MaxAwi = 0
  EmptyKey = EmptyKey
  None = None
SYMMETRY Symmetry
CHECK_DEADLOCK FALSE
INVARIANTS TypeOK SemCountsQueue OnePlace QuizReady GradedOnce
PROPERTIES GradedAsIssued ImplementsLedger
