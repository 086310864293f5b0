SPECIFICATION Spec
CONSTANTS
  Clients = {c1, c2, c3, c4}
  Answerers = {a1}
  Sids = {s1, s2}
  Sheets = {"right"}
  Files = {1}
  PdfPresent = {1}
  Score <- MCScore
  Window = 1
  Kinds = {"RQT", "RQS"}
  Quitters = {}
  Noise = {"ERR"}
  MayFail = FALSE
  MaxTime = 0
  MaxAwi = 1
  EmptyKey = EmptyKey
  None = None
SYMMETRY Symmetry
CHECK_DEADLOCK FALSE
INVARIANTS NoBeginOnEmpty IqrHonest
PROPERTY ImplementsReporter
