SPECIFICATION FairSpec
CONSTANTS
  Clients = {c1, c2}
  Answerers = {a1}
  Sids = {s1}
  Sheets = {"right"}
  Files = {1}
  PdfPresent = {1}
  Score <- MCScore
  Window = 1
  Kinds = {"RQT"}
  Quitters = {c1}
  Noise = {}
  MayFail = FALSE
  MaxTime = 0
  MaxAwi = 0
  EmptyKey = EmptyKey
  None = None
CHECK_DEADLOCK FALSE
PROPERTY EveryReadEnds
