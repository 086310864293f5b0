SPECIFICATION Spec
CONSTANTS
  Peers = {p1, p2}
  Lines <- OfEachQueue
  Results = {r1}
  Topics = 1
  MaxDatagrams = 2
  MayFail = FALSE
  None = None
CHECK_DEADLOCK FALSE
INVARIANT OwnAnswer
