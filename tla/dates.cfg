SPECIFICATION Spec
CONSTANTS
  Sids = {10001, 76543}
  Instants <- AllMoments
  Local <- Moments
  MaxTold = 3
  None = None
CHECK_DEADLOCK FALSE
INVARIANTS OneStudentPerQid ReadByAll
