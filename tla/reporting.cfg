SPECIFICATION Spec
CONSTANTS
  first = first
  second = second
  only = only
  Iqrs <- TwoAndOne
  Qids = {"q1", "q2"}
  MaxDatagrams = 2
  MaxRestarts = 1
  EmptyKey = ""
  None = None
SYMMETRY Symmetry
CHECK_DEADLOCK FALSE
INVARIANTS AckedMeansRecorded Accounted
