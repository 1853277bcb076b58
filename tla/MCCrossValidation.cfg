SPECIFICATION Spec
CONSTANTS
  MaxRows = 4
  Labels = {0, 1}
  FoldCounts = {2, 3}
  MaxRounds = 3
  Metrics <- MCMetrics
  Higher <- MCHigher
  Scores = {0, 1, NaN}
  NaN = NaN
  Patiences = {0, 1, 2}
  Deltas = {0, 1}
  None = None
INVARIANTS
  OutOfSample
  HeldOutOnce
  PatienceIsKept
  HistoryIsWhole
PROPERTIES
  StopsOnTheBest
CHECK_DEADLOCK FALSE
