SPECIFICATION Spec
CONSTANTS
  Parameters <- MCTimes
  DialogStyle = "Fluent"
  CloseReturns = TRUE
  Offset = 0
  Horizon = 1
INVARIANTS HistoryInv NeverTooOften AllGranted
PROPERTY ClosedBeforeInstall
