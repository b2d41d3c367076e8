SPECIFICATION Spec
CONSTANTS
  Parameters <- MCDays
  DialogStyle = "Fluent"
  CloseReturns = FALSE
  Offset = 1
  Horizon = 4
INVARIANT DaysHold
