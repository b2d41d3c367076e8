SPECIFICATION FairSpec
CONSTANTS
  Parameters <- MCDeferOrCountdown
  DialogStyle = "Fluent"
  CloseReturns = FALSE
  Offset = 0
  Horizon = 0
PROPERTY GetsInstalled
