SPECIFICATION FairSpec
CONSTANTS
  Parameters <- MCDates
  DialogStyle = "Classic"
  CloseReturns = FALSE
  Offset = 0
  Horizon = 3
INVARIANTS DaysHold StopsWhenTold
PROPERTY GetsInstalled
