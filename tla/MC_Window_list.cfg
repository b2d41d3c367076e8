SPECIFICATION FairSpec
CONSTANTS
  App = {a1, a2}
  Interval <- MCInterval
  LoopFresh <- MCLoopFresh
  WindowFresh <- MCWindowFresh
INVARIANTS TypeOK StaleRounds
PROPERTIES LeavesList GetsListed LoopStops
