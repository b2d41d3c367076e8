SPECIFICATION FairSpec
CONSTANTS
  App = {a1, a2}
  Interval <- MCInterval
  LoopFresh <- MCLoopFresh
  WindowFresh <- MCWindowFresh
PROPERTY ReflectsRunning
