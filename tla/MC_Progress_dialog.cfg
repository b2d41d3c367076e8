SPECIFICATION FairSpec
CONSTANTS
  MaxDepth = 2
  MaxStrays = 2
INVARIANTS TypeOK NoOrphan NoStrays RunningMeansOpen GoneAtExit
PROPERTIES CallsAdvance CallReturns
