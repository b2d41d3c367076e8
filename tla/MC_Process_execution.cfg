SPECIFICATION FairSpec
CONSTANTS
  Host = {h1}
  Installer = {i1, i2}
  ExitCode <- MCExitCodes
  Call <- MCCalls
  LongestWait = 2
  MaxCalls = 2
  FastRetryCodes = {1618, 60012}
  RebootCodes = {1641, 3010}
  SuccessCodes = {0}
INVARIANTS TypeOK NothingHeld FailureReported BusyIsRetried
PROPERTIES CallsAdvance CallReturns
