SPECIFICATION Spec
CONSTANTS
  Host = {h1}
  Installer = {i1}
  ExitCode <- MCExitCodes
  Call <- MCMixedCalls
  LongestWait = 2
  MaxCalls = 2
  FastRetryCodes = {1618, 60012}
  RebootCodes = {1641, 3010}
  SuccessCodes = {0}
INVARIANTS FailureKept
