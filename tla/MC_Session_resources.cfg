SPECIFICATION Spec
CONSTANTS
  App = {a1}
  Code <- MCFailureCodes
  FastRetryCodes = {1618, 60012}
  RebootCodes = {1641, 3010}
  SuccessCodes = {0}
  Wim = {w1}
  Drive = {D, E}
  Callback = {}
  TerminalServer = {FALSE}
  RebootPassThru = {FALSE}
  ConsoleHost = TRUE
  MaxDepth = 2
INVARIANTS NothingLost DriveExclusive
