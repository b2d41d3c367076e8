SPECIFICATION Spec
CONSTANTS
  App = {a1}
  Code <- MCCodes
  FastRetryCodes = {1618, 60012}
  RebootCodes = {1641, 3010}
  SuccessCodes = {0}
  Wim = {}
  Drive = {}
  Callback = {}
  TerminalServer = {FALSE}
  RebootPassThru = {FALSE, TRUE}
  ConsoleHost = TRUE
  MaxDepth = 2
INVARIANTS TypeOK Inv FreshVerdict ExitUnderOpenSession
PROPERTIES KeepsVerdict FailureSticks
