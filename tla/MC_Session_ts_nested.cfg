SPECIFICATION FairSpec
CONSTANTS
  App = {a1}
  Code <- MCFailureCodes
  FastRetryCodes = {1618, 60012}
  RebootCodes = {1641, 3010}
  SuccessCodes = {0}
  Wim = {}
  Drive = {}
  Callback = {}
  TerminalServer = {FALSE, TRUE}
  RebootPassThru = {FALSE}
  ConsoleHost = TRUE
  MaxDepth = 2
PROPERTY TerminalServerHeld
