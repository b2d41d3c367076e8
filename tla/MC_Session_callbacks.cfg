SPECIFICATION FairSpec
CONSTANTS
  App = {a1}
  Code <- MCFailureCodes
  FastRetryCodes = {1618, 60012}
  RebootCodes = {1641, 3010}
  SuccessCodes = {0}
  Wim = {}
  Drive = {}
  Callback = {c1}
  TerminalServer = {FALSE, TRUE}
  RebootPassThru = {FALSE}
  ConsoleHost = TRUE
  MaxDepth = 1
INVARIANT FlagMeansInstall
PROPERTIES CallsAdvance CallReturns
