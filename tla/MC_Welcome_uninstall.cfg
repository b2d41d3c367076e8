SPECIFICATION Spec
CONSTANTS
  Parameters <- MCInstallAndUninstall
  DialogStyle = "Fluent"
  CloseReturns = FALSE
  Offset = 0
  Horizon = 0
INVARIANT AllGranted
