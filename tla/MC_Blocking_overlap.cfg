SPECIFICATION Spec
CONSTANTS
  Host = {h1, h2}
  App = {a1, a2}
  Exe = {e1, e2}
  Failures = FALSE
  Concurrent = TRUE
INVARIANT SafetyNet
