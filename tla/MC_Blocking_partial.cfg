SPECIFICATION Spec
CONSTANTS
  Host = {h1}
  App = {a1}
  Exe = {e1, e2}
  Failures = TRUE
  Concurrent = FALSE
INVARIANT AlwaysUnblockedAtClose
