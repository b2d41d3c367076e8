SPECIFICATION Spec
CONSTANTS
  MaxDepth = 1
  MaxStrays = 1
INVARIANT OpensAgain
