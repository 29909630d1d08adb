SPECIFICATION OrderlySpec
CONSTANTS
  Callers = {c1, c2}
  MaxCalls = 5
  MaxOverlapping = 3
INVARIANTS
  InStep
  
  FlagHasOwner
PROPERTIES
  GoesBlank
  
CHECK_DEADLOCK FALSE
