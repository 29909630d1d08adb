SPECIFICATION TuiSpec
CONSTANTS
  Containers = {a, b}
  Heights = {1}
  MaxVersion = 1
INVARIANT
  TuiOK
PROPERTIES
  
  Recovers
  ColumnsKept
CHECK_DEADLOCK FALSE
