SPECIFICATION Spec
CONSTANTS
  Containers = {c1, c2, c3}
  Heights = {0, 1, 2, 3}
  MaxVersion = 2
INVARIANT
  TableOK
PROPERTIES
  SelectionKept
  KeysKeepInView
SYMMETRY Symmetry
CHECK_DEADLOCK FALSE
