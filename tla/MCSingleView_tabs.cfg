SPECIFICATION ViewSpec
CONSTANTS
  Cap = 2
  Chunk = 2
  Lines = 7
  MaxEntries = 3
  Height = 1
  Matching = {2, 3}
  Discovered <- Lists
  Numbers = {"81", "8081", "90"}
  MaxFetches = 3
  MaxRounds = 3
  MaxDiffs = 2
INVARIANTS
  ViewOK
PROPERTIES
  PortKept
  PausedStays
  PageArrives
  
  Departs
CHECK_DEADLOCK FALSE
