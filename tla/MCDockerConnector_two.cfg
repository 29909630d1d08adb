SPECIFICATION Spec
CONSTANTS
    c1 = c1
    c2 = c2
    NoCid = NoCid
    Cids = {c1, c2}
    RefreshCap = 1
    StatusCap = 1
    InitialStates = {"absent", "running"}
    MaxChanges = 3
    Faults = {"inspect"}
    InspectHasStatus = TRUE
INVARIANTS
  GhostExplained
  MissingExplained
  SettledStates
PROPERTIES
  NeverForgetsLive
SYMMETRY Symmetry
CHECK_DEADLOCK FALSE
