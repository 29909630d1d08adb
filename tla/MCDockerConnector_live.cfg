SPECIFICATION FairSpec
CONSTANTS
    c1 = c1
    c2 = c2
    NoCid = NoCid
    Cids = {c1, c2}
    RefreshCap = 1
    StatusCap = 1
    InitialStates = {"absent", "exited", "running"}
    MaxChanges = 1
    Faults = {"list", "listen", "stream", "inspect", "close"}
    InspectHasStatus = TRUE
PROPERTIES
  
  Converges
CHECK_DEADLOCK FALSE
