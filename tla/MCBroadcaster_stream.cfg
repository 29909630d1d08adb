SPECIFICATION FairSpec
CONSTANTS
  Clients = {c1, c2}
  Stalled = {c1}
  ChanCap = 1
  Subscribers = 2
  History = 3
  Resizes = {2}
  MaxEvents = 4
INVARIANTS
  
  AtMostOneLate
PROPERTIES
  
  StreamServes
CHECK_DEADLOCK FALSE
