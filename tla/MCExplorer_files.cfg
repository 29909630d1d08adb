SPECIFICATION ExplorerSpec
CONSTANT
  Readers = {r1}
INVARIANTS
  
  DeletedStayAway

  
CHECK_DEADLOCK FALSE
