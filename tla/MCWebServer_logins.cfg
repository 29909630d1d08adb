SPECIFICATION WebSpec
CONSTANTS
  Browsers = {b1, b2}
  Addresses = {"shared"}
  AddressOf <- Shared
  MaxSessions = 2
  AbsoluteTTL = 2
  DefaultIdle = 1
  Option = 1
  MaxAttempts = 1
  Window = 2
  MaxIds = 3
  MaxTime = 3
  MaxTokens = 2
INVARIANTS
  ServerOK
  
  StatusAgrees
PROPERTIES
  SessionsLast
  TokenKept
SYMMETRY Symmetry
CHECK_DEADLOCK FALSE
