SPECIFICATION FairSpec
CONSTANTS
  MaxCalls = 5
  MaxConns = 3
  MaxDepth = 3
INVARIANTS
  AloneGetsOwn
  NothingLeftOver
PROPERTIES
  CallsReturn
CHECK_DEADLOCK FALSE
