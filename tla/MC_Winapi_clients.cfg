SPECIFICATION FairSpec
CONSTANTS
  None = None
  Targets = {t1, t2}
  Existing = {t2}
  Addrs = {a1, a2}
  Methods = {"launch", "attach", "detach", "pause", "go", "bpSet", "bpClear", "writeMem"}
  MaxBps = 2
  MaxEvents = 2
  Clients = {TRUE, FALSE}
INVARIANTS
  TypeOK
  BreakpointsAreExact
  ReleasedCodeIsClean
  FrozenCanDetach
PROPERTIES
  WritesOnlyWhileStopped
  EveryRequestAnswered
CHECK_DEADLOCK FALSE
