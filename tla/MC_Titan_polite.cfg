SPECIFICATION FairSpec
CONSTANTS
  None = None
  Methods = {"launch", "attach", "go", "kill", "query"}
  MaxRequests = 6
  MaxSessions = 2
  MaxStops = 2
  Timeouts = FALSE
  Polite = TRUE
INVARIANTS
  ShownIsTrue
PROPERTIES
  EveryRequestAnswered
  KilledTargetEnds
CHECK_DEADLOCK FALSE
