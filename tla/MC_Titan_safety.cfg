SPECIFICATION Spec
CONSTANTS
  None = None
  Methods = {"launch", "attach", "go", "kill", "query", "shutdown"}
  MaxRequests = 4
  MaxSessions = 2
  MaxStops = 2
  Timeouts = TRUE
  Polite = FALSE
INVARIANTS
  TypeOK
  AnsweredOnce
CHECK_DEADLOCK FALSE
