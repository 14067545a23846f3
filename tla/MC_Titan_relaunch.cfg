SPECIFICATION FairSpec
CONSTANTS
  None = None
  Methods = {"launch"}
  MaxRequests = 2
  MaxSessions = 2
  MaxStops = 1
  Timeouts = TRUE
  Polite = FALSE
PROPERTIES
  LaunchAnswered
CHECK_DEADLOCK FALSE
