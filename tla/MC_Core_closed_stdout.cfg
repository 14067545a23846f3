SPECIFICATION FairSpec
CONSTANTS
  Calls = {c1, c2}
  None = None
  Methods = {"start", "stop"}
  Kinds = {"titan"}
  Crashes = FALSE
PROPERTIES
  ClosedStdoutFailsRequests
CHECK_DEADLOCK FALSE
