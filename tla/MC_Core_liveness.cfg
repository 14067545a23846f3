SPECIFICATION FairSpec
CONSTANTS
  Calls = {c1, c2, c3}
  None = None
  Methods = {"status", "start", "stop", "forward"}
  Kinds = {"stdio"}
  Crashes = FALSE
PROPERTIES
  CallsAnswered
CHECK_DEADLOCK FALSE
