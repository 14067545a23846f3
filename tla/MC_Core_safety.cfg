SPECIFICATION Spec
CONSTANTS
  Calls = {c1, c2, c3, c4}
  None = None
  Methods = {"hello", "status", "start", "stop", "forward"}
  Kinds = {"stdio", "titan"}
  Crashes = TRUE
SYMMETRY Symmetry
INVARIANTS
  TypeOK
  OwnAnswer
  AnswerHasReceiver
  PendingIsWaited
  HandshakeFirst
  NoOrphans
  StopOwnsProcess
PROPERTIES
  NoTakeover
  SessionSpec
CHECK_DEADLOCK FALSE
