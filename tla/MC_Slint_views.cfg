SPECIFICATION FairSpec
CONSTANTS
  Workers = {w1, w2}
  First = first
  None = None
INVARIANTS
  TypeOK
  ViewIsCurrent
  LabelIsTrue
  RunShowsExit
PROPERTIES
  CommandsFinish
CHECK_DEADLOCK FALSE
