SPECIFICATION Spec
CONSTANTS
  Pages = 3
  PageSize = 2
  Wildcard = Wildcard
  Patterns <- ShortPatterns
  Starts = {0, 3}
  Ends = {3, 4, 9}
  MaxResults = 3
INVARIANTS
  TypeOK
  SearchIsExact
  MapIsWhole
PROPERTIES
  WalkReturns
CHECK_DEADLOCK FALSE
