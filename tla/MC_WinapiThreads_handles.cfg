SPECIFICATION Spec
CONSTANTS
  Tids = {t1, t2, t3, t4}
  MaxHandles = 9
  MaxOpens = 2
  None = None
SYMMETRY Symmetry
INVARIANTS
  TypeOK
  TableIsTrue
  RegistersOfStopped
  EventThreadListed
CHECK_DEADLOCK FALSE
