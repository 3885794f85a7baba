SPECIFICATION Spec
CONSTANTS
  Objects = {o1, o2}
  MaxConnections = 1
CHECK_DEADLOCK FALSE
INVARIANTS
  TypeOK
  SlotsAccounted
  ClosedForGood
