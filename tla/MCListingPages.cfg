SPECIFICATION Spec
CONSTANTS
  Docs <- FourDocs
  PageSize = 2
  MaxShifts = 3
CHECK_DEADLOCK FALSE
INVARIANTS TypeOK NothingMissed NothingTwice
