\* Up to three edits and three other events, four together.
CONSTANTS
  Devices = {d1, d2}
  MaxCopies = 1
  MaxEdits = 3
  MaxExtras = 3
  MaxEvents = 4
  Untouched = Untouched
SPECIFICATION Spec
INVARIANTS TypeOK EditsKept
SYMMETRY AnyDevice
CONSTRAINT Claimed
CHECK_DEADLOCK FALSE
