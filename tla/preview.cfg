CONSTANTS
  MaxText = 4
  MaxChars = 3
  Faults <- AllFaults
SPECIFICATION Spec
INVARIANTS TypeOK  TimerPending
PROPERTY FrozenStays
CHECK_DEADLOCK FALSE
