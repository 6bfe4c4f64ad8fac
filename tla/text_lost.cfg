CONSTANTS
  MaxText = 3
  MaxChars = 2
  Faults <- NoFaults
SPECIFICATION Spec
INVARIANT Surfaced
CHECK_DEADLOCK FALSE
