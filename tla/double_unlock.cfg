SPECIFICATION Spec
CONSTANTS
  Msg = {m1, m2}
  StopCmd = {}
  NewCmd = {}
  CompressCmd = {}
  Answer = {}
  First = s0
  None = None
  MaxQueue = 2
  MaxAsks = 0
  AutoCompress = TRUE
  MaxDepth = 1
  Faults = {}
INVARIANTS TurnExclusion
SYMMETRY Symmetry
CHECK_DEADLOCK FALSE
