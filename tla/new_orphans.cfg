SPECIFICATION Spec
CONSTANTS
  Msg = {m1, m2}
  StopCmd = {}
  NewCmd = {n1}
  CompressCmd = {}
  Answer = {}
  First = s0
  None = None
  MaxQueue = 2
  MaxAsks = 0
  AutoCompress = FALSE
  MaxDepth = 0
  Faults = {}
INVARIANTS AgentReachable
SYMMETRY Symmetry
CHECK_DEADLOCK FALSE
