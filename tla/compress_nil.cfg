SPECIFICATION Spec
CONSTANTS
  Msg = {m1, m2}
  StopCmd = {}
  NewCmd = {}
  CompressCmd = {k1}
  Answer = {}
  First = s0
  None = None
  MaxQueue = 2
  MaxAsks = 0
  AutoCompress = FALSE
  MaxDepth = 0
  Faults = {"idle"}
INVARIANTS NoNilCall
SYMMETRY Symmetry
CHECK_DEADLOCK FALSE
