SPECIFICATION Spec
CONSTANTS
  Msg = {m1, m2, m3, m4}
  StopCmd = {}
  NewCmd = {}
  CompressCmd = {}
  Answer = {}
  First = s0
  None = None
  MaxQueue = 2
  MaxAsks = 0
  AutoCompress = FALSE
  MaxDepth = 0
  Faults = {"error", "idle", "send", "reply"}
INVARIANTS TypeOK NoLostWakeup
PROPERTIES ServesLine
SYMMETRY Symmetry
CHECK_DEADLOCK FALSE
