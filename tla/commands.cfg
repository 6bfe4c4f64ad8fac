SPECIFICATION Spec
CONSTANTS
  Msg = {m1, m2}
  StopCmd = {c1}
  NewCmd = {}
  CompressCmd = {}
  Answer = {a1}
  First = s0
  None = None
  MaxQueue = 2
  MaxAsks = 1
  AutoCompress = FALSE
  MaxDepth = 0
  Faults = {"death", "send", "reply", "idle", "shutdown"}
INVARIANTS TurnExclusion LockHeld NoNilCall AgentReachable CloseOnce PermissionHeld
SYMMETRY Symmetry
CHECK_DEADLOCK FALSE
