SPECIFICATION FairSpec
CONSTANTS
  Msg = {m1, m2}
  StopCmd = {c1}
  NewCmd = {}
  CompressCmd = {}
  Answer = {}
  First = s0
  None = None
  MaxQueue = 2
  MaxAsks = 1
  AutoCompress = FALSE
  MaxDepth = 0
  Faults = {}
PROPERTIES StopEnds
CHECK_DEADLOCK FALSE
