SPECIFICATION FairSpec
CONSTANTS
  Msg = {m1, m2}
  StopCmd = {c1}
  NewCmd = {}
  CompressCmd = {k1}
  Answer = {}
  First = s0
  None = None
  MaxQueue = 2
  MaxAsks = 0
  AutoCompress = FALSE
  MaxDepth = 0
  Faults = {}
PROPERTIES EveryoneTold LockReleased StopEnds
CHECK_DEADLOCK FALSE
