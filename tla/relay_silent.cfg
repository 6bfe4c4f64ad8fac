SPECIFICATION Spec
CONSTANTS
  Parts = {"relay"}
  CronJobs = {j1, j2}
  CronRequests = {q1, q2}
  CronExprs = {hourly, daily}
  CronOpsMax = 2
  EntryMax = 3
  Users = {u1, u2}
  SidMax = 2
  AgentIds = {i1, i2}
  Savers = {v1, v2}
  SmOpsMax = 3
  Dirs = {d1, d2}
  Messages = {m1, m2}
  Projects = {p1, p2}
  BeatsMax = 2
  HbRestartsMax = 1
  Chats = {k1, k2}
  TermTurns = 2
  Chunks = 2
  InputCap = 1
  ProgressMax = 1
  CliClients = {c1, c2}
  Emitters = {e1}
  Closers = {g1}
  SinkCap = 1
  EmitMax = 2
  RelayCalls = {r1, r2}
  RelayEvents = 1
PROPERTIES RelayWaitBounded
CHECK_DEADLOCK FALSE
