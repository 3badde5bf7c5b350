CONSTANTS
  s1 = s1
  s2 = s2
  s3 = s3
  u1 = u1
  u2 = u2
  pool1 = pool1
  pool2 = pool2
  Sessions <- ThreeSessions
  Users = {u1, u2}
  Pools = {pool1, pool2}
  UserOf <- SharedUser
  PoolOf <- OnePool
  ModesOf <- AllUserShared
  Workers = {w1}
  Sweepers = {}
  Consumer = kafka
  SandboxIds = {sb1, sb2, sb3, sb4, sb5, sb6, sb7, sb8}
  TicketIds = {t1}
  None = None
  MaxConcurrency = 2
  IdlePolicy = "delete"
  FaultKinds = {}
  MaxFaults = 0
  Requests = {"acquire", "release", "heartbeat"}
  Reasons = {"idle", "deleted"}
  SerialClients = FALSE
  MaxRequests = 18
  Overlap = {}
  MaxCalls = 9
SPECIFICATION PluginSpec
INVARIANTS
  ToolUnderLease
  MapIsLeased
  SlotsExact
  RunningExact
  OneSandboxPerUser
PROPERTIES
  NoStopUnderLease
