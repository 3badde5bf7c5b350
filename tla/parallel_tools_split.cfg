CONSTANTS
  s1 = s1
  s2 = s2
  s3 = s3
  u1 = u1
  u2 = u2
  pool1 = pool1
  pool2 = pool2
  Sessions <- TwoSessions
  Users = {u1, u2}
  Pools = {pool1, pool2}
  UserOf <- SharedUser
  PoolOf <- OnePool
  ModesOf <- AllExclusive
  Workers = {w1, w2}
  Sweepers = {}
  Consumer = kafka
  SandboxIds = {sb1, sb2, sb3, sb4, sb5, sb6}
  TicketIds = {t1, t2, t3, t4}
  None = None
  MaxConcurrency = 2
  IdlePolicy = "stop_keep"
  FaultKinds = {}
  MaxFaults = 0
  Requests = {"acquire", "release", "heartbeat"}
  Reasons = {"idle", "deleted"}
  SerialClients = FALSE
  MaxRequests = 4
  Overlap = {"tools"}
  MaxCalls = 2
SPECIFICATION PluginSpec
INVARIANTS
  OneSandboxPerSession
