CONSTANTS
  s1 = s1
  s2 = s2
  s3 = s3
  u1 = u1
  u2 = u2
  pool1 = pool1
  pool2 = pool2
  Sessions <- ThreeSessions
  Users = {u1, u2}
  Pools = {pool1, pool2}
  UserOf <- OneUser
  PoolOf <- OnePool
  ModesOf <- UserAndOwn
  Workers = {w1, w2}
  Sweepers = {}
  Consumer = kafka
  SandboxIds = {sb1, sb2, sb3, sb4, sb5, sb6, sb7, sb8}
  TicketIds = {t1, t2, t3, t4, t5}
  None = None
  MaxConcurrency = 1
  IdlePolicy = "stop_keep"
  FaultKinds = {"provider", "publish", "crash"}
  MaxFaults = 1
  Requests = {"acquire", "release", "exec"}
  Reasons = {"idle"}
  SerialClients = FALSE
  MaxRequests = 4
SPECIFICATION Spec
INVARIANTS
  TypeOK
  SlotBound
  OwnerIsolation
  TicketIsolation
  OInv
  NoLostTicket
SYMMETRY Interchangeable
