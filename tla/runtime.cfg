CONSTANTS
  Ids = {id1, id2}
  Addrs = {ip1, ip2}
  Handlers = {h1, h2}
  Backends = {"e2b", "aio"}
  Ops = {"create", "get", "start", "stop", "resize", "kill", "exec", "file"}
  None = None
  Has404 = {id2}
  FaultKinds = {"docker", "exit", "restart"}
  MaxFaults = 1
  MaxCalls = 4
SPECIFICATION Spec
INVARIANTS
  TypeOK
  AioKept
PROPERTIES
  RunsInOwn
  AnswersTrue
  NoSpuriousError
  FailedCreateCleans
  KeepsPromises
SYMMETRY Interchangeable
