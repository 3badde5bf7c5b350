CONSTANTS
  Handlers = {h1, h2}
  Ops = {"create", "get", "start", "stop", "delete", "resize", "exec", "handle_exec", "handle_file"}
  Asks = {0, 3, 4}
  Disks = {1, None}
  None = None
  MaxFaults = 1
  MaxCalls = 4
SPECIFICATION Spec
INVARIANTS
  TypeOK
PROPERTIES
  SizeTakes
  LeavesState
  NoSpuriousError
  KeepsPromises
SYMMETRY Interchangeable
