CONSTANTS
  Sessions = {"s1", "s2", "s3"}
  UserOf <- TwoUsers
  Codes <- TwoCodes
  Width = 16
  Slots = 4
  Modes = {"exclusive", "user_shared", "multi_user_shared"}
  Backends = {"e2b", "aio"}
  RestartDir <- Default
  Names <- TwoNames
  Calls = {c1}
  None = None
  MaxWrites = 2
SPECIFICATION Spec
INVARIANTS
  TypeOK
  ReadsOwnWrites
  CommandsWork
  OwnAccount
