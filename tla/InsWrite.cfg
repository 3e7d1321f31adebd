SPECIFICATION Spec
CONSTANTS
  PageSize = 2
  NumPages = 2
  Byte = {0, 1, 2, 3}
  Fails = {}
  W16 = 2
  W32 = 4
  W64 = 4096
  Programs <- Jumps
  MemRequests = {}
  Data = {}
  Registers <- Named
  Settings <- Values
CHECK_DEADLOCK FALSE
INVARIANTS
  RegisterWritten
