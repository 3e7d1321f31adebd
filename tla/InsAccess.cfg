SPECIFICATION FairSpec
CONSTANTS
  PageSize = 2
  NumPages = 2
  Byte = {0, 1, 2, 3}
  Fails = {"alloc", "mask"}
  W16 = 2
  W32 = 4
  W64 = 4096
  Programs <- AllPrograms
  MemRequests <- Requested
  Data <- Written
  Registers <- Named
  Settings <- Values
CHECK_DEADLOCK FALSE
INVARIANTS
  AccessExact
  AccessClosed
  RegistersKept
  FailureExplained
  NextTrue
PROPERTIES
  AccessEnds
