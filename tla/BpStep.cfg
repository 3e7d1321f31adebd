SPECIFICATION Spec
CONSTANTS
  Thread = {t1}
  Addr <- LoopAddr
  Mapped <- LoopMapped
  Insn <- LoopInsn
  Flow <- LoopFlow
  Opaque = {}
  Entry = 1
  ExitAddr = 6
  Bp = {b1, b2, b3, b4, b5, b6}
  exit_bp = b1
  HashSize = 10
  UserAddr = {1, 3, 9}
  Careful = TRUE
  Steppers = {t1}
  Signals = FALSE
  NULL = NULL
CHECK_DEADLOCK FALSE
SYMMETRY BpSymmetry
INVARIANTS
  NoAbort
PROPERTIES
  StepGuarded
