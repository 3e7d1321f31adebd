SPECIFICATION Spec
CONSTANTS
  Thread = {t1, t2}
  Addr <- ShortAddr
  Mapped <- ShortAddr
  Insn <- ShortInsn
  Flow <- ShortFlow
  Opaque = {4}
  Entry = 1
  ExitAddr = 4
  Bp = {b1, b2, b3}
  exit_bp = b1
  HashSize = 3
  UserAddr = {1}
  Careful = FALSE
  Steppers = {t1}
  Signals = TRUE
  NULL = NULL
CHECK_DEADLOCK FALSE
SYMMETRY BpSymmetry
INVARIANTS
  TypeOK
  TableSound
PROPERTIES
  StepsOwned
