SPECIFICATION FairSpec
CONSTANTS
  Uses = {{"continue", "read_register", "write_register", "state", "create_breakpoint", "install_breakpoint", "remove_breakpoint", "delete_breakpoint", "thread_suspend", "thread_resume", "next_instruction", "single_step"}, {"read_mem", "write_mem", "state"}}
  Byte = {0, 1, 2}
CHECK_DEADLOCK FALSE
INVARIANTS
  Framed
PROPERTIES
  AllFields
  Answered
