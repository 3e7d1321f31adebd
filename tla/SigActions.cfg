SPECIFICATION FairSpec
CONSTANTS
  signals <- Order
  Others = {"RT"}
  Inherited = {"HUP"}
  Actions <- Asked
  Masks <- Chosen
  Bad = {"KILL", "bad"}
  Logging = TRUE
  MaxDepth = 2
INVARIANTS
  InControl
  MaskKept
PROPERTIES
  Restored
  PassEnds
CHECK_DEADLOCK FALSE
