SPECIFICATION Spec
CONSTANTS
  signals <- Order
  Others = {"RT"}
  Inherited = {"HUP"}
  Actions <- Asked
  Masks <- Chosen
  Bad = {"KILL", "bad"}
  Logging = FALSE
  MaxDepth = 2
INVARIANTS
  PassedRight
CHECK_DEADLOCK FALSE
