SPECIFICATION Spec
CONSTANTS
  R = 5
  MaxWr = 8
  CqCapacity = 16
  Reliable = FALSE
  Designs = {FALSE}
  EventOnArm = TRUE
  Methods = {"KV"}
  MayCrash = FALSE
  MaxOps = 3
  MaxRetries = 2
  MaxTaken = 9
CHECK_DEADLOCK FALSE
INVARIANT ResponseMatches
