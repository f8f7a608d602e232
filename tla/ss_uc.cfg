SPECIFICATION FairUcSpec
CONSTANTS
  R = 2
  MaxWr = 3
  CqCapacity = 6
  Reliable = FALSE
  Designs = {FALSE, TRUE}
  EventOnArm = TRUE
  Methods = {"KV"}
  MayCrash = FALSE
  MaxOps = 2
  MaxRetries = 2
  MaxTaken = 8
CHECK_DEADLOCK FALSE
INVARIANT FreshRequest
PROPERTIES GivesUpOnlyUnanswered NeverStuck
