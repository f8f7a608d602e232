SPECIFICATION FairSpec
CONSTANTS
  R = 5
  MaxWr = 8
  CqCapacity = 16
  Reliable = TRUE
  Designs = {FALSE, TRUE}
  EventOnArm = TRUE
  Methods = {"KV"}
  MayCrash = TRUE
  MaxOps = 11
  MaxRetries = 0
  MaxTaken = 14
CHECK_DEADLOCK FALSE
INVARIANTS ResponseMatches FreshRequest ReceiverReady QueuesFit
PROPERTIES OpsComplete ImplementsService
