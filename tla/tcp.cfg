SPECIFICATION FairSpec
CONSTANTS
  Parts = 2
  Methods = {"KV", "PING", "EXIT"}
  MaxOps = 3
CHECK_DEADLOCK FALSE
INVARIANTS WholeRequests ResponseMatches
PROPERTIES OpsComplete WorkerEnds ImplementsService
