SPECIFICATION FairSpec
CONSTANTS
  Workers = {t1, t2}
  Clients = {0, 1}
  N = 2
  Methods = {"KV", "PING", "UNK"}
  AnyOrder = FALSE
  EarlySend = FALSE
  Window = 2
  MaxRequests = 3
  None = None
CHECK_DEADLOCK FALSE
INVARIANTS IInv TakesOldest NoDuplicate IntactWithinRing Routed SendsMatchWaiters
PROPERTY EveryRequestAnswered
