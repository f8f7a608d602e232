SPECIFICATION Spec
CONSTANTS
  k1 = k1  k2 = k2  k3 = k3  b1 = b1  b2 = b2
  w1 = w1  w2 = w2  m1 = m1  m2 = m2
  NULL = NULL  Garbage = Garbage  Absent = Absent
  Workers = {w1}
  Keys = {k1, k2, k3}
  Msgs = {m1, m2}
  Addrs = {a1, a2, a3}
  Buckets = {b1, b2}
  BucketOf <- MCBucketOf
  PrefixOf <- ExactKeys
  Requests <- AllRequests
  Gaps = FALSE
  MayFail = TRUE
INVARIANT FaultOnlyAfterOom
PROPERTY ImplementsMap
CHECK_DEADLOCK FALSE
SYMMETRY AddrSymmetry
