SPECIFICATION FairHistory
CONSTANTS
  k1 = k1
  k2 = k2
  k3 = k3
  small = small
  big = big
  huge = huge
  Thread = {t1, t2}
  Key = {k1, k2}
  Fold <- DistinctFold
  Value = {small, big}
  Size <- Sizes
  StrLen <- Terminated
  Addr = {a1, a2, a3}
  MaxCacheSize = 2
  MaxObjectSize = 4
  SizeMax = 15
INVARIANTS TypeOK FaultOnlyRobbed AnswersUnlessRobbed LoadUnlessRobbed CapacityRestored
PROPERTIES LruUntilRobbed DrainsUnlessRobbed
CHECK_DEADLOCK FALSE
