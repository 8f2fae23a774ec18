SPECIFICATION FairShutdown
CONSTANTS
  k1 = k1
  k2 = k2
  k3 = k3
  small = small
  big = big
  huge = huge
  Thread = {t1, t2}
  Taker = {t1, t2, "master"}
  MaxSigterm = 1
  Key = {k1, k2}
  Fold <- DistinctFold
  Value = {small, huge}
  Size <- Sizes
  StrLen <- Terminated
  Addr = {a1, a2}
  MaxCacheSize = 8
  MaxObjectSize = 4
  SizeMax = 15
PROPERTY HandlerEnds
CHECK_DEADLOCK FALSE
