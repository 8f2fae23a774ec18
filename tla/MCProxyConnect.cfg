SPECIFICATION FairSpec
CONSTANTS
  Worker = {w1, w2}
  Client = {c1, c2}
  Sends = {"valid"}
  Connect = {"ok", "refused"}
  Fd = {4, 5, 6}
  QueueSize = 2
  MaxAddress = 2
  Listen = {"ok"}
PROPERTY ConnectionEnds
CHECK_DEADLOCK FALSE
