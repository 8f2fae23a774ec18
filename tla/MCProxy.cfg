SPECIFICATION FairSpec
CONSTANTS
  Worker = {w1, w2}
  Client = {c1, c2, c3}
  Sends = {"valid", "invalid", "nothing", "silence", "line", "deaf"}
  Connect = {"ok", "silent", "refused", "unresolved"}
  Fd = {4, 5}
  QueueSize = 2
  MaxAddress = 2
  Listen = {"ok", "failed", "unresolved"}
INVARIANTS TypeOK OneHolder
PROPERTIES QueueServed Released
CHECK_DEADLOCK FALSE
