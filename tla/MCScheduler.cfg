CONSTANTS
  Procs = {p1, p2, p3}
  Cpus = {c1, c2}
  NULL = NULL
  MaxPrio = 2
  QueueCap = 3
SPECIFICATION SchedFairSpec
INVARIANTS SchedTypeOK OnePlace NotLost
PROPERTIES NoStarvation
