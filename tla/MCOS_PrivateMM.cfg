CONSTANTS
  Procs = {1, 2}
  Cpus = {c1, c2}
  NULL = 0
  MaxPrio = 1
  QueueCap = 6
  Loader = ld
  TimeSlot = 2
  StartTimes = {0}
  CodeSizes = {2}
SPECIFICATION Spec
INVARIANT PrivateMM
