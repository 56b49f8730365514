CONSTANTS
  Procs = {1, 2, 3}
  Cpus = {c1, c2}
  NULL = 0
  MaxPrio = 1
  QueueCap = 4
  Loader = ld
  TimeSlot = 2
  StartTimes = {0, 2}
  CodeSizes = {4}
SPECIFICATION FairSpec
INVARIANTS TypeOK AllServed OneInstructionPerSlot DispatchedIsListed
PROPERTIES Termination
