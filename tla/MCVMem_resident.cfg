CONSTANTS
  Procs = {p1, p2}
  Rgids = {r1, r2}
  Vals = {1, 2}
  PageSz = 2
  RamFrames = 4
  SwpFrames = 1
  MaxPages = 2
  PgnRange = 2
  Entries = 2
  FpnRange = 4
  SwpUnit = 32
  Sizes = {2, 3}
  Offsets = {1, 2}
  InBounds = TRUE
  UserOps = {"INC", "IO_READ"}
  Lookup = {TRUE}
  Garbage <- Zeroed
  None = None
SPECIFICATION Spec
INVARIANTS TypeOK RegionsDisjoint FramesPartitioned AllocatedIsMapped
PROPERTY ImplementsMemory
SYMMETRY Symmetry
VIEW Unlabelled
