CONSTANTS
  Procs = {p1, p2}
  Rgids = {r1}
  Vals = {1}
  PageSz = 2
  RamFrames = 2
  SwpFrames = 2
  MaxPages = 2
  PgnRange = 16384
  Entries = 2
  FpnRange = 8192
  SwpUnit = 32
  Sizes = {1, 3}
  Offsets = {0, 2}
  InBounds = FALSE
  UserOps = {"INC", "MAP", "SWP", "IO_WRITE"}
  Lookup = {TRUE}
  Garbage <- Zeroed
  None = None
SPECIFICATION Spec
INVARIANTS RegionsDisjoint ResidentIsEvictable SwapFramesUnique
SYMMETRY Symmetry
VIEW PagingView
