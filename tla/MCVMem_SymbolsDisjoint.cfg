CONSTANTS
  Procs = {p1}
  Rgids = {r1, r2}
  Vals = {1}
  PageSz = 2
  RamFrames = 4
  SwpFrames = 2
  MaxPages = 4
  PgnRange = 16384
  Entries = 2
  FpnRange = 8192
  SwpUnit = 32
  Sizes = {2, 3}
  Offsets = {0}
  InBounds = TRUE
  UserOps = {}
  Lookup = {TRUE, FALSE}
  Garbage <- Zeroed
  None = None
SPECIFICATION Spec
INVARIANT SymbolsDisjoint
