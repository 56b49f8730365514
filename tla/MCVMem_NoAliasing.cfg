CONSTANTS
  Procs = {p1}
  Rgids = {r1, r2, r3}
  Vals = {1}
  PageSz = 2
  RamFrames = 2
  SwpFrames = 2
  MaxPages = 3
  PgnRange = 16384
  Entries = 2
  FpnRange = 8192
  SwpUnit = 32
  Sizes = {2}
  Offsets = {0}
  InBounds = TRUE
  UserOps = {}
  Lookup = {TRUE}
  Garbage <- Zeroed
  None = None
SPECIFICATION Spec
INVARIANT NoAliasing
