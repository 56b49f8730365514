CONSTANTS
  CPUs = {c1, c2}
  Procs = {p1, p2}
  ListCap = 3
  NumFrames = 2
  MaxPages = 1
  None = None
SPECIFICATION Spec
INVARIANT AllocFrameIsItsOwn
