CONSTANTS
  Devices = {ld, cpu1, cpu2}
  MaxTime = 3
SPECIFICATION FairSpec
INVARIANTS TypeOK NoLostWakeup ExitAfterDetach
PROPERTIES NoTickDuringWork ImplementsSlotClock NextSlotReturns Termination
