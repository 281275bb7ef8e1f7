SPECIFICATION FairSpec
CONSTANTS
  Threads = {t1, t2}
  Blocks = {b1, b2}
  Null = null
  Threshold = 1
  MaxSlots = 2
  MaxCalls = 4
INVARIANTS StrongCountExact NoUseAfterFree OwnedIsAlive RetiredOnce
PROPERTIES LoadReturns Disposed
CHECK_DEADLOCK FALSE
