SPECIFICATION Spec
CONSTANTS
  Threads = {t1, t2}
  Blocks = {b1, b2}
  Null = null
  Threshold = 1
  MaxSlots = 2
  MaxCalls = 4
INVARIANT NoStepAfterFree
CHECK_DEADLOCK FALSE
