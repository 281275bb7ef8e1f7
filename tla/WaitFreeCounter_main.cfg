SPECIFICATION FairSpec
CONSTANTS
  Threads = {t1, t2, t3, t4}
  PendingFlag = 4
  MaxCalls = 6
  KeepRoom = TRUE
INVARIANTS CountExact OneWinner
PROPERTIES Implements LastOneCleansUp
CHECK_DEADLOCK FALSE
