CONSTANTS
    Consumers = {1, 2}
    MinActive = 0
    MaxSteal = 2
    PauseGap = 2
    MaxItems = 2
    MaxCalls = 3
SPECIFICATION Spec
INVARIANT TypeOK
PROPERTIES WaitAllMeansDone WaitGroupMeansDone  WaitAllReturns GroupWaitReturns
CHECK_DEADLOCK FALSE
