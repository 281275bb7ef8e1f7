CONSTANTS
    Consumers = {1, 2}
    MinActive = 1
    MaxSteal = 2
    PauseGap = 2
    MaxItems = 1
    MaxCalls = 2
SPECIFICATION Spec
PROPERTY ShutdownReturns
CHECK_DEADLOCK FALSE
