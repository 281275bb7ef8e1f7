SPECIFICATION Spec
CONSTANTS
    WqWrap = 16
    WqCapacity = 4
    WqArrays = 2
    WqBulk = {3}
    TqThieves = {a, b}
    TqItems = 4
    TqCapacity = 2
    PaThreads = {a, b}
    PaBlockSize = 2
    PaBlocks = 2
    PaOps = 7
    CsWorkers = 2
    CsTasks = {t1, t2, t3}
    EvThreads = {a, b}
    EvAmounts = {0, 1, 2}
    EvSets = 3
    IsThreads = {a, b}
    IsCount = 2
    IsEntries = 1
    SlSignals = {s1, s2}
    SlObservers = {o}
    SlThreads = {a, b}
    SlCalls = 5
    TpWorkers = {w1, w2}
    TpTasks = {t1, t2}
    TpCallers = {a, b}
    TpCalls = 2
    MpThreads = {a, b}
    MpBlockSize = 2
    MpBlocks = 2
    MpCalls = 7
    LcKeys = {t1, t2, t3}
    LcCapacity = 2
    LcTtl = 1
    LcTime = 4
    UdKeys = {1, 2, 3, 4}
    UdHashValues = {2, 14, 15}
    UdWidth = 4
    UdInitialBits = 1
    UdMaxBits = {1, 2, 3}
 
INVARIANT TableSafe
 
INVARIANT SharersSafe
 
CHECK_DEADLOCK FALSE
