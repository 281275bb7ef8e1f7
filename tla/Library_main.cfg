\* A reader of Seqlock may sleep through three whole stores of two words.
SPECIFICATION MCSpec
CONSTANTS
    Readers = {r1, r2}
    Words = {a, b}
    Word = 8
    MaxStores = 3
    WeakOrder = FALSE
    AhThreads = {a, b}
    AhKeys = {0, 1}
    AhLevels <- MCLevels
    AhSets = 3
    SsThreads = {a, b}
    SsKeys <- MCKeys
    SsReload <- MCReload
    SsValues = 3
    SsClock = 3
    AcThreads = {a, b, c}
    AcObjects = 4
    AoThreads = {a, b}
    AoWrites = 4
    BrThreads = {a, b, c}
    SgThreads = {a, b}
    SgSignals = {x, y}
    SgMax = 3
    NuMax = 130
INVARIANT Inv
 
INVARIANT FunctionsRight
PROPERTY Atomic
 
CHECK_DEADLOCK FALSE
