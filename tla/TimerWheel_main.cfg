\* Three levels of two slots: eight ticks, after which time wraps around.
SPECIFICATION FairSpec
CONSTANTS
    Events = {e1, e2}
    NumSlots = 2
    Levels = 3
    Deltas = {1, 2, 3, 4}
    Ranges <- LowRanges
    Advances = {0, 2}
    Budgets = {1, 2}
INVARIANTS Coherent WakeupNeverEarly
PROPERTIES OnTime WithinRange AdvanceReturns
