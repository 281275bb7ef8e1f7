\* Two events on three levels, never stopped half-way.
SPECIFICATION Spec
CONSTANTS
    Events = {e1, e2}
    NumSlots = 2
    Levels = 3
    Deltas = {1, 2, 3, 4}
    Ranges = {}
    Advances = {0, 1, 3}
    Budgets = {9}
INVARIANT WakeupExact
