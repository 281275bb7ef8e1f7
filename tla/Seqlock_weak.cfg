\* A processor that performs the writes of M_value before the announcing store.
SPECIFICATION Spec
CONSTANTS
    Readers = {r1}
    Words = {a, b}
    Word = 8
    MaxStores = 2
    WeakOrder = TRUE
INVARIANT NotTorn
