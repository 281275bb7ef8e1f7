\* Two thieves and an observer; the array starts with one slot, so that three
\* pushes resize it, wrap around and meet every last-item race.
SPECIFICATION QSpec
CONSTANTS
    Owner = o
    Thieves = {t1, t2}
    Observers = {w1}
    Capacity = 1
    Word = 16
    MaxPush = 3
    PopOnFresh = FALSE
INVARIANTS StolenItemIsCurrent Inv NeverOverstates
PROPERTIES Linearizable Drains
