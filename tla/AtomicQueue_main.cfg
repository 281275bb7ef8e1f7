\* All four kinds of queue, two slots, tickets that wrap around from 15 to 0.
SPECIFICATION FairSpec
CONSTANTS
    Producers = {p1, p2}
    Consumers = {c1, c2}
    Size = 2
    Word = 16
    Start = 14
    Calls = {"wait", "try"}
    Kinds <- AllKinds
    MaxPush = 4
    MaxPop = 4
INVARIANTS EachElementOnce ExclusiveAccess
PROPERTIES TryFailsTruthfully AllDelivered
CHECK_DEADLOCK FALSE
