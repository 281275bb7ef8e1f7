--------------------------- MODULE AtomicOptional ---------------------------
\* AtomicOptional.h: a value and a flag, both atomic.  A store writes the value and
\* then the flag, load() reads the flag and then the value.  Value 0 is T{}.
EXTENDS Integers

CONSTANTS AoThreads, AoWrites  \* bound: stores

VARIABLES aoValue, aoHas, aoThread,
          aoStores,  \* stores so far; a store of a value stores its number
          aoLast     \* history: the last completed store, 0 for nullopt, -1 once
                     \* two stores have overlapped

aoVars == <<aoValue, aoHas, aoThread, aoStores, aoLast>>

AoIdle == [at |-> "idle", value |-> 0]

AoInit == /\ aoValue = 0 /\ aoHas = FALSE /\ aoStores = 0 /\ aoLast = 0
          /\ aoThread = [t \in AoThreads |-> AoIdle]

AoGo(t, at, v) == aoThread' = [aoThread EXCEPT ![t] = [at |-> at, value |-> v]]
AoWriters == {t \in AoThreads : aoThread[t].at = "flag"}

\* store(val) and store(nullopt): the value ...
StoreValue(t, reset) ==
    LET v == IF reset THEN 0 ELSE aoStores + 1
    IN  /\ aoThread[t].at = "idle" /\ aoStores < AoWrites
        /\ aoStores' = aoStores + 1 /\ aoValue' = v
        /\ AoGo(t, "flag", v)
        /\ aoLast' = IF AoWriters = {} THEN aoLast ELSE -1
        /\ UNCHANGED aoHas

\* ... and the flag
StoreHas(t) ==
    /\ aoThread[t].at = "flag"
    /\ aoHas' = (aoThread[t].value # 0)
    /\ aoLast' = IF AoWriters = {t} /\ aoLast # -1 THEN aoThread[t].value ELSE -1
    /\ AoGo(t, "idle", 0)
    /\ UNCHANGED <<aoValue, aoStores>>

\* load(): nullopt if the flag is clear, else the value is read later.
LoadHas(t) ==
    /\ aoThread[t].at = "idle" /\ aoHas
    /\ AoGo(t, "read", 0)
    /\ UNCHANGED <<aoValue, aoHas, aoStores, aoLast>>
LoadValue(t) ==
    /\ aoThread[t].at = "read"
    /\ AoGo(t, "idle", 0)
    /\ UNCHANGED <<aoValue, aoHas, aoStores, aoLast>>

AoNext == \E t \in AoThreads : \/ StoreHas(t) \/ LoadHas(t) \/ LoadValue(t)
                               \/ \E reset \in BOOLEAN : StoreValue(t, reset)

----------------------------------------------------------------------------
\* As long as stores do not overlap, the optional holds what the last store left
\* when none is in progress, and an engaged load finds T{} only during a reset.
OptionalIsLastStore ==
    aoLast # -1 =>
      /\ AoWriters = {} => aoHas = (aoLast # 0) /\ aoValue = aoLast
      /\ aoHas /\ aoValue = 0 => \E t \in AoWriters : aoThread[t].value = 0
=============================================================================
