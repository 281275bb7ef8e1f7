--------------------------- MODULE SharedStorage ---------------------------
\* SharedStorage.h: a table of named values behind M_mutex, a cache of it in every
\* thread, and reloadable values that a worker thread flips between two copies.
\* A key stands for MakeKey<T>(tags); what a call does before it takes M_mutex
\* concerns the cache of its own thread only, so a call is one step.
EXTENDS Integers, FiniteSets, FiniteSetsExt

CONSTANTS SsThreads, SsKeys,
          SsReload,    \* the keys of type Reloadable<T>, and their interval
          SsValues,    \* bound: number of values made
          SsClock      \* bound: seconds

ASSUME SsAssumption ==
    /\ SsValues \in Nat /\ SsClock \in Nat /\ DOMAIN SsReload \subseteq SsKeys
    /\ \A k \in DOMAIN SsReload : SsReload[k] \in Nat \ {0}

VARIABLES ssTable,   \* M_storage: type, value and deletable of every entry
          ssCache,   \* ThreadLocalCache of every thread, 0 where it has no entry
          ssMade,    \* values made so far
          ssSide,    \* curr of the reloadable values
          ssEvent,   \* the timer event of a reloadable value: due tick and interval
          ssClock, ssWheel, ssWake,  \* time, now() of the wheel, end of sleep()
          ssKept,    \* history: <<t, v>> if t had cached v when it became deletable
          ssSeen     \* history: reloadables the worker knew when it went to sleep

ssVars == <<ssTable, ssCache, ssMade, ssSide, ssEvent, ssClock, ssWheel, ssWake,
            ssKept, ssSeen>>

NoEntry == [type |-> "none", value |-> 0, deletable |-> FALSE]
SsForever == SsClock + 1
Reloadables == {v \in 1 .. SsValues : ssEvent[v].every # 0}

SsInit ==
    /\ ssTable = [k \in SsKeys |-> NoEntry]
    /\ ssCache = [t \in SsThreads |-> [k \in SsKeys |-> 0]] /\ ssMade = 0
    /\ ssSide = [v \in 1 .. SsValues |-> "ping"] /\ ssEvent = [v \in 1 .. SsValues |-> [due |-> 0, every |-> 0]]
    /\ ssClock = 0 /\ ssWheel = 0 /\ ssWake = 0 /\ ssKept = {} /\ ssSeen = {}

\* What GetOrNull() returns, when it throws, and what Has() returns; none of them
\* fills the cache.
GetOrNull(t, k) == IF ssCache[t][k] # 0 THEN ssCache[t][k] ELSE ssTable[k].value
Mismatch(t, k) == ssCache[t][k] = 0 /\ ssTable[k].type = "key"
SsHas(t, k) == ssCache[t][k] # 0 \/ ssTable[k].type = "T"

\* AddReloadable(): a timer event, relative to the time of the wheel
AddReloadable(k, v) ==
    ssEvent' = IF k \notin DOMAIN SsReload THEN ssEvent
               ELSE [ssEvent EXCEPT ![v] = [due |-> ssWheel + SsReload[k],
                                            every |-> SsReload[k]]]

\* GetOrCreate() and GetOrCreate_Reloadable() that miss the cache: the entry is
\* made, or gets its value and its type when Deletable() has made it, and the
\* value is cached unless it may be deleted.
GetOrCreate(t, k) ==
    LET e == ssTable[k]
        v == IF e.value = 0 THEN ssMade + 1 ELSE e.value
    IN  /\ ssCache[t][k] = 0 /\ v \leq SsValues
        /\ ssTable' = [ssTable EXCEPT ![k].value = v, ![k].type = "T"]
        /\ ssMade' = IF e.value = 0 THEN v ELSE ssMade
        /\ IF e.value = 0 THEN AddReloadable(k, v) ELSE UNCHANGED ssEvent
        /\ ssCache' = IF e.deletable THEN ssCache ELSE [ssCache EXCEPT ![t][k] = v]
        /\ UNCHANGED <<ssSide, ssClock, ssWheel, ssWake, ssKept, ssSeen>>

\* Delete(): throws if the value must stay or the type does not match, and erases
\* the entry otherwise; the caches are not told.
SsDelete(k) ==
    /\ ssTable[k].type = "T" /\ ssTable[k].deletable
    /\ ssTable' = [ssTable EXCEPT ![k] = NoEntry]
    /\ UNCHANGED <<ssCache, ssMade, ssSide, ssEvent, ssClock, ssWheel, ssWake, ssKept,
                   ssSeen>>

\* Deletable(): a missing entry is made without a value, and with the key for its
\* type, which matches no T.
Deletable(k) ==
    LET e == ssTable[k]
    IN  /\ e.type # "key" /\ ~e.deletable
        /\ ssTable' = [ssTable EXCEPT ![k].deletable = TRUE,
                          ![k].type = IF @ = "none" THEN "key" ELSE @]
        /\ ssKept' = ssKept \union {<<t, e.value>> : t \in
                        {u \in SsThreads : e.value # 0 /\ ssCache[u][k] = e.value}}
        /\ UNCHANGED <<ssCache, ssMade, ssSide, ssEvent, ssClock, ssWheel, ssWake, ssSeen>>

\* The worker of ReloadableManager: ticks_to_wakeup(), which is almost unlimited
\* for an empty wheel, and sleep().
WorkerPoll ==
    /\ ssWake = ssClock /\ ssWheel = ssClock
    /\ ssWake' = IF Reloadables = {} THEN SsForever
                 ELSE Min({ssEvent[v].due : v \in Reloadables} \union {SsForever})
    /\ ssSeen' = Reloadables
    /\ UNCHANGED <<ssTable, ssCache, ssMade, ssSide, ssEvent, ssClock, ssWheel, ssKept>>

SsTime ==
    /\ ssClock < ssWake /\ ssClock < SsClock
    /\ ssClock' = ssClock + 1
    /\ UNCHANGED <<ssTable, ssCache, ssMade, ssSide, ssEvent, ssWheel, ssWake, ssKept,
                   ssSeen>>

\* advance(): ReloadableTimerEvent::execute() reloads and schedules itself again,
\* several times when the wheel was behind.
Fired(v) == IF v \notin Reloadables \/ ssEvent[v].due > ssClock THEN 0
            ELSE 1 + (ssClock - ssEvent[v].due) \div ssEvent[v].every
WorkerAdvance ==
    /\ ssWake = ssClock /\ ssWheel < ssClock
    /\ ssWheel' = ssClock
    /\ ssSide' = [v \in 1 .. SsValues |-> IF Fired(v) % 2 = 0 THEN ssSide[v]
                    ELSE IF ssSide[v] = "ping" THEN "pong" ELSE "ping"]
    /\ ssEvent' = [v \in 1 .. SsValues |->
                   [ssEvent[v] EXCEPT !.due = @ + Fired(v) * ssEvent[v].every]]
    /\ UNCHANGED <<ssTable, ssCache, ssMade, ssClock, ssWake, ssKept, ssSeen>>

SsNext ==
    \/ \E t \in SsThreads, k \in SsKeys : GetOrCreate(t, k)
    \/ \E k \in SsKeys : Deletable(k) \/ SsDelete(k)
    \/ WorkerPoll \/ WorkerAdvance \/ SsTime

----------------------------------------------------------------------------
\* All threads are given the same value for a key, and it is the one in the table,
\* except that a thread that cached a value before it was made deletable keeps it
\* after Delete(); and Has() is true exactly if a call would return a value.
ThreadsAgree ==
    \A t \in SsThreads, k \in SsKeys :
      LET v == GetOrNull(t, k)
      IN  /\ v # 0 => v = ssTable[k].value \/ <<t, v>> \in ssKept
          /\ SsHas(t, k) <=> v # 0
          /\ Mismatch(t, k) => v = 0

\* A reloadable value the worker knew of when it went to sleep is never reloaded
\* late, whichever others are added meanwhile.  (One that is added during the
\* sleep may be late by the whole sleep, which is endless in an empty wheel.)
ReloadedInTime == \A v \in ssSeen : ssEvent[v].due >= ssClock \/ ssWake = ssClock
=============================================================================
