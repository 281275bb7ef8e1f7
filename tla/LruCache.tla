------------------------------ MODULE LruCache ------------------------------
\* samples/contrib/expiring_lru_cache.h: a map of the cached elements and a list of
\* their keys, most recently used first.  An element that was not used for more
\* than the time to live is erased when find() meets it.
EXTENDS Integers, Sequences, SequencesExt

CONSTANTS LcKeys, LcCapacity, LcTtl,
          LcTime  \* bound: seconds

ASSUME LcAssumption == LcCapacity \in Nat \ {0} /\ LcTtl \in Nat

VARIABLES lcUsed,  \* m_used
          lcTime,  \* m_cache: the time of every cached key; -1 if not cached
          lcNow,   \* clock_t::now()
          lcSince  \* history: the pairs of keys of which the first was used
                   \* after the last use of the second

lcVars == <<lcUsed, lcTime, lcNow, lcSince>>

LcInit == /\ lcUsed = <<>> /\ lcTime = [k \in LcKeys |-> -1]
          /\ lcNow = 0 /\ lcSince = {}

LcCached == {k \in LcKeys : lcTime[k] # -1}
LcExpired(k) == lcNow - lcTime[k] > LcTtl

\* The list without the node that the element of the key points to.
Unlinked(k) == RemoveAt(lcUsed, CHOOSE i \in DOMAIN lcUsed : lcUsed[i] = k)

\* The history after a use of the key.
UsedNow(k) == {p \in lcSince : p[2] # k} \cup ({k} \X (LcKeys \ {k}))

\* touch() splices the node of the key to the front of the list and resets the
\* time of the element.
Touch(k) == /\ lcUsed' = <<k>> \o Unlinked(k) /\ lcSince' = UsedNow(k)
            /\ lcTime' = [lcTime EXCEPT ![k] = lcNow]

\* find(), and at(), which throws when find() returns end()
LcFind(k) ==
    /\ k \in LcCached
    /\ IF LcExpired(k)
       THEN /\ lcUsed' = Unlinked(k) /\ lcTime' = [lcTime EXCEPT ![k] = -1]
            /\ UNCHANGED lcSince
       ELSE Touch(k)
    /\ UNCHANGED lcNow

\* emplace(): a new key evicts the last one of the list when the cache is full.
Emplace(k) ==
    /\ IF k \in LcCached THEN Touch(k)
       ELSE LET full == Cardinality(LcCached) = LcCapacity
                old  == IF full THEN {Last(lcUsed)} ELSE {}
            IN  /\ lcTime' = [j \in LcKeys |-> IF j = k THEN lcNow
                                ELSE IF j \in old THEN -1 ELSE lcTime[j]]
                /\ lcUsed' = <<k>> \o (IF full THEN Front(lcUsed) ELSE lcUsed)
                /\ lcSince' = UsedNow(k)
    /\ UNCHANGED lcNow

LcTick == lcNow < LcTime /\ lcNow' = lcNow + 1 /\ UNCHANGED <<lcUsed, lcTime, lcSince>>

LcNext == LcTick \/ \E k \in LcKeys : LcFind(k) \/ Emplace(k)

----------------------------------------------------------------------------
\* The list holds every cached key once, within the capacity, in the order of the
\* last use, expired elements last; so the evicted element is the least recently
\* used one, although elements also leave from the middle when they expire.
ListIsUseOrder ==
    /\ ToSet(lcUsed) = LcCached /\ IsInjective(lcUsed)
    /\ Len(lcUsed) \leq LcCapacity
    /\ \A i, j \in DOMAIN lcUsed :
          /\ i < j <=> <<lcUsed[i], lcUsed[j]>> \in lcSince
          /\ i < j => lcTime[lcUsed[i]] >= lcTime[lcUsed[j]]
=============================================================================
