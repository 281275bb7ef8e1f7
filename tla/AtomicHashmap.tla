--------------------------- MODULE AtomicHashmap ---------------------------
\* AtomicHashmap.h: buckets in levels, one candidate bucket per key and level.  A
\* bucket is a pointer to a counted key and a pointer to a counted value, each
\* replaced by a compare-exchange of its own.  Every call of Set() makes one key
\* object and one value object; both are named by the number of the call.
\*
\* Nothing protects a bucket between two accesses.  The history ahRaced is set
\* when a thread writes a bucket that another one has looked at and not left;
\* then a counter may be incremented in freed memory and anything may follow.
EXTENDS Integers, Sequences, FiniteSets

CONSTANTS AhThreads, AhKeys,  \* a key is its own hash
          AhLevels,           \* M_level_capacity
          AhSets              \* bound: number of calls of Set()

ASSUME AhAssumption ==
    /\ AhKeys \subseteq Nat /\ AhSets \in Nat /\ IsFiniteSet(AhThreads)
    /\ AhLevels \in Seq(Nat \ {0}) /\ AhLevels # <<>>

VARIABLES ahKey, ahVal,        \* key and value pointer of every bucket, 0 if null
          ahKeyRef, ahValRef,  \* __ref of every object, 0 before and after its life
          ahThread,
          ahSetOf,             \* history: the key of every call of Set() so far
          ahMap,               \* history: last completed Set() of a key, 0 after Delete()
          ahSerial, ahRaced    \* history: no writing calls overlapped; a race

ahVars == <<ahKey, ahVal, ahKeyRef, ahValRef, ahThread, ahSetOf, ahMap, ahSerial,
            ahRaced>>

AhBase[l \in DOMAIN AhLevels] == IF l = 1 THEN 0 ELSE AhBase[l - 1] + AhLevels[l - 1]
AhBuckets == 1 .. AhBase[Len(AhLevels)] + AhLevels[Len(AhLevels)]

\* base + hash % capacity
AhBucket(l, k) == AhBase[l] + (k % AhLevels[l]) + 1

\* IsOccupied(key) and IsAvailable(key)
Holds(b, k) == ahKey[b] # 0 /\ ahSetOf[ahKey[b]] = k
Available(b, k) == ahKey[b] = 0 \/ Holds(b, k)

AhIdle == [at |-> "idle", op |-> "none", key |-> 0, level |-> 0, b |-> 0,
           word |-> "key", new |-> 0, old |-> 0]

AhInit ==
    /\ ahKey = [b \in AhBuckets |-> 0] /\ ahVal = [b \in AhBuckets |-> 0]
    /\ ahKeyRef = [n \in 1 .. AhSets |-> 0] /\ ahValRef = [n \in 1 .. AhSets |-> 0]
    /\ ahThread = [t \in AhThreads |-> AhIdle] /\ ahSetOf = <<>>
    /\ ahMap = [k \in AhKeys |-> 0] /\ ahSerial = TRUE /\ ahRaced = FALSE

AhGo(t, r) == ahThread' = [ahThread EXCEPT ![t] = r]
AhWrites(u) == ahThread[u].op \in {"set", "delete", "cleanup"}
Released(ref, n) == IF n = 0 THEN ref ELSE [ref EXCEPT ![n] = @ - 1]

\* A writing call begins; ahMap is given up when another one is in progress.
AhWriter == IF \E u \in AhThreads : AhWrites(u)
            THEN ahSerial' = FALSE /\ ahMap' = [k \in AhKeys |-> 0]
            ELSE UNCHANGED <<ahSerial, ahMap>>

\* The calls begin.
SetBegin(t, k) ==
    /\ ahThread[t].at = "idle" /\ Len(ahSetOf) < AhSets
    /\ ahSetOf' = Append(ahSetOf, k)
    /\ AhGo(t, [AhIdle EXCEPT !.at = "avail", !.op = "set", !.key = k, !.level = 1,
                              !.b = AhBucket(1, k), !.new = Len(ahSetOf) + 1])
    /\ AhWriter
    /\ UNCHANGED <<ahKey, ahVal, ahKeyRef, ahValRef, ahRaced>>

\* Delete() walks over all buckets, and so does Cleanup().
DeleteBegin(t, op, k) ==
    /\ ahThread[t].at = "idle"
    /\ AhGo(t, [AhIdle EXCEPT !.at = "walk", !.op = op, !.key = k, !.b = 1])
    /\ AhWriter
    /\ UNCHANGED <<ahKey, ahVal, ahKeyRef, ahValRef, ahSetOf, ahRaced>>

GetBegin(t, k) ==
    /\ ahThread[t].at = "idle"
    /\ AhGo(t, [AhIdle EXCEPT !.at = "look", !.op = "get", !.key = k, !.level = 1,
                              !.b = AhBucket(1, k)])
    /\ UNCHANGED <<ahKey, ahVal, ahKeyRef, ahValRef, ahSetOf, ahMap, ahSerial,
                   ahRaced>>

\* The next level of Lookup() and Occupy(), or the call fails.
NextLevel(t, at) ==
    LET me == ahThread[t]
    IN  IF me.level = Len(AhLevels) THEN AhIdle
        ELSE [me EXCEPT !.at = at, !.word = "key", !.old = 0, !.level = @ + 1,
                        !.b = AhBucket(me.level + 1, me.key)]

\* Occupy(): IsAvailable(); the key is cloned once, and released when the levels
\* are used up.
Occupy(t) ==
    LET me == ahThread[t]
        last == me.level = Len(AhLevels)
    IN  /\ me.at = "avail"
        /\ IF Available(me.b, me.key)
           THEN /\ AhGo(t, [me EXCEPT !.at = "load"])
                /\ ahKeyRef' = [ahKeyRef EXCEPT ![me.new] = 1]
           ELSE /\ AhGo(t, NextLevel(t, "avail"))
                /\ ahKeyRef' = [ahKeyRef EXCEPT ![me.new] = IF last THEN 0 ELSE @]
        /\ UNCHANGED <<ahKey, ahVal, ahValRef, ahSetOf, ahMap, ahSerial, ahRaced>>

\* Exchange(): the pointer is loaded ...
ExchangeLoad(t) ==
    LET me == ahThread[t]
    IN  /\ me.at = "load"
        /\ AhGo(t, [me EXCEPT !.at = "cas",
                     !.old = IF me.word = "key" THEN ahKey[me.b] ELSE ahVal[me.b]])
        /\ UNCHANGED <<ahKey, ahVal, ahKeyRef, ahValRef, ahSetOf, ahMap, ahSerial,
                       ahRaced>>

\* Mutant: Delete() returns after the first bucket that has the key.
NextBucketMissing(t) ==
    LET me == ahThread[t]
    IN  IF me.b + 1 \in AhBuckets /\ me.at = "walk"
        THEN [me EXCEPT !.b = @ + 1] ELSE AhIdle

\* The bucket after the one Delete() is at; after the last one it returns.
NextBucket(t) ==
    LET me == ahThread[t]
    IN  IF me.b + 1 \in AhBuckets
        THEN [AhIdle EXCEPT !.at = "walk", !.op = me.op, !.key = me.key,
                             !.b = me.b + 1] ELSE AhIdle
Forgotten(t) ==
    IF NextBucket(t) # AhIdle THEN ahMap
    ELSE [k \in AhKeys |-> IF k = ahThread[t].key \/ ahThread[t].op = "cleanup"
                           THEN 0 ELSE ahMap[k]]

\* A write to bucket b by t while another thread is between two accesses to it.
Race(t, b) == \E u \in AhThreads \ {t} :
                 ahThread[u].b = b /\ ahThread[u].at \in {"load", "cas", "read"}

\* ... and compared and exchanged; the old object loses a reference.  Set() goes
\* on from the key to the value or, when it fails, to the next level; a value
\* that was not exchanged is forgotten.  Cleanup of a bucket clears the key and
\* then the value, whether they were exchanged or not.
ExchangeKey(t) ==
    LET me == ahThread[t]
        done == ahKey[me.b] = me.old
        full == me.op = "set" /\ ~done /\ me.level = Len(AhLevels)
    IN  /\ me.at = "cas" /\ me.word = "key"
        /\ ahKey' = IF done THEN [ahKey EXCEPT ![me.b] = me.new] ELSE ahKey
        /\ ahKeyRef' = IF done THEN Released(ahKeyRef, me.old)
                       ELSE IF full THEN Released(ahKeyRef, me.new) ELSE ahKeyRef
        /\ ahValRef' = IF done /\ me.op = "set" THEN [ahValRef EXCEPT ![me.new] = 1]
                       ELSE ahValRef
        /\ AhGo(t, IF done \/ me.op # "set"
                   THEN [me EXCEPT !.at = "load", !.word = "value", !.old = 0]
                   ELSE NextLevel(t, "avail"))
        /\ ahRaced' = (ahRaced \/ (done /\ Race(t, me.b)))
        /\ UNCHANGED <<ahVal, ahSetOf, ahMap, ahSerial>>

ExchangeValue(t) ==
    LET me == ahThread[t]
        done == ahVal[me.b] = me.old
    IN  /\ me.at = "cas" /\ me.word = "value"
        /\ ahVal' = IF done THEN [ahVal EXCEPT ![me.b] = me.new] ELSE ahVal
        /\ ahValRef' = IF done THEN Released(ahValRef, me.old) ELSE ahValRef
        /\ AhGo(t, IF me.op = "set" THEN AhIdle ELSE NextBucket(t))
        /\ ahMap' = IF me.op # "set" THEN Forgotten(t)
                    ELSE IF ahSerial THEN [ahMap EXCEPT ![me.key] = me.new] ELSE ahMap
        /\ ahRaced' = (ahRaced \/ (done /\ Race(t, me.b)))
        /\ UNCHANGED <<ahKey, ahKeyRef, ahSetOf, ahSerial>>

\* WalkKey() of Delete() and the loop of Cleanup(): is the bucket concerned?
Walk(t) ==
    LET me == ahThread[t]
        hit == IF me.op = "delete" THEN Holds(me.b, me.key) ELSE ahKey[me.b] # 0
    IN  /\ me.at = "walk"
        /\ AhGo(t, IF hit THEN [me EXCEPT !.at = "load"] ELSE NextBucket(t))
        /\ ahMap' = IF hit THEN ahMap ELSE Forgotten(t)
        /\ UNCHANGED <<ahKey, ahVal, ahKeyRef, ahValRef, ahSetOf, ahSerial, ahRaced>>

\* Lookup() of Get()
Lookup(t) ==
    LET me == ahThread[t]
    IN  /\ me.at = "look"
        /\ AhGo(t, IF Holds(me.b, me.key) THEN [me EXCEPT !.at = "read"]
                   ELSE NextLevel(t, "look"))
        /\ UNCHANGED <<ahKey, ahVal, ahKeyRef, ahValRef, ahSetOf, ahMap, ahSerial,
                       ahRaced>>

\* AccessValue() and Acquire(): the caller holds a ValueAccessor ...
AccessValue(t) ==
    LET me == ahThread[t]
        n  == ahVal[me.b]
    IN  /\ me.at = "read"
        /\ AhGo(t, IF n = 0 THEN AhIdle ELSE [AhIdle EXCEPT !.at = "hold", !.key = me.key,
                                                  !.old = n])
        /\ ahValRef' = IF n = 0 THEN ahValRef ELSE [ahValRef EXCEPT ![n] = @ + 1]
        /\ UNCHANGED <<ahKey, ahVal, ahKeyRef, ahSetOf, ahMap, ahSerial, ahRaced>>

\* ... until ~Accessor() releases it.
Drop(t) ==
    /\ ahThread[t].at = "hold"
    /\ ahValRef' = Released(ahValRef, ahThread[t].old)
    /\ AhGo(t, AhIdle)
    /\ UNCHANGED <<ahKey, ahVal, ahKeyRef, ahSetOf, ahMap, ahSerial, ahRaced>>

AhNext ==
    /\ ~ahRaced
    /\ \E t \in AhThreads :
         \/ \E k \in AhKeys : \/ SetBegin(t, k) \/ GetBegin(t, k)
                              \/ DeleteBegin(t, "delete", k)
         \/ DeleteBegin(t, "cleanup", 0)
         \/ Occupy(t) \/ ExchangeLoad(t) \/ ExchangeKey(t) \/ ExchangeValue(t)
         \/ Walk(t) \/ Lookup(t) \/ AccessValue(t) \/ Drop(t)

AhSpec == AhInit /\ [][AhNext]_ahVars

----------------------------------------------------------------------------
Stores(u, word, n) ==
    ahThread[u].op = "set" /\ ahThread[u].word = word /\ ahThread[u].new = n

\* Unless two calls met at a bucket, the reference count of every object is the
\* number of its holders (bucket, accessor, or the call that has not stored it
\* yet): nothing leaks, and what an accessor holds is not deleted, however long
\* it is held and whatever is set, deleted or cleaned up meanwhile.
CountsExact ==
    ahRaced \/ \A n \in 1 .. AhSets :
      /\ \/ ahKeyRef[n] = Cardinality({b \in AhBuckets : ahKey[b] = n})
         \/ ahKeyRef[n] = 1 /\ \E u \in AhThreads : Stores(u, "key", n)
      /\ ahValRef[n] = Cardinality({b \in AhBuckets : ahVal[b] = n})
           + Cardinality({u \in AhThreads :
                            \/ ahThread[u].at = "hold" /\ ahThread[u].old = n
                            \/ Stores(u, "value", n)})

\* Unless two calls met at a bucket, a bucket pairs a key with a value that was
\* set for it, so Get() never returns the value of another key.
OwnValue ==
    ahRaced \/ /\ \A b \in AhBuckets : ahKey[b] # 0 /\ ahVal[b] # 0 =>
                     ahSetOf[ahKey[b]] = ahSetOf[ahVal[b]]
               /\ \A t \in AhThreads : ahThread[t].at = "hold" =>
                     ahSetOf[ahThread[t].old] = ahThread[t].key

\* What Get() would return in a state without calls in progress.
Found(k) ==
    LET ls == {l \in DOMAIN AhLevels : Holds(AhBucket(l, k), k)}
    IN  IF ls = {} THEN 0
        ELSE ahVal[AhBucket(CHOOSE l \in ls : \A m \in ls : l \leq m, k)]

\* As long as writing calls do not overlap, the map returns the value of the last
\* Set(), and nothing after Delete() or Cleanup(), although a key may sit in
\* several levels with older values in the deeper ones.
LastSetFound ==
    ahSerial /\ ~ahRaced /\ (\A t \in AhThreads : ~AhWrites(t)) =>
      \A k \in AhKeys : Found(k) = ahMap[k]
=============================================================================
