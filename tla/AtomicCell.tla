----------------------------- MODULE AtomicCell -----------------------------
\* Atomic.h, Atomic<T> for a T that is not arithmetic: an atomic pointer to a value
\* on the heap.  store() and exchange() put a new object in and delete the old
\* one; load() copies the object the pointer points to.
EXTENDS Integers, Sequences, SequencesExt

CONSTANTS AcThreads, AcObjects  \* bound: objects made

VARIABLES acPtr,     \* the atomic pointer, 0 after ~Atomic()
          acAlive,   \* the objects on the heap
          acMade, acThread,
          acTaken    \* history: the objects whose value exchange() has moved out

acVars == <<acPtr, acAlive, acMade, acThread, acTaken>>

AcIdle == [at |-> "idle", obj |-> 0]

AcInit == /\ acPtr = 1 /\ acAlive = {1} /\ acMade = 1 /\ acTaken = <<>>
          /\ acThread = [t \in AcThreads |-> AcIdle]

AcGo(t, at, obj) == acThread' = [acThread EXCEPT ![t] = [at |-> at, obj |-> obj]]

\* load(): the pointer; the copy is a later step, and another thread may have
\* deleted the object meanwhile.
CellLoad(t) == /\ acThread[t].at = "idle" /\ acPtr # 0
               /\ AcGo(t, "copy", acPtr)
               /\ UNCHANGED <<acPtr, acAlive, acMade, acTaken>>
CellCopy(t) == /\ acThread[t].at = "copy" /\ AcGo(t, "idle", 0)
               /\ UNCHANGED <<acPtr, acAlive, acMade, acTaken>>

\* store() and exchange(): a new object is exchanged for the old one ...
CellExchange(t, at) ==
    /\ acThread[t].at = "idle" /\ acPtr # 0 /\ acMade < AcObjects
    /\ acMade' = acMade + 1 /\ acPtr' = acMade + 1
    /\ acAlive' = acAlive \union {acMade + 1}
    /\ AcGo(t, at, acPtr)
    /\ UNCHANGED acTaken

\* ... whose value exchange() moves out, and which is deleted.
CellDelete(t) ==
    /\ acThread[t].at \in {"store", "exchange"}
    /\ acTaken' = IF acThread[t].at = "store" THEN acTaken
                  ELSE Append(acTaken, acThread[t].obj)
    /\ acAlive' = acAlive \ {acThread[t].obj}
    /\ AcGo(t, "idle", 0)
    /\ UNCHANGED <<acPtr, acMade>>

\* ~Atomic(), when no call is in progress
CellDestruct ==
    /\ acPtr # 0 /\ \A t \in AcThreads : acThread[t] = AcIdle
    /\ acPtr' = 0 /\ acAlive' = acAlive \ {acPtr}
    /\ UNCHANGED <<acMade, acThread, acTaken>>

AcNext == CellDestruct \/ \E t \in AcThreads :
            \/ CellLoad(t) \/ CellCopy(t) \/ CellDelete(t)
            \/ \E at \in {"store", "exchange"} : CellExchange(t, at)

----------------------------------------------------------------------------
\* Whatever calls overlap, nothing leaks and nothing is deleted twice: alive are
\* the current object and those a call has exchanged and will delete, no two calls
\* have the same one, and no value is moved out twice.
CellOwnsOne ==
    LET old(t) == IF acThread[t].at \in {"store", "exchange"} THEN {acThread[t].obj}
                  ELSE {}
    IN  /\ acAlive = ({acPtr} \ {0}) \union UNION {old(t) : t \in AcThreads}
        /\ \A t, u \in AcThreads : t # u => old(t) \intersect old(u) = {}
        /\ \A t \in AcThreads : old(t) \intersect ({acPtr} \union ToSet(acTaken)) = {}
        /\ IsInjective(acTaken)
=============================================================================
