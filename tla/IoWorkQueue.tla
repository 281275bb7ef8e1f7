---------------------------- MODULE IoWorkQueue ----------------------------
\* io_work_queue of samples/io_service.h: the first in first out queue in which
\* one thread leaves io_uring operations for the thread that submits them.  The
\* buffer is a circular array that the enqueuing thread doubles when it is full
\* while the other thread may be in the middle of dequeue().
\*
\* M_front and M_back are unsigned and wrap around (modulo WqWrap here, 2^64 in
\* the code).  An item is named by the position it was enqueued at, so that the
\* contents of a cell tell whether the right item is still there.
EXTENDS Integers

CONSTANTS WqWrap,      \* number of values of a position
          WqCapacity,  \* capacity of the first array
          WqArrays,    \* bound: number of arrays the queue may grow through
          WqBulk       \* numbers of items given to bulk_enqueue

\* circular_array(): array a has twice the cells of array a - 1.
SizeOf[a \in 1 .. WqArrays] == IF a = 1 THEN WqCapacity ELSE 2 * SizeOf[a - 1]
Size(a) == SizeOf[a]

ASSUME WqAssumption ==
    /\ WqWrap \in Nat /\ WqCapacity \in Nat \ {0} /\ WqArrays \in Nat \ {0}
    /\ WqWrap > Size(WqArrays) /\ WqWrap % Size(WqArrays) = 0
    /\ \A n \in WqBulk : n \in 1 .. WqCapacity - 1

VARIABLES wqFront, wqBack,   \* M_front, M_back
          wqData,            \* M_data: number of the current array
          wqCells,           \* contents of every array
          wqProducer,        \* enqueuing thread: step, items, front it loaded
          wqConsumer         \* dequeuing thread: step, array and item it read

wqVars == <<wqFront, wqBack, wqData, wqCells, wqProducer, wqConsumer>>

WqNone == -1
WqPositions == 0 .. WqWrap - 1

\* push(): the cell of position i is i & M_mask.
Push(cells, a, i, x) == [cells EXCEPT ![a][i % Size(a)] = x]

\* pop()
Pop(cells, a, i) == cells[a][i % Size(a)]

\* The positions from front up to back, in unsigned arithmetic.
Distance(back, front) == (back - front) % WqWrap
Window(back, front) ==
    {i \in WqPositions : Distance(i, front) < Distance(back, front)}

\* The test of enqueue() (items = 0) and bulk_enqueue() (items = their number);
\* the second test, for back < front, computes the same difference again.
Full(front, items) ==
    (Size(wqData) - 1 - items) % WqWrap < Distance(wqBack, front)

\* resize(): copy the window to an array of twice the size.  The old array is
\* kept in M_old, the one before it is deleted.
Resized(cells, front) ==
    [cells EXCEPT ![wqData + 1] =
        [c \in DOMAIN cells[wqData + 1] |->
            IF \E i \in Window(wqBack, front) : i % Size(wqData + 1) = c
            THEN Pop(cells, wqData, CHOOSE i \in Window(wqBack, front) :
                                        i % Size(wqData + 1) = c)
            ELSE WqNone]]

WqInit ==
    /\ wqFront = 0 /\ wqBack = 0 /\ wqData = 1
    /\ wqCells = [a \in 1 .. WqArrays |-> [c \in 0 .. Size(a) - 1 |-> WqNone]]
    /\ wqProducer = [at |-> "idle", items |-> 0, bulk |-> FALSE, front |-> 0]
    /\ wqConsumer = [at |-> "idle", data |-> 1, item |-> WqNone]

\* enqueue() and bulk_enqueue(), first part: M_front is loaded, and may change
\* before the rest is done.
EnqueueLoad(n, bulk) ==
    /\ wqProducer.at = "idle"
    /\ wqProducer' = [at |-> "store", items |-> n, bulk |-> bulk,
                      front |-> wqFront]
    /\ UNCHANGED <<wqFront, wqBack, wqData, wqCells, wqConsumer>>

\* Second part: resize when full, then push every item.
EnqueueStore ==
    LET n    == wqProducer.items
        grow == Full(wqProducer.front, IF wqProducer.bulk THEN n ELSE 0)
        a    == IF grow THEN wqData + 1 ELSE wqData
        base == IF grow THEN Resized(wqCells, wqProducer.front) ELSE wqCells
        new(c) == {k \in 0 .. n - 1 : (wqBack + k) % Size(a) = c}
    IN  /\ wqProducer.at = "store"
        /\ a \leq WqArrays
        /\ wqData' = a
        /\ wqCells' = [base EXCEPT ![a] =
              [c \in DOMAIN @ |->
                 IF new(c) = {} THEN @[c]
                 ELSE (wqBack + CHOOSE k \in new(c) : TRUE) % WqWrap]]
        /\ wqProducer' = [wqProducer EXCEPT !.at = "publish"]
        /\ UNCHANGED <<wqFront, wqBack, wqConsumer>>

\* Last part: M_back.store.
EnqueuePublish ==
    /\ wqProducer.at = "publish"
    /\ wqBack' = (wqBack + wqProducer.items) % WqWrap
    /\ wqProducer' = [at |-> "idle", items |-> 0, bulk |-> FALSE, front |-> 0]
    /\ UNCHANGED <<wqFront, wqData, wqCells, wqConsumer>>

\* dequeue(), first part: not empty, and M_data is loaded.
DequeueLoad ==
    /\ wqConsumer.at = "idle" /\ wqBack # wqFront
    /\ wqConsumer' = [at |-> "read", data |-> wqData, item |-> WqNone]
    /\ UNCHANGED <<wqFront, wqBack, wqData, wqCells, wqProducer>>

\* Second part: the item is read from the array that was loaded.
DequeueRead ==
    /\ wqConsumer.at = "read"
    /\ wqConsumer' = [wqConsumer EXCEPT !.at = "advance",
                        !.item = Pop(wqCells, wqConsumer.data, wqFront)]
    /\ UNCHANGED <<wqFront, wqBack, wqData, wqCells, wqProducer>>

\* Last part: M_front.store.
DequeueAdvance ==
    /\ wqConsumer.at = "advance"
    /\ wqFront' = (wqFront + 1) % WqWrap
    /\ wqConsumer' = [at |-> "idle", data |-> 1, item |-> WqNone]
    /\ UNCHANGED <<wqBack, wqData, wqCells, wqProducer>>

WqNext ==
    \/ EnqueueLoad(1, FALSE)
    \/ \E n \in WqBulk : EnqueueLoad(n, TRUE)
    \/ EnqueueStore \/ EnqueuePublish
    \/ DequeueLoad \/ DequeueRead \/ DequeueAdvance

WqSpec == WqInit /\ [][WqNext]_wqVars

----------------------------------------------------------------------------
\* Every position between M_front and M_back holds the item enqueued there, in
\* the current array and in the array a dequeue has already loaded: growing and
\* wrapping around never overwrite an item that was not dequeued
\* (enqueue, bulk_enqueue, resize).
WindowIntact ==
    /\ \A i \in Window(wqBack, wqFront) : Pop(wqCells, wqData, i) = i
    /\ wqConsumer.at = "read" => Pop(wqCells, wqConsumer.data, wqFront) = wqFront

\* dequeue() takes the items in the order they were enqueued, whatever growth
\* happens between its load of M_data and its store of M_front.
FirstInFirstOut == wqConsumer.at = "advance" => wqConsumer.item = wqFront
=============================================================================
