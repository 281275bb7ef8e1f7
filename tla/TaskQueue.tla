----------------------------- MODULE TaskQueue -----------------------------
\* work_stealing_queue of samples/io_service.h (task_queue of the coroutine
\* scheduler): a worker enqueues and dequeues at the back, the others steal at
\* the front.  dequeue() loads M_front before it stores the smaller M_back, so a
\* thief that completes a steal between the two is not noticed.  The model keeps
\* the history tqRaced: some steal fell into that window.
\*
\* Every array of the circular buffer is indexed by position modulo its size;
\* the positions themselves do not wrap within the bound on enqueues.
EXTENDS Integers, FiniteSets

CONSTANTS TqThieves,   \* the threads that steal
          TqItems,     \* bound: number of enqueues; items are 1 .. TqItems
          TqCapacity   \* capacity of the first array

ASSUME TqAssumption == TqItems \in Nat /\ TqCapacity \in Nat \ {0}

VARIABLES tqFront, tqBack, tqSize, tqCells, tqCount,
          tqOwner, tqThief,
          tqTaken,   \* history: how often each item was handed out
          tqRaced    \* history: a steal completed inside the window of dequeue()

tqVars == <<tqFront, tqBack, tqSize, tqCells, tqCount, tqOwner, tqThief,
            tqTaken, tqRaced>>

TqIdle == [at |-> "idle", front |-> 0, back |-> 0, item |-> 0]

TqInit ==
    /\ tqFront = 0 /\ tqBack = 0 /\ tqSize = TqCapacity /\ tqCount = 0
    /\ tqCells = [c \in 0 .. TqCapacity - 1 |-> 0]
    /\ tqOwner = TqIdle /\ tqThief = [t \in TqThieves |-> TqIdle]
    /\ tqTaken = [x \in 1 .. TqItems |-> 0] /\ tqRaced = FALSE

\* The queue is empty, also when M_front overran M_back by one.
TaskEmpty(front, back) == front = back \/ front = back + 1

\* dequeue(): the item may be the last one, by the M_front loaded before.
LastItem == tqOwner.front = tqOwner.back

Take(x) == tqTaken' = [tqTaken EXCEPT ![x] = @ + 1]

\* resize(): the window is copied to an array of the given size.
TaskResize(size) ==
    [c \in 0 .. size - 1 |->
       IF \E i \in tqFront .. tqBack - 1 : i % size = c
       THEN tqCells[(CHOOSE i \in tqFront .. tqBack - 1 : i % size = c) % tqSize]
       ELSE 0]

\* enqueue(), up to the publication: M_front is loaded, the array grows when the
\* window fills it, and the item is stored.  When M_front is one past M_back the
\* difference is huge in unsigned arithmetic and the inner test leaves the array
\* as it is.
TaskEnqueue ==
    LET full == tqBack \geq tqFront /\ tqSize - 1 < tqBack - tqFront
        size == IF full THEN 2 * tqSize ELSE tqSize
        base == IF full THEN TaskResize(size) ELSE tqCells
    IN  /\ tqOwner.at = "idle" /\ tqCount < TqItems
        /\ tqSize' = size
        /\ tqCells' = [base EXCEPT ![tqBack % size] = tqCount + 1]
        /\ tqCount' = tqCount + 1
        /\ tqOwner' = [tqOwner EXCEPT !.at = "publish"]
        /\ UNCHANGED <<tqFront, tqBack, tqThief, tqTaken, tqRaced>>

\* enqueue(): M_back.store(back + 1).
TaskPublish ==
    /\ tqOwner.at = "publish"
    /\ tqBack' = tqBack + 1
    /\ tqOwner' = TqIdle
    /\ UNCHANGED <<tqFront, tqSize, tqCells, tqCount, tqThief, tqTaken, tqRaced>>

\* dequeue(): M_back and M_front are loaded; empty returns.
TaskDequeueLoad ==
    /\ tqOwner.at = "idle"
    /\ ~TaskEmpty(tqFront, tqBack)
    /\ tqOwner' = [at |-> "shrink", front |-> tqFront, back |-> tqBack - 1,
                   item |-> 0]
    /\ UNCHANGED <<tqFront, tqBack, tqSize, tqCells, tqCount, tqThief, tqTaken,
                   tqRaced>>

\* dequeue(): M_back.store(--back), and the item is read.  It is the owner's
\* unless it may be the last one, judged by the M_front loaded before.
TaskDequeueShrink ==
    LET x == tqCells[tqOwner.back % tqSize]
    IN  /\ tqOwner.at = "shrink"
        /\ tqBack' = tqOwner.back
        /\ IF LastItem
           THEN /\ tqOwner' = [tqOwner EXCEPT !.at = "restore", !.item = x]
                /\ UNCHANGED tqTaken
           ELSE tqOwner' = TqIdle /\ Take(x)
        /\ UNCHANGED <<tqFront, tqSize, tqCells, tqCount, tqThief, tqRaced>>

\* dequeue(), last item: M_back is stored back.
TaskDequeueRestore ==
    /\ tqOwner.at = "restore"
    /\ tqBack' = tqOwner.back + 1
    /\ tqOwner' = [tqOwner EXCEPT !.at = "claim"]
    /\ UNCHANGED <<tqFront, tqSize, tqCells, tqCount, tqThief, tqTaken, tqRaced>>

\* dequeue(), last item: M_front decides between the owner and a thief.
TaskDequeueClaim ==
    /\ tqOwner.at = "claim"
    /\ IF tqFront = tqOwner.front
       THEN tqFront' = tqFront + 1 /\ Take(tqOwner.item)
       ELSE UNCHANGED <<tqFront, tqTaken>>
    /\ tqOwner' = TqIdle
    /\ UNCHANGED <<tqBack, tqSize, tqCells, tqCount, tqThief, tqRaced>>

\* steal(): M_front is loaded.
StealLoadFront(t) ==
    /\ tqThief[t].at = "idle"
    /\ tqThief' = [tqThief EXCEPT ![t] = [TqIdle EXCEPT !.at = "back",
                                                        !.front = tqFront]]
    /\ UNCHANGED <<tqFront, tqBack, tqSize, tqCells, tqCount, tqOwner, tqTaken,
                   tqRaced>>

\* steal(): M_back is loaded; empty returns.
StealLoadBack(t) ==
    /\ tqThief[t].at = "back"
    /\ tqThief' = [tqThief EXCEPT ![t] =
                     IF TaskEmpty(@.front, tqBack) THEN TqIdle
                     ELSE [@ EXCEPT !.at = "read"]]
    /\ UNCHANGED <<tqFront, tqBack, tqSize, tqCells, tqCount, tqOwner, tqTaken,
                   tqRaced>>

\* steal(): the item is read from the array M_data points to.
StealRead(t) ==
    /\ tqThief[t].at = "read"
    /\ tqThief' = [tqThief EXCEPT ![t] =
          [@ EXCEPT !.at = "cas", !.item = tqCells[tqThief[t].front % tqSize]]]
    /\ UNCHANGED <<tqFront, tqBack, tqSize, tqCells, tqCount, tqOwner, tqTaken,
                   tqRaced>>

\* steal(): compare_exchange of M_front.
StealCas(t) ==
    /\ tqThief[t].at = "cas"
    /\ IF tqFront = tqThief[t].front
       THEN /\ tqFront' = tqFront + 1
            /\ Take(tqThief[t].item)
            /\ tqRaced' = (tqRaced \/ tqOwner.at = "shrink")
       ELSE UNCHANGED <<tqFront, tqTaken, tqRaced>>
    /\ tqThief' = [tqThief EXCEPT ![t] = TqIdle]
    /\ UNCHANGED <<tqBack, tqSize, tqCells, tqCount, tqOwner>>

TqNext ==
    \/ TaskEnqueue \/ TaskPublish
    \/ TaskDequeueLoad \/ TaskDequeueShrink \/ TaskDequeueRestore
    \/ TaskDequeueClaim
    \/ \E t \in TqThieves : \/ StealLoadFront(t) \/ StealLoadBack(t)
                            \/ StealRead(t) \/ StealCas(t)

TqSpec == TqInit /\ [][TqNext]_tqVars

----------------------------------------------------------------------------
\* A coroutine handle is handed out at most once, and is never lost: while the
\* owner is at rest every item that was enqueued and not handed out is between
\* M_front and M_back.  A steal inside the window of dequeue() between its load
\* of M_front and its store of M_back is the only thing that can break this.
HandedOutOnce ==
    tqRaced \/ /\ \A x \in 1 .. TqItems : tqTaken[x] \leq 1
               /\ tqOwner.at = "idle" =>
                    \A x \in 1 .. tqCount :
                      \/ tqTaken[x] = 1
                      \/ \E i \in tqFront .. tqBack - 1 : tqCells[i % tqSize] = x

\* Even after such a race M_front is at most one past M_back, the one overrun
\* that dequeue() and steal() test for.
OverrunByOne == tqFront \leq tqBack + 1
=============================================================================
