----------------------------- MODULE IoService -----------------------------
\* io_service of samples/io_service.{h,cc}: coroutines issue io_uring operations.
\* An operation goes through the queue of the issuing thread; whoever sets
\* M_io_sq_running moves all queues into the submission ring and submits; the
\* kernel completes operations in any order; the completion thread hands the
\* result to the coroutine through M_handle_ctl and frees the operation's
\* uring_data together with the awaiter's destructor through M_destroy_ctl.
\* Queue (IoWorkQueue), allocator (PoolAllocator) and scheduler (CoScheduler)
\* are abstract here.
EXTENDS Integers, Sequences, FiniteSets

CONSTANTS IsThreads,  \* the threads that issue operations
          IsCount,    \* bound: operations issued; each has its own uring_data
          IsEntries   \* entries of the submission ring

ASSUME IsAssumption == IsCount \in Nat /\ IsEntries \in Nat

VARIABLES isQueue,      \* M_io_work_queue of every thread
          isRing,       \* operations in the submission ring, not submitted
          isKernel,     \* operations the kernel works on
          isDone,       \* completion queue
          isRunning,    \* M_io_sq_running
          isOverflow,   \* M_io_queue_overflow is set
          isLost,       \* operations dequeued when the ring was full
          isBatch,      \* operations of the batch or link a thread collects
          isThread,     \* step of submit(), queues still to visit, its operation
          isLoop,       \* completion thread: step and operation
          isAwaiter,    \* where the awaiter of every operation is
          isKind,       \* what the operation needs to complete
          isSet,        \* flags of its uring_data that were exchanged with true
          isResult,     \* operations whose M_result was stored
          isFreed       \* how often its uring_data was deallocated

isVars == <<isQueue, isBatch, isRing, isKernel, isDone, isRunning, isOverflow,
            isLost, isThread, isLoop, isAwaiter, isKind, isSet, isResult, isFreed>>

\* The operations, by the structs that prepare them.  run() asks for an entry of
\* the ring, prepares it with its arguments, and stores M_data in it.
ControlOps == {"nop", "poll_add", "cancel"}
FileOps == {"openat", "read", "readv", "read_provide_buffer", "read_fixed"}
WriteOps == {"write", "writev", "write_fixed"}
TimeoutOps == {"timeout", "link_timeout"}
SocketOps == {"recv", "recv_provide_buffer", "accept", "send"}
OtherOps == {"close", "statx", "provide_buffer"}
IoUringOps ==
    ControlOps \cup FileOps \cup WriteOps \cup TimeoutOps \cup SocketOps \cup OtherOps

\* What the kernel waits for: nothing, or an event that may never come and
\* that cancel can stand in for.
Waits(op) == op \in {"poll_add", "recv", "recv_provide_buffer", "accept",
                     "timeout", "link_timeout"}
Kind(op) == IF op = "cancel" THEN "cancel" ELSE IF Waits(op) THEN "waits" ELSE "prompt"

\* Operations are numbered in the order in which they are issued.
IsOps == 1 .. IsCount
NextOp == Cardinality({o \in IsOps : isAwaiter[o] # "none"}) + 1

IsIdle == [at |-> "idle", todo |-> {}, moved |-> FALSE]
AllEmpty == \A t \in IsThreads : isQueue[t] = <<>>
IsGo(t, r) == isThread' = [isThread EXCEPT ![t] = r]

\* submit(): M_io_sq_running.exchange(true) found it clear.
Submitter == ~isRunning

\* How often the side that exchanges M_destroy_ctl now has to deallocate.
DataSecond(o) == IF "destroy" \in isSet[o] THEN 1 ELSE 0

IsInit ==
    /\ isQueue = [t \in IsThreads |-> <<>>]
    /\ isBatch = [t \in IsThreads |-> <<>>] /\ isRing = {} /\ isKernel = {}
    /\ isDone = <<>> /\ isRunning = FALSE /\ isOverflow = FALSE /\ isLost = {}
    /\ isThread = [t \in IsThreads |-> IsIdle]
    /\ isLoop = [at |-> "wait", op |-> 0]
    /\ isAwaiter = [o \in IsOps |-> "none"]
    /\ isKind = [o \in IsOps |-> "none"]
    /\ isSet = [o \in IsOps |-> {}] /\ isResult = {}
    /\ isFreed = [o \in IsOps |-> 0]

\* An operation is made and its uring_data allocated.
Make(o, op) ==
    /\ o \in IsOps
    /\ isKind' = [isKind EXCEPT ![o] = Kind(op)]
    /\ isAwaiter' = [isAwaiter EXCEPT ![o] = "ready"]

\* submit_io() of io_service: the operation is enqueued and, unless it is linked
\* to the next one (as the poll_add of sleep() is), submit() is called.
Issue(t, op, linked) ==
    /\ isThread[t].at = "idle" /\ Make(NextOp, op)
    /\ linked => Waits(op)
    /\ isQueue' = [isQueue EXCEPT ![t] = Append(@, NextOp)]
    /\ IsGo(t, IF linked THEN IsIdle ELSE [IsIdle EXCEPT !.at = "enter"])
    /\ UNCHANGED <<isBatch, isRing, isKernel, isDone, isRunning, isOverflow,
                   isLost, isLoop, isSet, isResult, isFreed>>

\* submit_io() of io_operation_detached: the operation is collected.
Collect(t, op) ==
    /\ isThread[t].at = "idle" /\ Make(NextOp, op)
    /\ isBatch' = [isBatch EXCEPT ![t] = Append(@, NextOp)]
    /\ UNCHANGED <<isQueue, isRing, isKernel, isDone, isRunning, isOverflow,
                   isLost, isThread, isLoop, isSet, isResult, isFreed>>

\* submit(batch) and submit(link): what was collected is enqueued.
SubmitBatch(t) ==
    /\ isThread[t].at = "idle" /\ isBatch[t] # <<>>
    /\ isQueue' = [isQueue EXCEPT ![t] = @ \o isBatch[t]]
    /\ isBatch' = [isBatch EXCEPT ![t] = <<>>]
    /\ IsGo(t, [IsIdle EXCEPT !.at = "enter"])
    /\ UNCHANGED <<isRing, isKernel, isDone, isRunning, isOverflow, isLost,
                   isLoop, isAwaiter, isKind, isSet, isResult, isFreed>>

\* submit(), the loop condition: something is queued, and M_io_sq_running is
\* exchanged with true; otherwise the call returns.  After an overflow the flag
\* stays set, so the retry of the overflow queue is never reached.
SubmitEnter(t) ==
    /\ isThread[t].at = "enter"
    /\ IF AllEmpty
       THEN IsGo(t, IsIdle) /\ UNCHANGED isRunning
       ELSE /\ isRunning' = TRUE
            /\ IsGo(t, IF ~Submitter THEN IsIdle
                       ELSE [IsIdle EXCEPT !.at = "scan", !.todo = IsThreads])
    /\ UNCHANGED <<isQueue, isBatch, isRing, isKernel, isDone, isOverflow, isLost, isLoop,
                   isAwaiter, isKind, isSet, isResult, isFreed>>

\* init_io_uring_ops() on one queue: operations are dequeued and prepared until
\* the queue is empty.  The operation that finds the ring full is dropped (the
\* function returns before it is kept in M_overflow_work), and submit() returns
\* with M_io_sq_running set.
SubmitQueue(t, q) ==
    LET me   == isThread[t]
        room == IsEntries - Cardinality(isRing)
        n    == IF Len(isQueue[q]) \leq room THEN Len(isQueue[q]) ELSE room
        full == Len(isQueue[q]) > room
    IN  /\ me.at = "scan" /\ q \in me.todo
        /\ isRing' = isRing \cup {isQueue[q][k] : k \in 1 .. n}
        /\ isQueue' = [isQueue EXCEPT ![q] =
               SubSeq(@, (IF full THEN n + 2 ELSE n + 1), Len(@))]
        /\ isOverflow' = (isOverflow \/ full)
        /\ isLost' = IF full THEN isLost \cup {isQueue[q][n + 1]} ELSE isLost
        /\ IsGo(t, IF full THEN IsIdle
                   ELSE [me EXCEPT !.todo = @ \ {q}, !.moved = @ \/ n > 0])
        /\ UNCHANGED <<isBatch, isKernel, isDone, isRunning, isLoop, isAwaiter, isKind,
                       isSet, isResult, isFreed>>

\* submit(): all queues were visited; another round if one is not empty, else
\* io_uring_submit().
SubmitRing(t) ==
    LET me == isThread[t]
    IN  /\ me.at = "scan" /\ me.todo = {}
        /\ IF AllEmpty
           THEN /\ isKernel' = IF me.moved THEN isKernel \cup isRing ELSE isKernel
                /\ isRing' = IF me.moved THEN {} ELSE isRing
                /\ IsGo(t, [IsIdle EXCEPT !.at = "release"])
           ELSE /\ IsGo(t, [me EXCEPT !.todo = IsThreads])
                /\ UNCHANGED <<isKernel, isRing>>
        /\ UNCHANGED <<isQueue, isBatch, isDone, isRunning, isOverflow, isLost, isLoop,
                       isAwaiter, isKind, isSet, isResult, isFreed>>

\* submit(): M_io_sq_running.store(false), and round again.
SubmitRelease(t) ==
    /\ isThread[t].at = "release"
    /\ isRunning' = FALSE
    /\ IsGo(t, [IsIdle EXCEPT !.at = "enter"])
    /\ UNCHANGED <<isQueue, isBatch, isRing, isKernel, isDone, isOverflow, isLost, isLoop,
                   isAwaiter, isKind, isSet, isResult, isFreed>>

\* External: the kernel completes an operation; one that waits may complete by
\* its event, or because a cancel operation names it.
KernelComplete(o) ==
    /\ o \in isKernel
    /\ isKernel' = isKernel \ {o}
    /\ isDone' = Append(isDone, o)
    /\ UNCHANGED <<isQueue, isBatch, isRing, isRunning, isOverflow, isLost, isThread,
                   isLoop, isAwaiter, isKind, isSet, isResult, isFreed>>

KernelCancel(c, o) ==
    /\ {c, o} \subseteq isKernel /\ isKind[c] = "cancel" /\ isKind[o] = "waits"
    /\ isKernel' = isKernel \ {c, o}
    /\ isDone' = isDone \o <<o, c>>
    /\ UNCHANGED <<isQueue, isBatch, isRing, isRunning, isOverflow, isLost, isThread,
                   isLoop, isAwaiter, isKind, isSet, isResult, isFreed>>

\* loop(): the next completion; handle_completion() stores M_result.
LoopResult ==
    /\ isLoop.at = "wait" /\ isDone # <<>>
    /\ isDone' = Tail(isDone)
    /\ isResult' = isResult \cup {Head(isDone)}
    /\ isLoop' = [at |-> "handle", op |-> Head(isDone)]
    /\ UNCHANGED <<isQueue, isBatch, isRing, isKernel, isRunning, isOverflow, isLost,
                   isThread, isAwaiter, isKind, isSet, isFreed>>

\* handle_completion(): M_handle_ctl is exchanged; a suspended coroutine is
\* scheduled.
LoopHandle ==
    LET o == isLoop.op
    IN  /\ isLoop.at = "handle"
        /\ isSet' = [isSet EXCEPT ![o] = @ \cup {"handle"}]
        /\ isAwaiter' = IF "handle" \in isSet[o]
                        THEN [isAwaiter EXCEPT ![o] =
                                IF @ = "asleep" THEN "resumed" ELSE "broken"]
                        ELSE isAwaiter
        /\ isLoop' = [isLoop EXCEPT !.at = "destroy"]
        /\ UNCHANGED <<isQueue, isBatch, isRing, isKernel, isDone, isRunning, isOverflow,
                       isLost, isThread, isKind, isResult, isFreed>>

\* handle_completion(): M_destroy_ctl is exchanged; the uring_data is
\* deallocated if the awaiter is gone.
LoopDestroy ==
    LET o == isLoop.op
    IN  /\ isLoop.at = "destroy"
        /\ isSet' = [isSet EXCEPT ![o] = @ \cup {"destroy"}]
        /\ isFreed' = [isFreed EXCEPT ![o] =
                                       @ + DataSecond(o)]
        /\ isLoop' = [at |-> "wait", op |-> 0]
        /\ UNCHANGED <<isQueue, isBatch, isRing, isKernel, isDone, isRunning, isOverflow,
                       isLost, isThread, isAwaiter, isKind, isResult>>

\* co_await of a uring_awaiter: await_ready().
UringReady(o) ==
    /\ isAwaiter[o] = "ready"
    /\ isAwaiter' = [isAwaiter EXCEPT ![o] =
          IF "handle" \in isSet[o] THEN "resumed" ELSE "exchange"]
    /\ UNCHANGED <<isQueue, isBatch, isRing, isKernel, isDone, isRunning, isOverflow,
                   isLost, isThread, isLoop, isKind, isSet, isResult, isFreed>>

\* await_suspend(): M_handle is stored and M_handle_ctl exchanged.
UringSuspend(o) ==
    /\ isAwaiter[o] = "exchange"
    /\ isSet' = [isSet EXCEPT ![o] = @ \cup {"handle"}]
    /\ isAwaiter' = [isAwaiter EXCEPT ![o] =
          IF "handle" \in isSet[o] THEN "resumed" ELSE "asleep"]
    /\ UNCHANGED <<isQueue, isBatch, isRing, isKernel, isDone, isRunning, isOverflow,
                   isLost, isThread, isLoop, isKind, isResult, isFreed>>

\* ~uring_awaiter(), after await_resume() read M_result or without awaiting:
\* M_destroy_ctl is exchanged.
UringDrop(o) ==
    /\ isAwaiter[o] \in {"ready", "resumed"}
    /\ isSet' = [isSet EXCEPT ![o] = @ \cup {"destroy"}]
    /\ isFreed' = [isFreed EXCEPT ![o] = @ + DataSecond(o)]
    /\ isAwaiter' = [isAwaiter EXCEPT ![o] = "gone"]
    /\ UNCHANGED <<isQueue, isBatch, isRing, isKernel, isDone, isRunning, isOverflow,
                   isLost, isThread, isLoop, isKind, isResult>>

SubmitStep(t) ==
    \/ SubmitEnter(t) \/ SubmitRing(t) \/ SubmitRelease(t)
    \/ \E q \in IsThreads : SubmitQueue(t, q)
KernelStep == \/ \E o \in IsOps : isKind[o] # "waits" /\ KernelComplete(o)
              \/ \E c, o \in IsOps : KernelCancel(c, o)
LoopStep == LoopResult \/ LoopHandle \/ LoopDestroy
AwaiterStep(o) == UringReady(o) \/ UringSuspend(o) \/ UringDrop(o)

IsNext ==
    \/ \E t \in IsThreads :
          \/ \E op \in IoUringOps : \/ \E linked \in BOOLEAN : Issue(t, op, linked)
                                   \/ Collect(t, op)
          \/ SubmitBatch(t) \/ SubmitStep(t)
    \/ KernelStep
    \/ \E o \in IsOps : isKind[o] = "waits" /\ KernelComplete(o)
    \/ LoopStep
    \/ \E o \in IsOps : AwaiterStep(o)

\* Threads and the kernel keep working; the event an operation waits for need
\* not come, and nobody has to issue an operation.
IsFairness ==
    /\ \A t \in IsThreads : WF_isVars(SubmitStep(t))
    /\ WF_isVars(KernelStep) /\ WF_isVars(LoopStep)
    /\ \A o \in IsOps : WF_isVars(AwaiterStep(o))

IsSpec == IsInit /\ [][IsNext]_isVars /\ IsFairness

----------------------------------------------------------------------------
\* The submission ring is not thread safe: at most one thread is between the
\* exchange of M_io_sq_running and its release, whoever issued the operations.
OneSubmitter ==
    Cardinality({t \in IsThreads : isThread[t].at \in {"scan", "release"}}) \leq 1

\* A coroutine that awaits an operation goes on once, after its result was
\* stored, whether it came before or after the completion.
ResultHandedOver ==
    \A o \in IsOps : /\ isAwaiter[o] # "broken"
                     /\ isAwaiter[o] = "resumed" => o \in isResult

\* The uring_data of an operation is deallocated once, by the later of the
\* completion thread and the awaiter's destructor, and used by neither after.
DataFreedByTheLast ==
    \A o \in IsOps :
        /\ isFreed[o] \leq 1
        /\ isFreed[o] = 1 => isAwaiter[o] = "gone" /\ isLoop.op # o

\* Reached again and again unless the ring overflowed: no operation is left in a
\* queue or in the ring, and no coroutine sleeps on one that the kernel can
\* complete; a thread that finds another one submitting leaves its operation to it.
OperationsComplete ==
    isOverflow \/ \A o \in IsOps : \/ isKind[o] = "waits"
                                   \/ \E t \in IsThreads : isBatch[t] # <<>>
                                   \/ isAwaiter[o] \in {"none", "gone"} /\ o \notin isRing
=============================================================================
