---------------------------- MODULE CoScheduler ----------------------------
\* scheduler of samples/io_service.{h,cc}: worker threads that take coroutine
\* handles from their own task queue, steal from the other queues, and otherwise
\* sleep on M_task_wait_flag under M_task_mutex.  Queue 0 belongs to the threads
\* that are not workers.  The queue operations are atomic here; their own
\* interleavings are the subject of module TaskQueue.
EXTENDS Integers, Sequences, FiniteSets

CONSTANTS CsWorkers,  \* number of worker threads
          CsTasks     \* the coroutine handles

CsNone == "none"    \* no handle

ASSUME CsAssumption == CsWorkers \in Nat \ {0} /\ CsNone \notin CsTasks

VARIABLES csQueue,   \* M_tasks of every thread context
          csFlag,    \* M_task_wait_flag
          csMutex,   \* the worker that holds M_task_mutex, 0 if none
          csStop,    \* M_stop_requested
          csWorker,  \* step, queue looked at, handle, caller of the look-up
          csSender,  \* the handle a thread outside the pool is scheduling
          csNew      \* handles not scheduled yet

csVars == <<csQueue, csFlag, csMutex, csStop, csWorker, csSender, csNew>>

CsThreads == 1 .. CsWorkers
CsTop == [at |-> "top", i |-> 0, task |-> CsNone, next |-> FALSE]

CsGo(w, r) == csWorker' = [csWorker EXCEPT ![w] = r]

CsInit ==
    /\ csQueue = [q \in 0 .. CsWorkers |-> <<>>]
    /\ csFlag = FALSE /\ csMutex = 0 /\ csStop = FALSE
    /\ csWorker = [w \in CsThreads |-> CsTop]
    /\ csSender = CsNone /\ csNew = CsTasks

\* schedule() by a thread outside the pool: the queue of context 0.
ScheduleOutside(x) ==
    /\ csSender = CsNone /\ x \in csNew
    /\ csQueue' = [csQueue EXCEPT ![0] = Append(@, x)]
    /\ csSender' = x /\ csNew' = csNew \ {x}
    /\ UNCHANGED <<csFlag, csMutex, csStop, csWorker>>

\* schedule(): test_and_set of the flag, and notify_one if it was clear.  Only
\* the worker that holds M_task_mutex can be waiting for the notification.
SetFlagOutside ==
    /\ csSender # CsNone
    /\ csFlag' = TRUE /\ csSender' = CsNone
    /\ UNCHANGED <<csQueue, csMutex, csStop, csWorker, csNew>>

\* schedule() by a coroutine running on worker w: its own queue, then the flag.
ScheduleInside(w, x) ==
    /\ csWorker[w].at = "run" /\ x \in csNew
    /\ csQueue' = [csQueue EXCEPT ![w] = Append(@, x)]
    /\ csNew' = csNew \ {x}
    /\ CsGo(w, [csWorker[w] EXCEPT !.at = "flag"])
    /\ UNCHANGED <<csFlag, csMutex, csStop, csSender>>

SetFlagInside(w) ==
    /\ csWorker[w].at = "flag"
    /\ csFlag' = TRUE
    /\ CsGo(w, [csWorker[w] EXCEPT !.at = "run"])
    /\ UNCHANGED <<csQueue, csMutex, csStop, csSender, csNew>>

\* awaiter(): the test of M_stop_requested at the top of the loop.
LoopTop(w) ==
    /\ csWorker[w].at = "top"
    /\ CsGo(w, [CsTop EXCEPT !.at = IF csStop THEN "exit" ELSE "peek"])
    /\ UNCHANGED <<csQueue, csFlag, csMutex, csStop, csSender, csNew>>

\* peek_next_coroutine(): dequeue() from the worker's own queue, newest first.
PeekOwn(w) ==
    LET me == csWorker[w]
        n  == Len(csQueue[w])
    IN  /\ me.at = "peek"
        /\ IF n > 0
           THEN /\ csQueue' = [csQueue EXCEPT ![w] = SubSeq(@, 1, n - 1)]
                /\ CsGo(w, [CsTop EXCEPT !.at = "run", !.task = csQueue[w][n]])
           ELSE /\ CsGo(w, [me EXCEPT !.at = "steal",
                                      !.i = (w + 1) % (CsWorkers + 1)])
                /\ UNCHANGED csQueue
        /\ UNCHANGED <<csFlag, csMutex, csStop, csSender, csNew>>

\* steal_task(): the other queues in turn, oldest first, until the worker's own
\* number comes round.  A failed steal finds the queue empty in the same step,
\* so the outer loop is not repeated.  When nothing was found, the caller is
\* get_next_coroutine(), which resumes the waiting channel at its loop, or the
\* waiting channel itself, which goes to sleep.
StealTask(w) ==
    LET me == csWorker[w]
    IN  /\ me.at = "steal"
        /\ IF me.i = w
           THEN /\ CsGo(w, [CsTop EXCEPT !.at = IF me.next THEN "top" ELSE "lock"])
                /\ UNCHANGED csQueue
           ELSE IF csQueue[me.i] # <<>>
           THEN /\ csQueue' = [csQueue EXCEPT ![me.i] = Tail(@)]
                /\ CsGo(w, [CsTop EXCEPT !.at = "run",
                                         !.task = Head(csQueue[me.i])])
           ELSE /\ CsGo(w, [me EXCEPT !.i = (@ + 1) % (CsWorkers + 1)])
                /\ UNCHANGED csQueue
        /\ UNCHANGED <<csFlag, csMutex, csStop, csSender, csNew>>

\* A coroutine suspends or ends and calls get_next_coroutine().
CoroutineEnds(w) ==
    /\ csWorker[w].at = "run"
    /\ CsGo(w, [CsTop EXCEPT !.at = "peek", !.next = TRUE])
    /\ UNCHANGED <<csQueue, csFlag, csMutex, csStop, csSender, csNew>>

\* awaiter(): M_task_mutex is taken, and held while waiting.
LockTasks(w) ==
    /\ csWorker[w].at = "lock" /\ csMutex = 0
    /\ csMutex' = w
    /\ CsGo(w, [csWorker[w] EXCEPT !.at = "wait"])
    /\ UNCHANGED <<csQueue, csFlag, csStop, csSender, csNew>>

\* awaiter(): M_task_wait_flag.wait(false) returns, the mutex is released, and a
\* stopped worker returns without clearing the flag.
WaitFlag(w) ==
    /\ csWorker[w].at = "wait" /\ csFlag
    /\ csMutex' = 0
    /\ CsGo(w, [csWorker[w] EXCEPT !.at = IF csStop THEN "exit" ELSE "clear"])
    /\ UNCHANGED <<csQueue, csFlag, csStop, csSender, csNew>>

\* awaiter(): the flag is cleared, and the queues are looked at again.
ClearFlag(w) ==
    /\ csWorker[w].at = "clear"
    /\ csFlag' = FALSE
    /\ CsGo(w, [csWorker[w] EXCEPT !.at = "peek"])
    /\ UNCHANGED <<csQueue, csMutex, csStop, csSender, csNew>>

\* ~scheduler(): M_stop_requested and the flag; then the workers are joined.
Destruct ==
    /\ ~csStop
    /\ csStop' = TRUE /\ csFlag' = TRUE
    /\ UNCHANGED <<csQueue, csMutex, csWorker, csSender, csNew>>

WorkerStep(w) ==
    \/ SetFlagInside(w) \/ LoopTop(w) \/ PeekOwn(w) \/ StealTask(w)
    \/ CoroutineEnds(w) \/ LockTasks(w) \/ WaitFlag(w) \/ ClearFlag(w)

CsNext ==
    \/ \E x \in CsTasks : ScheduleOutside(x)
    \/ SetFlagOutside
    \/ \E w \in CsThreads : \/ WorkerStep(w)
                            \/ \E x \in CsTasks : ScheduleInside(w, x)
    \/ Destruct

\* Threads keep running, a running coroutine suspends or ends, and the thread
\* that schedules finishes the call; nobody has to schedule or destruct.
CsFairness ==
    /\ WF_csVars(SetFlagOutside)
    /\ \A w \in CsThreads : WF_csVars(WorkerStep(w))

CsSpec == CsInit /\ [][CsNext]_csVars /\ CsFairness

----------------------------------------------------------------------------
CsQueued == \E q \in 0 .. CsWorkers : csQueue[q] # <<>>
CsAsleep(w) == csWorker[w].at \in {"lock", "wait"}

\* No lost wake-up: when a coroutine is queued and every worker is asleep, the
\* flag is set or the call of schedule() that queued it is about to set it,
\* although the flag is set once for many handles and cleared outside the mutex.
QueuedWakesSomeone ==
    CsQueued /\ (\A w \in CsThreads : CsAsleep(w) \/ csWorker[w].at = "exit")
      => csFlag \/ csSender # CsNone \/ csStop

\* Reached again and again until the scheduler is destroyed: no coroutine is waiting
\* in a queue, every scheduled coroutine has been run.
ScheduledIsRun == csStop \/ ~CsQueued
=============================================================================
