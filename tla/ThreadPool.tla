----------------------------- MODULE ThreadPool -----------------------------
\* samples/contrib/BS_thread_pool.hpp, built without priorities and pausing: worker
\* threads, a queue of tasks behind tasks_mutex, and callers that wait() until all
\* is done.  A step is a section under tasks_mutex or what a thread does outside.
EXTENDS Integers, Sequences, FiniteSets, SequencesExt

CONSTANTS TpWorkers, TpTasks,
          TpCallers,  \* the threads that wait(), reset() or destroy the pool
          TpCalls     \* bound: how often they do

ASSUME TpAssumption ==
    TpWorkers # {} /\ IsFiniteSet(TpWorkers) /\ "none" \notin TpTasks

VARIABLES tpQueue,     \* tasks
          tpRunning,   \* tasks_running
          tpWaiting,   \* waiting
          tpAlive,     \* workers_running
          tpWorker, tpCaller, tpCalled,
          tpNew, tpDone,   \* tasks not submitted yet; history: done or purged
          tpOwed,      \* history: the tasks submitted before a caller called
          tpMixed      \* history: two callers at once, or purge() during a call

tpVars == <<tpQueue, tpRunning, tpWaiting, tpAlive, tpWorker, tpCaller, tpCalled,
            tpNew, tpDone, tpOwed, tpMixed>>

TpIdle == [at |-> "idle", op |-> "wait"]
AllWorkers(at) == [w \in TpWorkers |-> [at |-> at, task |-> "none"]]

TpInit ==
    /\ tpQueue = <<>> /\ tpWaiting = FALSE /\ tpAlive = TRUE
    /\ tpRunning = Cardinality(TpWorkers) /\ tpWorker = AllWorkers("finish")
    /\ tpCaller = [c \in TpCallers |-> TpIdle] /\ tpCalled = 0
    /\ tpNew = TpTasks /\ tpDone = {}
    /\ tpOwed = [c \in TpCallers |-> {}] /\ tpMixed = FALSE

TpGo(w, at, x) == tpWorker' = [tpWorker EXCEPT ![w] = [at |-> at, task |-> x]]
TpCallerGo(c, at) == tpCaller' = [tpCaller EXCEPT ![c].at = at]

\* detach_task() and submit_task(), by any thread, a task included, until the pool
\* is destroyed: the queue, and notify_one() of a worker blocked on
\* task_available_cv.
Detach(x) ==
    LET asleep == {w \in TpWorkers : tpWorker[w].at = "blocked"}
    IN  /\ x \in tpNew
        /\ \A c \in TpCallers : tpCaller[c].op = "destroy" =>
                                 tpCaller[c].at \notin {"close", "join", "gone"}
        /\ tpNew' = tpNew \ {x} /\ tpQueue' = Append(tpQueue, x)
        /\ IF asleep = {} THEN UNCHANGED tpWorker
           ELSE \E w \in asleep : TpGo(w, "take", "none")
        /\ UNCHANGED <<tpRunning, tpWaiting, tpAlive, tpCaller, tpCalled, tpDone, tpOwed,
                       tpMixed>>

Purge ==
    /\ tpQueue # <<>>
    /\ tpQueue' = <<>> /\ tpDone' = tpDone \union ToSet(tpQueue)
    /\ tpMixed' = (tpMixed \/ \E c \in TpCallers : tpCaller[c].at # "idle")
    /\ UNCHANGED <<tpRunning, tpWaiting, tpAlive, tpWorker, tpCaller, tpCalled, tpNew, tpOwed>>

\* worker(): a task, or the initialisation, has ended.
TpFinish(w) ==
    /\ tpWorker[w].at = "finish"
    /\ tpRunning' = tpRunning - 1
    /\ tpDone' = tpDone \union ({tpWorker[w].task} \ {"none"})
    /\ TpGo(w, "test", "none")
    /\ UNCHANGED <<tpQueue, tpWaiting, tpAlive, tpCaller, tpCalled, tpNew, tpOwed, tpMixed>>

\* worker(): the test whether somebody waits, without the mutex, ...
TestRunning(w) ==
    /\ tpWorker[w].at = "test"
    /\ TpGo(w, IF tpWaiting /\ tpRunning = 0 THEN "notify" ELSE "take", "none")
    /\ UNCHANGED <<tpQueue, tpRunning, tpWaiting, tpAlive, tpCaller, tpCalled, tpNew,
                   tpDone, tpOwed, tpMixed>>

\* ... and notify_all() of those blocked on tasks_done_cv.
TestEmpty(w) ==
    /\ tpWorker[w].at = "notify"
    /\ TpGo(w, "take", "none")
    /\ tpCaller' = [c \in TpCallers |-> IF tpQueue = <<>> /\ tpCaller[c].at = "blocked"
                      THEN [tpCaller[c] EXCEPT !.at = "ready"] ELSE tpCaller[c]]
    /\ UNCHANGED <<tpQueue, tpRunning, tpWaiting, tpAlive, tpCalled, tpNew, tpDone,
                   tpOwed, tpMixed>>

\* worker(): task_available_cv.wait() with its condition, and the next task
TakeTask(w) ==
    /\ tpWorker[w].at = "take"
    /\ IF tpAlive /\ tpQueue # <<>>
       THEN /\ tpQueue' = Tail(tpQueue) /\ tpRunning' = tpRunning + 1
            /\ TpGo(w, "run", Head(tpQueue))
       ELSE /\ TpGo(w, IF tpAlive THEN "blocked" ELSE "exit", "none")
            /\ UNCHANGED <<tpQueue, tpRunning>>
    /\ UNCHANGED <<tpWaiting, tpAlive, tpCaller, tpCalled, tpNew, tpDone, tpOwed, tpMixed>>

RunTask(w) ==
    /\ tpWorker[w].at = "run"
    /\ TpGo(w, "finish", tpWorker[w].task)
    /\ UNCHANGED <<tpQueue, tpRunning, tpWaiting, tpAlive, tpCaller, tpCalled, tpNew,
                   tpDone, tpOwed, tpMixed>>

\* wait(), wait_for(), reset() and ~thread_pool() begin.
CallWait(c, op) ==
    /\ tpCaller[c] = TpIdle /\ tpCalled < TpCalls /\ tpAlive
    /\ op \in {"reset", "destroy"} => \A d \in TpCallers : tpCaller[d] = TpIdle
    /\ \A d \in TpCallers : tpCaller[d].op \notin {"reset", "destroy"}
    /\ tpCalled' = tpCalled + 1 /\ tpWaiting' = TRUE
    /\ tpCaller' = [tpCaller EXCEPT ![c] = [at |-> "ready", op |-> op]]
    /\ tpOwed' = [tpOwed EXCEPT ![c] = TpTasks \ tpNew]
    /\ tpMixed' = (tpMixed \/ \E d \in TpCallers : tpCaller[d] # TpIdle)
    /\ UNCHANGED <<tpQueue, tpRunning, tpAlive, tpWorker, tpNew, tpDone>>

\* tasks_done_cv.wait() with its condition
WaitDone(c) ==
    LET done == tpRunning = 0 /\ tpQueue = <<>>
    IN  /\ tpCaller[c].at = "ready"
        /\ tpWaiting' = (tpWaiting /\ ~done)
        /\ tpCaller' = [tpCaller EXCEPT ![c] =
             IF ~done THEN [@ EXCEPT !.at = "blocked"]
             ELSE IF @.op \in {"reset", "destroy"} THEN [@ EXCEPT !.at = "close"]
             ELSE [@ EXCEPT !.at = "back"]]
        /\ UNCHANGED <<tpQueue, tpRunning, tpAlive, tpWorker, tpCalled, tpNew, tpDone,
                       tpOwed, tpMixed>>

\* wait_for() and wait_until(): the time is over.
WaitTimeout(c) ==
    /\ tpCaller[c].at = "blocked" /\ tpCaller[c].op = "wait_for"
    /\ tpCaller' = [tpCaller EXCEPT ![c] = TpIdle] /\ tpWaiting' = FALSE
    /\ tpOwed' = [tpOwed EXCEPT ![c] = {}]
    /\ UNCHANGED <<tpQueue, tpRunning, tpAlive, tpWorker, tpCalled, tpNew, tpDone, tpMixed>>

WaitBack(c) ==
    /\ tpCaller[c].at = "back"
    /\ tpCaller' = [tpCaller EXCEPT ![c] = TpIdle] /\ tpOwed' = [tpOwed EXCEPT ![c] = {}]
    /\ UNCHANGED <<tpQueue, tpRunning, tpWaiting, tpAlive, tpWorker, tpCalled, tpNew,
                   tpDone, tpMixed>>

\* destroy_threads(): the workers are told to stop and joined.
CloseWorkers(c) ==
    /\ tpCaller[c].at = "close"
    /\ tpAlive' = FALSE /\ TpCallerGo(c, "join")
    /\ tpWorker' = [w \in TpWorkers |-> IF tpWorker[w].at = "blocked"
                      THEN [tpWorker[w] EXCEPT !.at = "take"] ELSE tpWorker[w]]
    /\ UNCHANGED <<tpQueue, tpRunning, tpWaiting, tpCalled, tpNew, tpDone, tpOwed, tpMixed>>

\* reset() creates new threads after the join.
JoinWorkers(c) ==
    /\ tpCaller[c].at = "join" /\ \A w \in TpWorkers : tpWorker[w].at = "exit"
    /\ IF tpCaller[c].op = "reset"
       THEN /\ tpCaller' = [tpCaller EXCEPT ![c] = TpIdle] /\ tpAlive' = TRUE
            /\ tpRunning' = Cardinality(TpWorkers) /\ tpWorker' = AllWorkers("finish")
            /\ tpOwed' = [tpOwed EXCEPT ![c] = {}]
       ELSE TpCallerGo(c, "gone") /\ UNCHANGED <<tpAlive, tpRunning, tpWorker, tpOwed>>
    /\ UNCHANGED <<tpQueue, tpWaiting, tpCalled, tpNew, tpDone, tpMixed>>

TpWorkerStep(w) == \/ TpFinish(w) \/ TestRunning(w) \/ TestEmpty(w) \/ TakeTask(w) \/ RunTask(w)
TpCallerStep(c) == \/ WaitDone(c) \/ WaitBack(c) \/ CloseWorkers(c) \/ JoinWorkers(c)

TpNext ==
    \/ \E x \in TpTasks : Detach(x)
    \/ Purge
    \/ \E w \in TpWorkers : TpWorkerStep(w)
    \/ \E c \in TpCallers : \/ TpCallerStep(c) \/ WaitTimeout(c)
         \/ \E op \in {"wait", "wait_for", "reset", "destroy"} : CallWait(c, op)

----------------------------------------------------------------------------
\* Whoever returns from wait(), or goes on to stop the workers, finds every task
\* submitted before its call executed or purged; and tasks_running counts the
\* busy workers, so it never wraps around.
WaitSeesAllDone ==
    /\ \A c \in TpCallers : tpCaller[c].at \in {"back", "close", "join", "gone"} =>
         tpOwed[c] \subseteq tpDone
    /\ tpRunning = Cardinality({w \in TpWorkers : tpWorker[w].at \in {"run", "finish"}})

\* Reached again and again, unless two callers share the flag `waiting' or purge()
\* empties the queue under a caller (then the notification may be missing): all
\* callers have come back.
WaitComesBack == tpMixed \/ \A c \in TpCallers : tpCaller[c].at \in {"idle", "gone"}
=============================================================================
