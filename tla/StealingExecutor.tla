-------------------------- MODULE StealingExecutor --------------------------
(***************************************************************************)
(* godby/StealingExecutor.h: the owner submits items to a work-stealing    *)
(* queue, pauses, resumes, waits for all work, waits for a WaitGroup and   *)
(* shuts down, while consumer threads sleep, wake up, steal and consume.   *)
(*                                                                         *)
(* The queue is the deque StealingQueue was shown to implement; a steal    *)
(* fails when the queue is empty or lost a race.  Loads and stores of the  *)
(* executor's atomics are sequentially consistent.  A condition variable   *)
(* is the set of the threads asleep on it: a notification that finds none  *)
(* is lost, and a thread may wake up for no reason.                        *)
(***************************************************************************)
EXTENDS Integers, Sequences, FiniteSets, SequencesExt, FiniteSetsExt

CONSTANTS Consumers,
          MinActive,    \* M_min_active_consumer
          MaxSteal,     \* max_steal_size, 0: no limit
          PauseGap,     \* pause_check_mask + 1
          MaxItems,     \* bound: items ever submitted
          MaxCalls      \* bound: calls of the owner that do not submit

ASSUME ExecutorAssumption ==
    /\ IsFiniteSet(Consumers)
    /\ MinActive \in Nat /\ MaxSteal \in Nat /\ PauseGap \in Nat \ {0}
    /\ MaxItems \in Nat /\ MaxCalls \in Nat

VARIABLES queue,      \* M_queue, oldest item first
          fate,       \* what became of each item
          grouped,    \* the items submitted with the WaitGroup
          count,      \* the WaitGroup's counter
          pause,      \* M_pause
          shutdown,   \* M_shutdown
          notify,     \* M_should_notify
          done,       \* M_done_spinlock
          working,    \* M_working_size
          waiting,    \* M_waiting_size
          inited,     \* M_initialized_size
          latch,      \* who holds M_wakeup_mutex, or Nobody
          cancelled,  \* Controller::M_cancelled
          spawned,    \* is M_consumer_threads filled?
          main,       \* the owner's program counter
          after,      \* what WaitAll returns to: "idle" or Shutdown
          con,        \* each consumer's program counter, item and nth
          calls       \* calls of the owner so far

flags == <<pause, shutdown, notify, done, cancelled>>
sizes == <<working, waiting, inited>>
group == <<grouped, count>>
vars == <<queue, fate, group, flags, sizes, latch, spawned, main, after, con, calls>>

Items == 1 .. MaxItems
Nobody == 0
NoItem == 0
Fates == {"none", "queued", "held", "consumed", "cleaned", "purged"}
Finished == {"consumed", "cleaned"}
Gone == [pc |-> "gone", item |-> NoItem, nth |-> 0, lost |-> FALSE]

Submitted == Cardinality({i \in Items : fate[i] # "none"})
Threads == IF spawned THEN Cardinality(Consumers) ELSE 0
At(c, pc) == con[c].pc = pc
Goto(c, pc) == con' = [con EXCEPT ![c].pc = pc]
Asleep == {c \in Consumers : At(c, "asleep")}

(* A steal() in progress anywhere but in the threads of "but" may now lose *)
(* its compare-exchange on M_top.                                          *)
Beaten(but) ==
    [c \in Consumers |-> IF con[c].pc \in {"steal", "again"} /\ c \notin but
                         THEN [con[c] EXCEPT !.lost = TRUE] ELSE con[c]]

(* notify_one() k times, or notify_all(), on M_wakeup_cond.                *)
Wake(k) ==
    \E s \in kSubset(Min({k, Cardinality(Asleep)}), Asleep) :
        con' = [c \in Consumers |-> IF c \in s THEN [con[c] EXCEPT !.pc = "relock"]
                                    ELSE con[c]]

Init ==
    /\ queue = <<>>
    /\ fate = [i \in Items |-> "none"]
    /\ grouped = {} /\ count = 0
    /\ pause = FALSE /\ shutdown = FALSE /\ notify = TRUE /\ done = FALSE
    /\ cancelled = FALSE
    /\ working = 0 /\ waiting = 0 /\ inited = 0
    /\ latch = Nobody
    /\ spawned = FALSE
    /\ main = "idle" /\ after = "idle"
    /\ con = [c \in Consumers |-> Gone]
    /\ calls = 0

-----------------------------------------------------------------------------
(* The owner is free to make another of a bounded number of calls.         *)
Call == main = "idle" /\ calls < MaxCalls /\ calls' = calls + 1

(* Spawn(): create the consumers ...                                       *)
Spawn ==
    /\ Call
    /\ ~spawned
    /\ spawned' = TRUE
    /\ con' = [c \in Consumers |-> [Gone EXCEPT !.pc = "setup"]]
    /\ main' = "spawning"
    /\ UNCHANGED <<queue, fate, group, flags, sizes, latch, after>>

(* Resume(): the flags are set, then as many consumers are notified as     *)
(* there is work for; M_wakeup_mutex is not taken.                         *)
WakeForQueue == Wake(IF Len(queue) >= Threads THEN Threads ELSE Len(queue))

Resumed ==
    /\ pause' = FALSE
    /\ notify' = FALSE
    /\ WakeForQueue
    /\ main' = "idle"
    /\ UNCHANGED <<queue, fate, group, shutdown, done, cancelled, sizes, latch, spawned, after>>

Resume == Call /\ Resumed

(* Spawn(): spin until all consumers wait, and Resume().                   *)
Spawned ==
    /\ main = "spawning"
    /\ waiting = Threads
    /\ Resumed
    /\ UNCHANGED calls

Pause ==
    /\ Call
    /\ pause' = TRUE
    /\ UNCHANGED <<queue, fate, group, shutdown, notify, done, cancelled, sizes, latch,
                   spawned, main, after, con>>

(* Controller::Cancel(), or the signal handler Cancellable() registers.    *)
Cancel ==
    /\ Call
    /\ cancelled' = TRUE
    /\ UNCHANGED <<queue, fate, group, pause, shutdown, notify, done, sizes, latch,
                   spawned, main, after, con>>

(* Submit(value) and Submit(waiter, value): add() and push.                *)
Submit(g) ==
    LET i == Submitted + 1 IN
    /\ main = "idle"
    /\ i \in Items
    /\ fate' = [fate EXCEPT ![i] = "queued"]
    /\ queue' = Append(queue, i)
    /\ grouped' = IF g THEN grouped \cup {i} ELSE grouped
    /\ count' = IF g THEN count + 1 ELSE count
    /\ main' = "submitted"
    /\ UNCHANGED <<flags, sizes, latch, spawned, after, con, calls>>

(* Submit(): is nobody, or are too few, at work?                           *)
SubmitDecide ==
    /\ main = "submitted"
    /\ main' = IF ~pause /\ Threads - waiting <= MinActive THEN "notify" ELSE "idle"
    /\ UNCHANGED <<queue, fate, group, flags, sizes, latch, spawned, after, con, calls>>

(* Submit(): notify_one() under M_wakeup_mutex.                            *)
SubmitNotify ==
    /\ main = "notify"
    /\ latch = Nobody
    /\ Wake(1)
    /\ main' = "idle"
    /\ UNCHANGED <<queue, fate, group, flags, sizes, latch, spawned, after, calls>>

(* Purge(): pop until the queue is empty.                                  *)
Purge ==
    /\ Call
    /\ main' = "purge"
    /\ UNCHANGED <<queue, fate, group, flags, sizes, latch, spawned, after, con>>

(* Purge(): a pop of the last item can make a thief lose its race.         *)
PurgePop ==
    /\ main = "purge"
    /\ IF queue = <<>>
         THEN main' = "idle" /\ UNCHANGED <<queue, fate, con>>
         ELSE /\ queue' = Front(queue)
              /\ fate' = [fate EXCEPT ![Last(queue)] = "purged"]
              /\ con' = IF Len(queue) = 1 THEN Beaten({}) ELSE con
              /\ UNCHANGED main
    /\ UNCHANGED <<group, flags, sizes, latch, spawned, after, calls>>

(* WaitAll(), on its own or from Shutdown(): set M_should_notify, wake     *)
(* consumers for the queue ...                                             *)
WaitAll(next) ==
    /\ Call
    /\ notify' = TRUE
    /\ WakeForQueue
    /\ after' = next
    /\ main' = "suspend"
    /\ UNCHANGED <<queue, fate, group, pause, shutdown, done, cancelled, sizes, latch,
                   spawned>>

(* ... and test whether there is work, holding M_suspend_mutex, which no   *)
(* consumer takes: a notification can come between the test and the wait.  *)
WaitAllTest ==
    /\ main = "suspend"
    /\ IF (~pause /\ queue # <<>>) \/ working # 0
         THEN main' = "suspending" /\ UNCHANGED done
         ELSE main' = "join" /\ done' = TRUE
    /\ UNCHANGED <<queue, fate, group, pause, shutdown, notify, cancelled, sizes, latch,
                   spawned, after, con, calls>>

WaitAllSleep ==
    /\ main = "suspending"
    /\ main' = "suspended"
    /\ UNCHANGED <<queue, fate, group, flags, sizes, latch, spawned, after, con, calls>>

(* Mutant: WaitAll() does not wait for the consumers to be back.           *)
WaitAllReturnEarly ==
    /\ main = "join"
    /\ done' = FALSE
    /\ main' = after /\ after' = "idle"
    /\ UNCHANGED <<queue, fate, group, pause, shutdown, notify, cancelled, sizes, latch,
                   spawned, con, calls>>

(* WaitAll(): the consumers are all back, the spin lock is reset.          *)
WaitAllReturn ==
    /\ main = "join"
    /\ waiting = Threads
    /\ done' = FALSE
    /\ main' = after /\ after' = "idle"
    /\ UNCHANGED <<queue, fate, group, pause, shutdown, notify, cancelled, sizes, latch,
                   spawned, con, calls>>

(* Shutdown(): wait again for all consumers, tell them, wake them until    *)
(* each has left its loop, and join them.                                  *)
ShutdownWait ==
    /\ main = "shutdown"
    /\ waiting = Threads
    /\ main' = "quit"
    /\ UNCHANGED <<queue, fate, group, flags, sizes, latch, spawned, after, con, calls>>

ShutdownTell ==
    /\ main = "quit"
    /\ shutdown' = TRUE
    /\ main' = "spam"
    /\ UNCHANGED <<queue, fate, group, pause, notify, done, cancelled, sizes, latch,
                   spawned, after, con, calls>>

ShutdownSpam ==
    /\ main = "spam"
    /\ inited # 0
    /\ Asleep # {}
    /\ Wake(Cardinality(Consumers))
    /\ UNCHANGED <<queue, fate, group, flags, sizes, latch, spawned, main, after, calls>>

ShutdownJoin ==
    /\ main = "spam"
    /\ inited = 0
    /\ spawned' = FALSE
    /\ shutdown' = FALSE
    /\ main' = "idle"
    /\ UNCHANGED <<queue, fate, group, pause, notify, done, cancelled, sizes, latch,
                   after, con, calls>>

(* WaitGroup::wait(): the test and the wait are one step, because done()   *)
(* takes the group's mutex to notify.                                      *)
GroupWait ==
    /\ Call
    /\ main' = "wait"
    /\ UNCHANGED <<queue, fate, group, flags, sizes, latch, spawned, after, con>>

(* Mutant: WaitGroup::wait() waits without a predicate.                    *)
GroupTestOnce ==
    /\ main = "wait"
    /\ main' \in {"idle", "waiting"}
    /\ UNCHANGED <<queue, fate, group, flags, sizes, latch, spawned, after, con, calls>>

GroupTest ==
    /\ main = "wait"
    /\ main' = IF count = 0 THEN "idle" ELSE "waiting"
    /\ UNCHANGED <<queue, fate, group, flags, sizes, latch, spawned, after, con, calls>>

(* The owner wakes up for no reason.                                       *)
OwnerSpurious ==
    /\ main \in {"suspended", "waiting"}
    /\ main' = IF main = "waiting" THEN "wait" ELSE "suspend"
    /\ UNCHANGED <<queue, fate, group, flags, sizes, latch, spawned, after, con, calls>>

-----------------------------------------------------------------------------
owner == <<pause, shutdown, notify, done, cancelled, spawned, after, calls>>

(* Consumer(): it has started.                                             *)
Setup(c) ==
    /\ At(c, "setup")
    /\ inited' = inited + 1
    /\ Goto(c, "lock")
    /\ UNCHANGED <<queue, fate, group, owner, working, waiting, latch, main>>

(* lock M_wakeup_mutex and count itself as waiting.                        *)
Lock(c) ==
    /\ At(c, "lock")
    /\ latch = Nobody
    /\ latch' = c
    /\ waiting' = waiting + 1
    /\ Goto(c, "test")
    /\ UNCHANGED <<queue, fate, group, owner, working, inited, main>>

(* The test of the wait loop: the mutex is released to go on, and kept     *)
(* until the wait releases it.                                             *)
Test(c) ==
    /\ At(c, "test")
    /\ IF queue = <<>> /\ ~shutdown
         THEN Goto(c, "sleep") /\ UNCHANGED latch
         ELSE Goto(c, "awake") /\ latch' = Nobody
    /\ UNCHANGED <<queue, fate, group, owner, sizes, main>>

Sleep(c) ==
    /\ At(c, "sleep")
    /\ latch' = Nobody
    /\ Goto(c, "asleep")
    /\ UNCHANGED <<queue, fate, group, owner, sizes, main>>

Spurious(c) ==
    /\ At(c, "asleep")
    /\ Goto(c, "relock")
    /\ UNCHANGED <<queue, fate, group, owner, sizes, latch, main>>

Relock(c) ==
    /\ At(c, "relock")
    /\ latch = Nobody
    /\ latch' = c
    /\ Goto(c, "test")
    /\ UNCHANGED <<queue, fate, group, owner, sizes, main>>

(* No longer waiting; leave the loop or start to steal.  (Decrementing     *)
(* M_waiting_size and reading M_shutdown are one step: once the owner sees *)
(* the former it only writes the latter after all wait again.)             *)
Awake(c) ==
    /\ At(c, "awake")
    /\ waiting' = waiting - 1
    /\ Goto(c, IF shutdown THEN "teardown" ELSE "steal")
    /\ UNCHANGED <<queue, fate, group, owner, working, inited, latch, main>>

Teardown(c) ==
    /\ At(c, "teardown")
    /\ inited' = inited - 1
    /\ Goto(c, "gone")
    /\ UNCHANGED <<queue, fate, group, owner, working, waiting, latch, main>>

(* Callback_Execute(): the first and every further steal().                *)
Steal(c) ==
    /\ con[c].pc \in {"steal", "again"}
    /\ queue # <<>>
    /\ queue' = Tail(queue)
    /\ fate' = [fate EXCEPT ![Head(queue)] = "held"]
    /\ con' = [Beaten({c}) EXCEPT ![c] =
                 [pc |-> IF At(c, "steal") THEN "begin" ELSE "consume",
                  item |-> Head(queue), nth |-> con[c].nth + 1, lost |-> FALSE]]
    /\ UNCHANGED <<group, owner, sizes, latch, main>>

(* Mutant: M_working_size is decremented whether or not anything was stolen. *)
StealFailFinish(c) ==
    /\ con[c].pc \in {"steal", "again"}
    /\ queue = <<>> \/ con[c].lost
    /\ con' = [con EXCEPT ![c].pc = "finish", ![c].lost = FALSE]
    /\ UNCHANGED <<queue, fate, group, owner, sizes, latch, main>>

StealFail(c) ==
    /\ con[c].pc \in {"steal", "again"}
    /\ queue = <<>> \/ con[c].lost
    /\ con' = [con EXCEPT ![c].pc = IF At(c, "steal") THEN "last" ELSE "finish",
                          ![c].lost = FALSE]
    /\ UNCHANGED <<queue, fate, group, owner, sizes, latch, main>>

Begin(c) ==
    /\ At(c, "begin")
    /\ working' = working + 1
    /\ Goto(c, "consume")
    /\ UNCHANGED <<queue, fate, group, owner, waiting, inited, latch, main>>

(* c is done with an item of this fate.  A cancelled executor steals on;   *)
(* the limits are tested after every item but the first.                   *)
Onward(c, f) ==
    con' = [con EXCEPT ![c].item = NoItem,
                       ![c].pc = IF /\ f = "consumed" /\ con[c].nth > 1
                                    /\ \/ MaxSteal # 0 /\ con[c].nth >= MaxSteal
                                       \/ con[c].nth % PauseGap = 0 /\ pause
                                 THEN "finish" ELSE "again"]

(* Callback_Consume(), or Callback_Cleanup() once cancelled.               *)
Consume(c) ==
    LET f == IF cancelled THEN "cleaned" ELSE "consumed" IN
    /\ At(c, "consume")
    /\ fate' = [fate EXCEPT ![con[c].item] = f]
    /\ IF con[c].item \in grouped THEN Goto(c, "done") ELSE Onward(c, f)
    /\ UNCHANGED <<queue, group, owner, sizes, latch, main>>

(* Mutant: done() notifies when the count was zero before.                 *)
DoneLate(c) ==
    /\ At(c, "done")
    /\ count' = count - 1
    /\ IF count = 0 THEN Goto(c, "notify") ELSE Onward(c, fate[con[c].item])
    /\ UNCHANGED <<queue, fate, grouped, owner, sizes, latch, main>>

(* WaitGroup::done(): decrement, and notify when that made it zero.        *)
Done(c) ==
    /\ At(c, "done")
    /\ count' = count - 1
    /\ IF count = 1 THEN Goto(c, "notify") ELSE Onward(c, fate[con[c].item])
    /\ UNCHANGED <<queue, fate, grouped, owner, sizes, latch, main>>

DoneNotify(c) ==
    /\ At(c, "notify")
    /\ main' = IF main = "waiting" THEN "wait" ELSE main
    /\ Onward(c, fate[con[c].item])
    /\ UNCHANGED <<queue, fate, group, owner, sizes, latch>>

Finish(c) ==
    /\ At(c, "finish")
    /\ working' = working - 1
    /\ con' = [con EXCEPT ![c] = [Gone EXCEPT !.pc = "last"]]
    /\ UNCHANGED <<queue, fate, group, owner, waiting, inited, latch, main>>

(* Is it the last to finish?  Then it notifies the owner until the owner   *)
(* says it knows, or there is work again.                                  *)
LastOne(c) ==
    /\ At(c, "last")
    /\ Goto(c, IF queue = <<>> /\ working = 0 THEN "spin" ELSE "lock")
    /\ UNCHANGED <<queue, fate, group, owner, sizes, latch, main>>

(* Mutant: it does not see that there is work again.                       *)
SpinningDeaf == notify /\ ~done /\ working = 0

Spinning == notify /\ ~done /\ working = 0 /\ queue = <<>>

(* Mutant: the last consumer notifies the owner once.                      *)
SpinOnce(c) ==
    /\ At(c, "spin")
    /\ main' = IF Spinning /\ main = "suspended" THEN "suspend" ELSE main
    /\ Goto(c, "lock")
    /\ UNCHANGED <<queue, fate, group, owner, sizes, latch>>

Spin(c) ==
    /\ At(c, "spin")
    /\ IF Spinning
         THEN main = "suspended" /\ main' = "suspend" /\ UNCHANGED con
         ELSE Goto(c, "lock") /\ UNCHANGED main
    /\ UNCHANGED <<queue, fate, group, owner, sizes, latch>>

-----------------------------------------------------------------------------
Calls ==
    \/ Spawn \/ Pause \/ Resume \/ Cancel \/ Purge \/ GroupWait
    \/ \E g \in BOOLEAN : Submit(g)
    \/ \E next \in {"idle", "shutdown"} : WaitAll(next)

OwnerSteps ==
    \/ Spawned \/ SubmitDecide \/ PurgePop
    \/ WaitAllTest \/ WaitAllSleep \/ WaitAllReturn
    \/ ShutdownWait \/ ShutdownTell \/ ShutdownSpam \/ ShutdownJoin \/ GroupTest

ConsumerSteps(c) ==
    \/ Setup(c) \/ Test(c) \/ Sleep(c) \/ Awake(c) \/ Teardown(c)
    \/ Steal(c) \/ StealFail(c) \/ Begin(c) \/ Consume(c) \/ Done(c)
    \/ DoneNotify(c) \/ Finish(c) \/ LastOne(c) \/ Spin(c)

Next ==
    \/ Calls \/ OwnerSteps \/ SubmitNotify \/ OwnerSpurious
    \/ \E c \in Consumers :
           ConsumerSteps(c) \/ Lock(c) \/ Relock(c) \/ Spurious(c)

(* Threads are scheduled, and a thread that wants M_wakeup_mutex gets it   *)
(* in the end.  Nobody has to call or to wake up for no reason.            *)
Spec ==
    /\ Init /\ [][Next]_vars
    /\ WF_vars(OwnerSteps) /\ SF_vars(SubmitNotify)
    /\ \A c \in Consumers :
          WF_vars(ConsumerSteps(c)) /\ SF_vars(Lock(c) \/ Relock(c))

-----------------------------------------------------------------------------
N == Cardinality(Consumers)

(* Every variable has its type; the unsigned counters of the code never    *)
(* pass below zero or above the number of consumers.                       *)
TypeOK ==
    /\ queue \in BoundedSeq(Items, MaxItems)
    /\ fate \in [Items -> Fates]
    /\ grouped \subseteq Items /\ count \in 0 .. MaxItems
    /\ \A b \in {pause, shutdown, notify, done, cancelled, spawned} : b \in BOOLEAN
    /\ working \in 0 .. N /\ waiting \in 0 .. N /\ inited \in 0 .. N
    /\ latch \in Consumers \cup {Nobody}
    /\ after \in {"idle", "shutdown"}
    /\ calls \in 0 .. MaxCalls

(* When WaitAll() returns to a caller that has not paused the executor,    *)
(* nothing is queued and no consumer still has an item in its hands, an    *)
(* item taken but not yet counted in M_working_size included.              *)
WaitAllMeansDone ==
    [][(main = "join" /\ main' # "join" /\ ~pause) =>
          (\A i \in Items : fate[i] \notin {"queued", "held"})]_vars

(* When WaitGroup::wait() returns, every item submitted with the group has *)
(* been consumed or cleaned up.                                            *)
WaitGroupMeansDone ==
    [][(main \in {"wait", "waiting"} /\ main' = "idle") =>
          (\A i \in grouped : fate[i] \in Finished)]_vars

(* What was submitted to a running executor that is not paused is taken    *)
(* from the queue, whatever the consumers were doing when it came and      *)
(* whatever the owner does next, unless the executor is shut down first:   *)
(* Submit() never loses its notification, and leaves it out only when      *)
(* somebody will look at the queue.  (The owner submits finitely often,    *)
(* so that the queue runs empty in the end.)                               *)
SubmittedRuns ==
    (main = "submitted" /\ ~pause /\ spawned) ~> (queue = <<>> \/ ~spawned)

(* WaitAll() returns once the queue is empty (which it stays, as the owner *)
(* is in the call): the last consumer's notification is not lost, however  *)
(* it meets the owner's test and wait.                                     *)
InWaitAll == main \in {"suspend", "suspending", "suspended", "join"}

WaitAllReturns == []<>~(InWaitAll /\ queue = <<>> /\ spawned)

(* WaitGroup::wait() returns once the group's count is zero (which it      *)
(* stays, as the owner is in the call).                                    *)
GroupWaitReturns == []<>~(main \in {"wait", "waiting"} /\ count = 0)

(* "spam notify to make sure they all get the message": Shutdown() of a    *)
(* running executor that is never paused returns.                          *)
InShutdown == main \in {"shutdown", "quit", "spam"}

ShutdownReturns == [](~pause) => (InShutdown ~> ~InShutdown)

=============================================================================
