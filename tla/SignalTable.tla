---------------------------- MODULE SignalTable ----------------------------
\* Signal.cc: handlers of signals, registered under a spinlock and called by the
\* signal handler, which takes the same lock in the thread it interrupts.
EXTENDS Integers, FiniteSets

CONSTANTS SgThreads, SgSignals, SgMax  \* bound: ids given out

ASSUME SgAssumption == SgMax \in Nat /\ IsFiniteSet(SgThreads)

VARIABLES sgLock,     \* who holds the lock: <<t, "call">>, <<t, "handler">> or <<>>
          sgId,       \* id
          sgHandler,  \* id_to_handler: "all" for function<void(int)>, "one"
                      \* for function<void()>, "none" without an entry
          sgBySig,    \* handlers_by_sig: how often the list of a signal has an id
          sgCall,     \* the call of every thread: operation, signal or id
          sgPending   \* the signal whose handler interrupted a thread

sgVars == <<sgLock, sgId, sgHandler, sgBySig, sgCall, sgPending>>

SgIdle == [op |-> "idle", arg |-> 0]

SgInit == /\ sgLock = <<>> /\ sgId = 0 /\ sgHandler = [i \in 1 .. SgMax |-> "none"]
          /\ sgBySig = [s \in SgSignals |-> [i \in 1 .. SgMax |-> 0]]
          /\ sgCall = [t \in SgThreads |-> SgIdle]
          /\ sgPending = [t \in SgThreads |-> "none"]

\* A thread runs its call unless a signal handler has interrupted it.
SgRuns(t) == sgPending[t] = "none"

SgBegin(t, op, arg) ==
    /\ SgRuns(t) /\ sgCall[t] = SgIdle
    /\ op \in {"all", "one"} =>
         sgId + Cardinality({u \in SgThreads : sgCall[u].op \in {"all", "one"}}) < SgMax
    /\ sgCall' = [sgCall EXCEPT ![t] = [op |-> op, arg |-> arg]]
    /\ UNCHANGED <<sgLock, sgId, sgHandler, sgBySig, sgPending>>

SgAcquire(t) ==
    /\ SgRuns(t) /\ sgCall[t] # SgIdle /\ sgLock = <<>>
    /\ sgLock' = <<t, "call">>
    /\ UNCHANGED <<sgId, sgHandler, sgBySig, sgCall, sgPending>>

SgReturn(t) == /\ sgLock' = <<>> /\ sgCall' = [sgCall EXCEPT ![t] = SgIdle]
               /\ UNCHANGED sgPending

\* Add(), for all signals and for one
SgAdd(t) ==
    /\ SgRuns(t) /\ sgLock = <<t, "call">> /\ sgCall[t].op \in {"all", "one"}
    /\ sgId' = sgId + 1
    /\ sgHandler' = [sgHandler EXCEPT ![sgId + 1] = sgCall[t].op]
    /\ sgBySig' = IF sgCall[t].op = "all" THEN sgBySig
                  ELSE [sgBySig EXCEPT ![sgCall[t].arg][sgId + 1] = @ + 1]
    /\ SgReturn(t)

\* Remove(): an id that has a handler leaves every list and the table.
SgRemove(t) ==
    LET i == sgCall[t].arg
    IN  /\ SgRuns(t) /\ sgLock = <<t, "call">> /\ sgCall[t].op = "remove"
        /\ sgHandler' = [sgHandler EXCEPT ![i] = "none"]
        /\ sgBySig' = IF sgHandler[i] = "none" THEN sgBySig
                      ELSE [s \in SgSignals |-> [sgBySig[s] EXCEPT ![i] = 0]]
        /\ SgReturn(t) /\ UNCHANGED sgId

\* OnSignal() begins in thread t, whatever it is doing, ...
SgInterrupt(t, s) ==
    /\ SgRuns(t)
    /\ sgPending' = [sgPending EXCEPT ![t] = s]
    /\ UNCHANGED <<sgLock, sgId, sgHandler, sgBySig, sgCall>>

\* ... waits for the lock, ...
SgHandlerAcquire(t) ==
    /\ ~SgRuns(t) /\ sgLock = <<>>
    /\ sgLock' = <<t, "handler">>
    /\ UNCHANGED <<sgId, sgHandler, sgBySig, sgCall, sgPending>>

\* ... calls the handlers with the lock held, and returns.
SgHandlerReturn(t) ==
    /\ sgLock = <<t, "handler">>
    /\ sgLock' = <<>> /\ sgPending' = [sgPending EXCEPT ![t] = "none"]
    /\ UNCHANGED <<sgId, sgHandler, sgBySig, sgCall>>

SgStep(t) == \/ SgAcquire(t) \/ SgAdd(t) \/ SgRemove(t)
             \/ SgHandlerAcquire(t) \/ SgHandlerReturn(t)

SgNext == \E t \in SgThreads :
            \/ SgStep(t) \/ SgBegin(t, "all", 0)
            \/ \E s \in SgSignals : SgBegin(t, "one", s) \/ SgInterrupt(t, s)
            \/ \E i \in 1 .. SgMax : SgBegin(t, "remove", i)

----------------------------------------------------------------------------
\* The lists name exactly the registered handlers of one signal, each once, so
\* OnSignal() never makes an entry for an id that has been removed.
ListsNameHandlers ==
    \A i \in 1 .. SgMax :
      LET in(s) == sgBySig[s][i] # 0
      IN  /\ (sgHandler[i] = "one") <=> (\E s \in SgSignals : in(s))
          /\ \A s, u \in SgSignals : in(s) /\ in(u) => s = u
          /\ \A s \in SgSignals : sgBySig[s][i] \leq 1

\* Reached again and again: the lock is free, and those who wait for it can go on,
\* unless a thread was interrupted by a signal while it held the lock: then
\* everybody waits for a thread that waits for itself.
SelfDeadlock == \E t \in SgThreads : sgLock = <<t, "call">> /\ ~SgRuns(t)
LockReleased == sgLock = <<>> \/ SelfDeadlock
=============================================================================
