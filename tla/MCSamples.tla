----------------------------- MODULE MCSamples -----------------------------
\* The components under samples/ for TLC: those of io_service.{h,cc}, and the ones
\* of test-SignalSlot.cc and contrib/.  They share no state in the models (the
\* scheduler, say, uses an abstract task queue), so a behaviour exercises one
\* part, chosen at the start, and the others stay as they are.
EXTENDS IoWorkQueue, TaskQueue, PoolAllocator, CoScheduler, CoPromise, CoEvent,
        IoService, SignalSlot, ThreadPool, MemoryPool, LruCache,
        UnorderedDense

VARIABLE part

vars == <<part, wqVars, tqVars, paVars, csVars, cpVars, evVars, isVars, slVars,
          tpVars, mpVars, lcVars, udVars>>

Init ==
    /\ part \in {"queue", "tasks", "pool", "scheduler", "promise", "event", "io",
                "slots", "threads", "memory", "lru", "dense"}
    /\ WqInit /\ TqInit /\ PaInit /\ CsInit /\ CpInit /\ EvInit /\ IsInit
    /\ SlInit /\ TpInit /\ MpInit /\ LcInit /\ UdInit
    /\ part # "dense" => udType = CHOOSE type \in UdTypes : TRUE

WqPart == part = "queue" /\ WqNext
          /\ UNCHANGED <<part, tqVars, paVars, csVars, cpVars, evVars, isVars,
                         slVars, tpVars, mpVars, lcVars, udVars>>
TqPart == part = "tasks" /\ TqNext
          /\ UNCHANGED <<part, wqVars, paVars, csVars, cpVars, evVars, isVars,
                         slVars, tpVars, mpVars, lcVars, udVars>>
PaPart == part = "pool" /\ PaNextStep
          /\ UNCHANGED <<part, wqVars, tqVars, csVars, cpVars, evVars, isVars,
                         slVars, tpVars, mpVars, lcVars, udVars>>
CsPart == part = "scheduler" /\ CsNext
          /\ UNCHANGED <<part, wqVars, tqVars, paVars, cpVars, evVars, isVars,
                         slVars, tpVars, mpVars, lcVars, udVars>>
CpPart == part = "promise" /\ CpNext
          /\ UNCHANGED <<part, wqVars, tqVars, paVars, csVars, evVars, isVars,
                         slVars, tpVars, mpVars, lcVars, udVars>>
EvPart == part = "event" /\ EvNext
          /\ UNCHANGED <<part, wqVars, tqVars, paVars, csVars, cpVars, isVars,
                         slVars, tpVars, mpVars, lcVars, udVars>>
IsPart == part = "io" /\ IsNext
          /\ UNCHANGED <<part, wqVars, tqVars, paVars, csVars, cpVars, evVars,
                         slVars, tpVars, mpVars, lcVars, udVars>>
SlPart == part = "slots" /\ SlNext
          /\ UNCHANGED <<part, wqVars, tqVars, paVars, csVars, cpVars, evVars,
                         isVars, tpVars, mpVars, lcVars, udVars>>
TpPart == part = "threads" /\ TpNext
          /\ UNCHANGED <<part, wqVars, tqVars, paVars, csVars, cpVars, evVars,
                         isVars, slVars, mpVars, lcVars, udVars>>
MpPart == part = "memory" /\ MpNextStep
          /\ UNCHANGED <<part, wqVars, tqVars, paVars, csVars, cpVars, evVars,
                         isVars, slVars, tpVars, lcVars, udVars>>
LcPart == part = "lru" /\ LcNext
          /\ UNCHANGED <<part, wqVars, tqVars, paVars, csVars, cpVars, evVars,
                         isVars, slVars, tpVars, mpVars, udVars>>
UdPart == part = "dense" /\ UdNext
          /\ UNCHANGED <<part, wqVars, tqVars, paVars, csVars, cpVars, evVars,
                         isVars, slVars, tpVars, mpVars, lcVars>>

Next == \/ WqPart \/ TqPart \/ PaPart \/ CsPart \/ CpPart \/ EvPart \/ IsPart
        \/ SlPart \/ TpPart \/ MpPart \/ LcPart \/ UdPart

\* The fairness of the part that was chosen.
Fairness ==
    /\ WF_csVars(part = "scheduler" /\ SetFlagOutside)
    /\ \A w \in CsThreads : WF_csVars(part = "scheduler" /\ WorkerStep(w))
    /\ WF_cpVars(part = "promise" /\ CpBodyStep)
    /\ SF_cpVars(part = "promise" /\ (Return \/ Throw))
    /\ WF_cpVars(part = "promise" /\ CpParentStep)
    /\ WF_cpVars(part = "promise" /\ CpCancelStep)
    /\ WF_cpVars(part = "promise" /\ DestroyObject)
    /\ WF_evVars(part = "event" /\ EvStep)
    /\ \A t \in IsThreads : WF_isVars(part = "io" /\ SubmitStep(t))
    /\ WF_isVars(part = "io" /\ KernelStep) /\ WF_isVars(part = "io" /\ LoopStep)
    /\ \A o \in IsOps : WF_isVars(part = "io" /\ AwaiterStep(o))
    /\ \A t \in SlThreads : WF_slVars(part = "slots" /\ SlStep(t))
    /\ \A w \in TpWorkers : WF_tpVars(part = "threads" /\ TpWorkerStep(w))
    /\ \A c \in TpCallers : WF_tpVars(part = "threads" /\ TpCallerStep(c))

Spec == Init /\ [][Next]_vars /\ Fairness

----------------------------------------------------------------------------
\* The containers of the samples neither lose, duplicate nor reorder what they
\* hold: the two task queues while they grow under their users, the allocators
\* when blocks come back at any time, the cache when elements expire.
ContainersSafe ==
    /\ part = "queue" => WindowIntact /\ FirstInFirstOut
    /\ part = "tasks" => HandedOutOnce /\ OverrunByOne
    /\ part = "pool" => EachChunkInOnePlace
    /\ part = "memory" => SlotInOnePlace
    /\ part = "lru" => ListIsUseOrder

\* The hash table behind map and set holds the elements a set would hold, and the
\* three ways in which its operations search the index agree on them, through
\* displacement, backward shifts, growth and the erasure of ranges.
TableSafe == part = "dense" => HoldsWhatWasInserted /\ SearchesAgree

\* A coroutine is resumed once, after it has suspended, with its result in place,
\* and neither it nor the data of an I/O operation is freed before the last user
\* is done, whichever of waiter, completion, cancellation and owner comes first.
CoroutinesSafe ==
    /\ part = "scheduler" => QueuedWakesSomeone
    /\ part = "promise" => /\ ResumedWhenSuspended /\ ResultBeforeResume
                           /\ FrameOutlivesItsUsers
    /\ part = "event" => EventResumesOnce
    /\ part = "io" => OneSubmitter /\ ResultHandedOver /\ DataFreedByTheLast

\* Threads that share signals, observers and a thread pool: nobody is called or
\* changed after its destruction, connections are symmetric between calls, and
\* who waits for the pool finds all earlier tasks done.
SharersSafe ==
    /\ part = "slots" => VisitedIsAlive /\ ListsSymmetric
    /\ part = "threads" => WaitSeesAllDone

\* What is started comes to an end, again and again: a scheduled coroutine is run,
\* the caller of an async function gets its answer, events arrive, I/O operations
\* complete, and calls of signals and of the thread pool return.
SamplesLive == []<>
    /\ ScheduledIsRun /\ CallSettles /\ EventsArrive /\ OperationsComplete
    /\ CallsEnd /\ WaitComesBack
=============================================================================
