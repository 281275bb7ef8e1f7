---------------------------- MODULE SampleProofs ----------------------------
(***************************************************************************)
(* Coroutines of samples/io_service.{h,cc}: nobody is resumed twice, woken *)
(* up too late or used after it was freed, for any number of workers,      *)
(* threads, coroutines and operations.  Then the signals and the thread    *)
(* pool of samples/, for any number of threads, observers and tasks, and   *)
(* its containers: the queue of I/O operations, the queue that thieves     *)
(* steal from, the two allocators and the cache, for any number of         *)
(* threads, any capacity and any number of blocks.                         *)
(***************************************************************************)
EXTENDS MCSamples, FiniteSetTheorems, FunctionTheorems, SequenceTheorems,
        NaturalsInduction, WellFoundedInduction, TLAPS

-----------------------------------------------------------------------------
(* event: M_handle_ctl says whether a coroutine is suspended.              *)
EvInv == evCo # "broken" /\ evCtl \in BOOLEAN /\ (evCtl <=> evCo = "asleep")

(* Who takes the flag finds the coroutine suspended.                       *)
LEMMA EvInvStep ==
    ASSUME EvInv, [EvNext]_evVars
    PROVE  EvInv'
<1>0. evCtl = TRUE \/ evCtl = FALSE
  BY DEF EvInv
<1>1. CASE EventWake
  BY <1>0, <1>1 DEF EventWake, EvResume, EvInv
<1>2. CASE EventReady \/ EventTake
  BY <1>2 DEF EventReady, EventTake, EvInv
<1>3. ASSUME NEW t \in EvThreads, EventStore(t) \/ EventCheck(t) \/ EventClaim(t)
      PROVE  EvInv'
  <2>1. CASE EventStore(t)
    BY <2>1 DEF EventStore, EvInv
  <2>2. CASE EventCheck(t)
    BY <2>2 DEF EventCheck, EvInv
  <2>3. CASE EventClaim(t)
    BY <1>0, <2>3 DEF EventClaim, EvResume, EvInv
  <2> QED
    BY <1>3, <2>1, <2>2, <2>3
<1>4. ASSUME NEW n \in EvAmounts, EventAdd(n)
      PROVE  EvInv'
  BY <1>4 DEF EventAdd, EvInv
<1>5. CASE UNCHANGED evVars
  BY <1>5 DEF evVars, EvInv
<1> QED
  BY <1>1, <1>2, <1>3, <1>4, <1>5 DEF EvNext, EvStep

-----------------------------------------------------------------------------
(* async, launch, task, generator.                                         *)

(* The body is past the exchange of M_handle_ctl, of M_cancel_handle_ctl,  *)
(* of M_destroy_ctl.                                                       *)
PastHandle == cpBody \in {"destroy", "destroyThenResume", "done"}
PastCancel == PastHandle \/ cpBody = "handle"
PastDestroy == cpBody = "done" /\ cpKind \in {"async", "launch"}

CpTypes ==
    /\ cpKind \in {"none", "async", "launch", "task", "generator"}
    /\ cpBody \in {"new", "running", "yielded", "cancel", "handle", "destroy",
                   "destroyThenResume", "done"}
    /\ cpParent \in {"start", "holds", "suspend", "exchange", "asleep", "joins", "resumed",
                     "gone"}
    /\ cpCancel \in {"start", "suspend", "exchange", "asleep", "resumed"}
    /\ cpSame \in BOOLEAN
    /\ cpReturned = "no" <=> cpBody \in {"new", "running", "yielded"}

(* Which places of body and parent go together, by type.                   *)
CpPlaces ==
    /\ cpKind = "none" => cpBody = "new" /\ cpParent = "start" /\ cpCancel = "start"
                       /\ cpSet = {}
    /\ cpParent = "start" => cpKind = "none"
    /\ cpKind = "async" => cpBody \notin {"new", "yielded"} /\ cpParent # "joins"
    /\ cpKind = "launch" =>
          /\ cpBody \in {"running", "destroy", "done"} /\ cpCancel = "start"
          /\ cpParent \in {"holds", "joins", "resumed", "gone"}
          /\ cpParent = "resumed" => cpBody # "running"
    /\ cpKind \in {"task", "generator"} =>
          /\ cpBody \in {"new", "running", "yielded", "cancel", "done"}
          /\ cpParent = CASE cpBody = "new" -> "holds"
                          [] cpBody \in {"running", "cancel"} -> "asleep"
                          [] OTHER -> "resumed"
    /\ cpKind = "generator" => cpCancel = "start"

(* Each flag is set by the body when it is past it, and otherwise only by  *)
(* the other side, which is then suspended or gone.                        *)
CpFlags ==
    /\ cpKind = "async" =>
          /\ "handle" \in cpSet <=> PastHandle \/ cpParent = "asleep"
          /\ cpParent = "resumed" => PastHandle
          /\ cpParent = "asleep" => ~PastHandle \/ cpBody = "destroyThenResume"
    /\ cpBody = "destroyThenResume" => cpKind = "async" /\ cpParent = "asleep"
    /\ cpParent \in {"exchange", "asleep"} => "parent" \in cpStored
    /\ cpKind # "launch" =>
          /\ "cancel" \in cpSet <=> PastCancel \/ cpCancel = "asleep"
          /\ cpCancel = "asleep" => ~PastCancel
    /\ cpCancel \in {"exchange", "asleep"} => "cancel" \in cpStored
    /\ "destroy" \in cpSet <=> PastDestroy \/ cpParent = "gone"
    /\ cpParent = "gone" => cpCancel \in {"start", "resumed"}
    /\ cpDestroyed = IF PastDestroy /\ cpParent = "gone" THEN 1 ELSE 0

CpInv == CpTypes /\ CpPlaces /\ CpFlags

(* The four types, by what sets them apart.                                *)
LEMMA CpKinds ==
    /\ DOMAIN CpType = {"async", "launch", "task", "generator"}
    /\ CpConcurrent = {"async", "launch"} /\ CpTransfer = {"task", "generator"}
    /\ CpCancelable = {"async", "task"}
    /\ \A k \in DOMAIN CpType : CpType[k].future <=> k = "launch"
  BY DEF CpType, AsyncType, LaunchType, TaskType, GeneratorType, CpConcurrent, CpTransfer,
     CpCancelable

(* Whichever side comes second finds the other one suspended or gone.      *)
LEMMA CpInvStep ==
    ASSUME CpInv, [CpNext]_cpVars
    PROVE  CpInv'
<1> USE CpKinds
<1>1. ASSUME NEW same \in BOOLEAN, CreateAsync(same)
      PROVE  CpInv'
  BY <1>1 DEF CreateAsync, CpInv, CpTypes, CpPlaces, CpFlags, PastHandle,
     PastCancel, PastDestroy
<1>2. ASSUME NEW kind \in CpTransfer, CreateTransfer(kind)
      PROVE  CpInv'
  BY <1>2 DEF CreateTransfer, CpInv, CpTypes, CpPlaces, CpFlags, PastHandle,
     PastCancel, PastDestroy
<1>3. CASE CreateLaunch
  BY <1>3 DEF CreateLaunch, CpInv, CpTypes, CpPlaces, CpFlags, PastHandle,
     PastCancel, PastDestroy
<1>4. CASE AsyncReady
  BY <1>4 DEF AsyncReady, CpInv, CpTypes, CpPlaces, CpFlags, PastHandle,
     PastCancel, PastDestroy
<1>5. CASE AsyncStore
  BY <1>5 DEF AsyncStore, CpInv, CpTypes, CpPlaces, CpFlags, PastHandle,
     PastCancel, PastDestroy
<1>6. CASE AsyncExchange
  BY <1>6 DEF AsyncExchange, CpInv, CpTypes, CpPlaces, CpFlags, PastHandle,
     PastCancel, PastDestroy
<1>7. CASE LaunchJoin
  BY <1>7 DEF LaunchJoin, CpInv, CpTypes, CpPlaces, CpFlags, PastHandle,
     PastCancel, PastDestroy
<1>8. CASE LaunchGet
  BY <1>8 DEF LaunchGet, CpInv, CpTypes, CpPlaces, CpFlags, PastHandle,
     PastCancel, PastDestroy
<1>9. CASE TransferIn
  BY <1>9 DEF TransferIn, CpInv, CpTypes, CpPlaces, CpFlags, PastHandle,
     PastCancel, PastDestroy
<1>10. CASE Yield
  BY <1>10 DEF Yield, Resume, CpInv, CpTypes, CpPlaces, CpFlags, PastHandle,
     PastCancel, PastDestroy
<1>11. CASE Return
  BY <1>11 DEF Return, BodyEnds, CpInv, CpTypes, CpPlaces, CpFlags, PastHandle,
     PastCancel, PastDestroy
<1>12. CASE Throw
  BY <1>12 DEF Throw, BodyEnds, CpInv, CpTypes, CpPlaces, CpFlags, PastHandle,
     PastCancel, PastDestroy
<1>13. CASE FinalCancel
  BY <1>13 DEF FinalCancel, Cancelled, Resume, CpInv, CpTypes, CpPlaces, CpFlags, PastHandle,
     PastCancel, PastDestroy
<1>14. CASE FinalTransfer
  BY <1>14 DEF FinalTransfer, Cancelled, Resume, CpInv, CpTypes, CpPlaces, CpFlags, PastHandle,
     PastCancel, PastDestroy
<1>15. CASE FinalHandle
  BY <1>15 DEF FinalHandle, Resume, CpInv, CpTypes, CpPlaces, CpFlags, PastHandle,
     PastCancel, PastDestroy
<1>16. CASE FinalDestroy
  BY <1>16 DEF FinalDestroy, Resume, Second, CpInv, CpTypes, CpPlaces, CpFlags, PastHandle,
     PastCancel, PastDestroy
<1>17. CASE DestroyObject
  BY <1>17 DEF DestroyObject, Second, CpInv, CpTypes, CpPlaces, CpFlags, PastHandle,
     PastCancel, PastDestroy
<1>18. CASE CancelReady
  BY <1>18 DEF CancelReady, CpInv, CpTypes, CpPlaces, CpFlags, PastHandle,
     PastCancel, PastDestroy
<1>19. CASE CancelStore
  BY <1>19 DEF CancelStore, CpInv, CpTypes, CpPlaces, CpFlags, PastHandle,
     PastCancel, PastDestroy
<1>20. CASE CancelExchange
  BY <1>20 DEF CancelExchange, CpInv, CpTypes, CpPlaces, CpFlags, PastHandle,
     PastCancel, PastDestroy
<1>21. CASE UNCHANGED cpVars
  BY <1>21 DEF cpVars, CpInv, CpTypes, CpPlaces, CpFlags, PastHandle,
     PastCancel, PastDestroy
<1> QED
  BY <1>1, <1>2, <1>3, <1>4, <1>5, <1>6, <1>7, <1>8, <1>9, <1>10, <1>11,
     <1>12, <1>13, <1>14, <1>15, <1>16, <1>17, <1>18, <1>19, <1>20, <1>21
     DEF CpNext, CpCreate, CpBodyStep, CpParentStep, CpCancelStep

-----------------------------------------------------------------------------
(* scheduler.                                                              *)

CsPlaces == {"top", "peek", "steal", "run", "flag", "lock", "wait", "clear", "exit"}
CsContext == [at : CsPlaces, i : 0 .. CsWorkers, task : CsTasks \cup {CsNone}, next : BOOLEAN]
CsTypes ==
    /\ csQueue \in [0 .. CsWorkers -> Seq(CsTasks)]
    /\ csWorker \in [CsThreads -> CsContext]
    /\ csNew \subseteq CsTasks /\ csSender \in CsTasks \cup {CsNone}

(* How many queues worker w visits before queue q in steal_task().         *)
Turn(w, q) == IF q > w THEN q - w - 1 ELSE q + CsWorkers - w

(* Worker w will look at queue q before it sleeps.                         *)
Looks(w, q) ==
    \/ csWorker[w].at \in {"top", "peek", "run", "flag", "clear"}
    \/ csWorker[w].at = "steal" /\ (csWorker[w].next \/ Turn(w, q) >= Turn(w, csWorker[w].i))

(* Only the worker itself puts coroutines into its queue.                  *)
CsOwn == \A w \in CsThreads : csWorker[w].at = "steal" => csQueue[w] = <<>>

(* No queue is forgotten.                                                  *)
CsSeen == \A q \in 0 .. CsWorkers :
              \/ csQueue[q] = <<>> \/ csFlag \/ csSender # CsNone \/ csStop
              \/ \E w \in CsThreads : Looks(w, q)

CsExit == \A w \in CsThreads : csWorker[w].at = "exit" => csStop

CsInv == CsTypes /\ CsOwn /\ CsSeen /\ CsExit

(* The order of the visits: each queue has its turn, its own comes last.   *)
LEMMA Turns ==
    ASSUME NEW w \in CsThreads, NEW q \in 0 .. CsWorkers
    PROVE  /\ Turn(w, q) \in 0 .. CsWorkers /\ (Turn(w, q) = CsWorkers => q = w)
           /\ Turn(w, w) = CsWorkers
           /\ \A p \in 0 .. CsWorkers : Turn(w, p) = Turn(w, q) => p = q
           /\ (q + 1) % (CsWorkers + 1) \in 0 .. CsWorkers
           /\ q # w => Turn(w, (q + 1) % (CsWorkers + 1)) = Turn(w, q) + 1
           /\ q = w => Turn(w, (q + 1) % (CsWorkers + 1)) = 0
<1>1. (q + 1) % (CsWorkers + 1) = IF q = CsWorkers THEN 0 ELSE q + 1
  BY CsAssumption
<1> QED
  BY <1>1, CsAssumption DEF Turn, CsThreads

(* The step of one worker.                                                 *)
LEMMA CsGoEffect ==
    ASSUME CsTypes, NEW w \in CsThreads, NEW r \in CsContext, CsGo(w, r)
    PROVE  /\ csWorker' \in [CsThreads -> CsContext] /\ csWorker'[w] = r
           /\ \A u \in CsThreads : u # w => csWorker'[u] = csWorker[u]
  BY DEF CsTypes, CsGo

(* A worker that goes on to look at every queue has forgotten none.        *)
LEMMA LooksAll ==
    ASSUME NEW w \in CsThreads, csWorker'[w].at \in {"top", "peek", "run", "flag", "clear"}
    PROVE  CsSeen'
  BY DEF CsSeen, Looks

(* The registers at the start of the loop.                                 *)
LEMMA CsTopType ==
    ASSUME NEW at \in CsPlaces
    PROVE  /\ [CsTop EXCEPT !.at = at] \in CsContext /\ [CsTop EXCEPT !.at = at].at = at
           /\ [CsTop EXCEPT !.at = at, !.next = TRUE] \in CsContext
           /\ [CsTop EXCEPT !.at = at, !.next = TRUE].at = at
           /\ \A x \in CsTasks : /\ [CsTop EXCEPT !.at = at, !.task = x] \in CsContext
                                 /\ [CsTop EXCEPT !.at = at, !.task = x].at = at
<1>1. CsTop \in CsContext
  BY CsAssumption DEF CsContext, CsTop, CsPlaces
<1> QED
  BY <1>1 DEF CsContext

(* Every step of a worker, but for those that look at a queue.             *)
LEMMA CsPlainStep ==
    ASSUME CsInv, NEW w \in CsThreads,
           \/ SetFlagInside(w) \/ LoopTop(w) \/ CoroutineEnds(w) \/ LockTasks(w) \/ WaitFlag(w)
           \/ ClearFlag(w)
    PROVE  CsInv'
<1> DEFINE r == csWorker'[w]
<1>0. csWorker[w] \in CsContext
  BY DEF CsInv, CsTypes
<1>1. /\ UNCHANGED <<csQueue, csStop, csSender, csNew>>
      /\ r \in CsContext /\ csWorker' \in [CsThreads -> CsContext]
      /\ \A u \in CsThreads : u # w => csWorker'[u] = csWorker[u]
      /\ r.at # "steal" /\ (r.at = "exit" => csStop)
      /\ \/ csFlag' \/ csStop
         \/ r.at \in {"top", "peek", "run", "flag", "clear"}
         \/ csFlag' = csFlag /\ csWorker[w].at = "lock" /\ r.at = "wait"
  <2>1. CASE SetFlagInside(w)
    <3>1. [csWorker[w] EXCEPT !.at = "run"] \in CsContext
      BY <1>0 DEF CsContext, CsPlaces
    <3> QED
      BY <2>1, <3>1, <1>0, CsGoEffect DEF SetFlagInside, CsInv, CsContext
  <2>2. CASE LoopTop(w)
    <3> DEFINE q == [CsTop EXCEPT !.at = IF csStop THEN "exit" ELSE "peek"]
    <3>1. q \in CsContext /\ q.at = IF csStop THEN "exit" ELSE "peek"
      <4> DEFINE at == IF csStop THEN "exit" ELSE "peek"
      <4>1. at \in CsPlaces
        BY DEF CsPlaces
      <4> HIDE DEF at
      <4>2. [CsTop EXCEPT !.at = at] \in CsContext /\ [CsTop EXCEPT !.at = at].at = at
        BY <4>1, CsTopType
      <4> QED
        BY <4>2 DEF at
    <3> HIDE DEF q
    <3>2. CsGo(w, q)
      BY <2>2 DEF LoopTop, q
    <3>3. r = q /\ csWorker' \in [CsThreads -> CsContext]
          /\ \A u \in CsThreads : u # w => csWorker'[u] = csWorker[u]
      BY <3>1, <3>2, CsGoEffect DEF CsInv
    <3> QED
      BY <2>2, <3>1, <3>3 DEF LoopTop
  <2>3. CASE CoroutineEnds(w)
    <3> DEFINE q == [CsTop EXCEPT !.at = "peek", !.next = TRUE]
    <3>1. q \in CsContext /\ q.at = "peek"
      BY CsTopType DEF CsPlaces
    <3> HIDE DEF q
    <3>2. CsGo(w, q)
      BY <2>3 DEF CoroutineEnds, q
    <3>3. r = q /\ csWorker' \in [CsThreads -> CsContext]
          /\ \A u \in CsThreads : u # w => csWorker'[u] = csWorker[u]
      BY <3>1, <3>2, CsGoEffect DEF CsInv
    <3> QED
      BY <2>3, <3>1, <3>3 DEF CoroutineEnds
  <2>4. CASE LockTasks(w)
    <3>1. [csWorker[w] EXCEPT !.at = "wait"] \in CsContext
      BY <1>0 DEF CsContext, CsPlaces
    <3> QED
      BY <2>4, <3>1, <1>0, CsGoEffect DEF LockTasks, CsInv, CsContext
  <2>5. CASE WaitFlag(w)
    <3> DEFINE q == [csWorker[w] EXCEPT !.at = IF csStop THEN "exit" ELSE "clear"]
    <3>1. q \in CsContext /\ q.at = IF csStop THEN "exit" ELSE "clear"
      BY <1>0 DEF CsContext, CsPlaces
    <3> HIDE DEF q
    <3>2. CsGo(w, q)
      BY <2>5 DEF WaitFlag, q
    <3>3. r = q /\ csWorker' \in [CsThreads -> CsContext]
          /\ \A u \in CsThreads : u # w => csWorker'[u] = csWorker[u]
      BY <3>1, <3>2, CsGoEffect DEF CsInv
    <3> QED
      BY <2>5, <3>1, <3>3 DEF WaitFlag
  <2>6. CASE ClearFlag(w)
    <3>1. [csWorker[w] EXCEPT !.at = "peek"] \in CsContext
      BY <1>0 DEF CsContext, CsPlaces
    <3> QED
      BY <2>6, <3>1, <1>0, CsGoEffect DEF ClearFlag, CsInv, CsContext
  <2> QED
    BY <2>1, <2>2, <2>3, <2>4, <2>5, <2>6
<1>2. CsTypes' /\ CsExit' /\ CsOwn'
  BY <1>1 DEF CsInv, CsTypes, CsExit, CsOwn
<1>3. CsSeen'
  <2>1. CASE csFlag' \/ csStop
    BY <1>1, <2>1 DEF CsSeen
  <2>2. CASE r.at \in {"top", "peek", "run", "flag", "clear"}
    BY <2>2, LooksAll
  <2>3. CASE csFlag' = csFlag /\ csWorker[w].at = "lock" /\ r.at = "wait"
    <3>1. \A u \in CsThreads, q \in 0 .. CsWorkers : Looks(u, q) => Looks(u, q)'
      BY <1>1, <2>3 DEF Looks
    <3> QED
      BY <1>1, <2>3, <3>1 DEF CsInv, CsSeen
  <2> QED
    BY <1>1, <2>1, <2>2, <2>3
<1> QED
  BY <1>2, <1>3 DEF CsInv

(* peek_next_coroutine(): a coroutine from the own queue, or the round     *)
(* begins at the next queue.                                               *)
LEMMA CsPeekStep ==
    ASSUME CsInv, NEW w \in CsThreads, PeekOwn(w)
    PROVE  CsInv'
<1> DEFINE n == Len(csQueue[w])
           last == csQueue[w][n]
<1>0. /\ csWorker[w] \in CsContext /\ w \in 0 .. CsWorkers /\ csQueue[w] \in Seq(CsTasks)
      /\ csQueue \in [0 .. CsWorkers -> Seq(CsTasks)] /\ csWorker[w].at = "peek"
      /\ UNCHANGED <<csFlag, csMutex, csStop, csSender, csNew>>
  BY CsAssumption DEF CsInv, CsTypes, CsThreads, PeekOwn
<1>1. CASE n > 0
  <2> DEFINE r == [CsTop EXCEPT !.at = "run", !.task = last]
  <2>1. last \in CsTasks /\ SubSeq(csQueue[w], 1, n - 1) \in Seq(CsTasks)
    BY <1>0, <1>1, SMTT(60)
  <2>2. r \in CsContext /\ r.at = "run"
    BY <2>1, CsTopType, ZenonT(60) DEF CsPlaces
  <2>3. CsGo(w, r) /\ csQueue' = [csQueue EXCEPT ![w] = SubSeq(csQueue[w], 1, n - 1)]
    BY <1>1 DEF PeekOwn
  <2> HIDE DEF r
  <2>4. /\ csWorker' \in [CsThreads -> CsContext] /\ csWorker'[w] = r
        /\ \A u \in CsThreads : u # w => csWorker'[u] = csWorker[u]
    BY <2>2, <2>3, CsGoEffect DEF CsInv
  <2>5. CsTypes' /\ CsExit'
    BY <1>0, <2>1, <2>2, <2>3, <2>4 DEF CsInv, CsTypes, CsExit
  <2>6. CsOwn'
    BY <1>0, <2>2, <2>3, <2>4 DEF CsInv, CsOwn, CsThreads
  <2>7. CsSeen'
    BY <2>2, <2>4, LooksAll
  <2> QED
    BY <2>5, <2>6, <2>7 DEF CsInv
<1>2. CASE ~(n > 0)
  <2> DEFINE i == (w + 1) % (CsWorkers + 1)
             r == [csWorker[w] EXCEPT !.at = "steal", !.i = i]
  <2>1. i \in 0 .. CsWorkers /\ Turn(w, i) = 0
    BY <1>0, Turns
  <2>2. csQueue[w] = <<>>
    BY <1>0, <1>2
  <2>3. CsGo(w, r) /\ csQueue' = csQueue
    BY <1>2 DEF PeekOwn
  <2> HIDE DEF i
  <2>4. r \in CsContext /\ r.at = "steal" /\ r.i = i
    BY <1>0, <2>1 DEF CsContext, CsPlaces
  <2> HIDE DEF r
  <2>5. /\ csWorker' \in [CsThreads -> CsContext] /\ csWorker'[w] = r
        /\ \A u \in CsThreads : u # w => csWorker'[u] = csWorker[u]
    BY <2>3, <2>4, CsGoEffect DEF CsInv
  <2>6. CsTypes' /\ CsExit' /\ CsOwn'
    BY <1>0, <2>2, <2>3, <2>4, <2>5 DEF CsInv, CsTypes, CsExit, CsOwn
  <2>7. CsSeen'
    <3>1. \A q \in 0 .. CsWorkers : Turn(w, q) >= 0
      BY Turns
    <3>2. \A q \in 0 .. CsWorkers : Looks(w, q)'
      BY <2>1, <2>4, <2>5, <3>1 DEF Looks, Turn
    <3> QED
      BY <3>2 DEF CsSeen
  <2> QED
    BY <2>6, <2>7 DEF CsInv
<1> QED
  BY <1>1, <1>2

(* steal_task(): a coroutine from another queue, or an empty queue is      *)
(* left behind, or the round is over.                                      *)
LEMMA CsStealStep ==
    ASSUME CsInv, NEW w \in CsThreads, StealTask(w)
    PROVE  CsInv'
<1> DEFINE me == csWorker[w]
           i == me.i
<1>0. /\ me \in CsContext /\ i \in 0 .. CsWorkers /\ me.next \in BOOLEAN /\ w \in 0 .. CsWorkers
      /\ csQueue \in [0 .. CsWorkers -> Seq(CsTasks)] /\ me.at = "steal" /\ csQueue[w] = <<>>
      /\ UNCHANGED <<csFlag, csMutex, csStop, csSender, csNew>>
  BY CsAssumption, SMTT(60) DEF CsInv, CsTypes, CsOwn, CsThreads, CsContext, StealTask
<1>1. CASE i # w /\ csQueue[i] # <<>>
  <2> DEFINE x == Head(csQueue[i])
             r == [CsTop EXCEPT !.at = "run", !.task = x]
  <2>1. x \in CsTasks /\ Tail(csQueue[i]) \in Seq(CsTasks)
    BY <1>0, <1>1
  <2>2. r \in CsContext /\ r.at = "run"
    BY <2>1, CsTopType, ZenonT(60) DEF CsPlaces
  <2>3. CsGo(w, r) /\ csQueue' = [csQueue EXCEPT ![i] = Tail(csQueue[i])]
    BY <1>1 DEF StealTask
  <2> HIDE DEF r
  <2>4. /\ csWorker' \in [CsThreads -> CsContext] /\ csWorker'[w] = r
        /\ \A u \in CsThreads : u # w => csWorker'[u] = csWorker[u]
    BY <2>2, <2>3, CsGoEffect DEF CsInv
  <2>5. CsTypes' /\ CsExit'
    BY <1>0, <2>1, <2>2, <2>3, <2>4 DEF CsInv, CsTypes, CsExit
  <2>6. CsOwn'
    BY <1>0, <1>1, <2>2, <2>3, <2>4, SMTT(60) DEF CsInv, CsOwn, CsThreads
  <2>7. CsSeen'
    BY <2>2, <2>4, LooksAll
  <2> QED
    BY <2>5, <2>6, <2>7 DEF CsInv
<1>2. CASE i = w
  <2> DEFINE at == IF me.next THEN "top" ELSE "lock"
             r == [CsTop EXCEPT !.at = at]
  <2>1. at \in CsPlaces
    BY DEF CsPlaces
  <2>2. CsGo(w, r) /\ csQueue' = csQueue
    BY <1>2 DEF StealTask
  <2>3. r \in CsContext /\ r.at = at
    BY <2>1, CsTopType
  <2> HIDE DEF r
  <2>4. /\ csWorker' \in [CsThreads -> CsContext] /\ csWorker'[w] = r
        /\ \A u \in CsThreads : u # w => csWorker'[u] = csWorker[u]
    BY <2>2, <2>3, CsGoEffect DEF CsInv
  <2>5. CsTypes' /\ CsExit' /\ CsOwn'
    BY <1>0, <2>2, <2>3, <2>4 DEF CsInv, CsTypes, CsExit, CsOwn
  <2>6. CASE me.next
    <3>1. CsSeen'
      BY <2>3, <2>4, <2>6, LooksAll
    <3> QED
      BY <2>5, <3>1 DEF CsInv
  <2>7. CASE ~me.next
    <3>1. \A q \in 0 .. CsWorkers : Turn(w, q) <= CsWorkers /\ (Turn(w, q) = CsWorkers => q = w)
                                    /\ Turn(w, q) \in Int
      BY Turns
    <3>2. Turn(w, i) = CsWorkers
      BY <1>0, <1>2, Turns
    <3>3. \A q \in 0 .. CsWorkers : csQueue[q] # <<>> => ~Looks(w, q)
      <4> SUFFICES ASSUME NEW q \in 0 .. CsWorkers, csQueue[q] # <<>>, Looks(w, q)
                   PROVE  FALSE
        OBVIOUS
      <4>1. Turn(w, q) >= Turn(w, i)
        BY <1>0, <2>7 DEF Looks
      <4>2. q = w
        BY <3>1, <3>2, <4>1, CsAssumption
      <4> QED
        BY <1>0, <4>2
    <3>4. \A u \in CsThreads, q \in 0 .. CsWorkers : u # w /\ Looks(u, q) => Looks(u, q)'
      BY <2>4 DEF Looks
    <3>5. CsSeen'
      BY <1>0, <2>2, <3>3, <3>4 DEF CsInv, CsSeen
    <3> QED
      BY <2>5, <3>5 DEF CsInv
  <2> QED
    BY <2>6, <2>7
<1>3. CASE i # w /\ csQueue[i] = <<>>
  <2> DEFINE k == (i + 1) % (CsWorkers + 1)
             r == [me EXCEPT !.i = k]
  <2>1. k \in 0 .. CsWorkers /\ Turn(w, k) = Turn(w, i) + 1
    BY <1>0, <1>3, Turns
  <2>2. CsGo(w, r) /\ csQueue' = csQueue
    BY <1>0, <1>3 DEF StealTask, CsContext
  <2> HIDE DEF k
  <2>3. r \in CsContext /\ r.at = "steal" /\ r.i = k /\ r.next = me.next
    BY <1>0, <2>1 DEF CsContext
  <2> HIDE DEF r
  <2>4. /\ csWorker' \in [CsThreads -> CsContext] /\ csWorker'[w] = r
        /\ \A u \in CsThreads : u # w => csWorker'[u] = csWorker[u]
    BY <2>2, <2>3, CsGoEffect DEF CsInv
  <2>5. CsTypes' /\ CsExit' /\ CsOwn'
    BY <1>0, <2>2, <2>3, <2>4 DEF CsInv, CsTypes, CsExit, CsOwn
  <2>6. \A q \in 0 .. CsWorkers : /\ Turn(w, q) \in Int
                                  /\ Turn(w, q) = Turn(w, i) => q = i
    <3>1. i \in 0 .. CsWorkers
      BY <1>0
    <3> HIDE DEF i, me
    <3>2. \A q \in 0 .. CsWorkers : Turn(w, q) = Turn(w, i) => q = i
      BY <3>1, Turns
    <3>3. \A q \in 0 .. CsWorkers : Turn(w, q) \in Int
      BY Turns
    <3> QED
      BY <3>2, <3>3
  <2>7. \A q \in 0 .. CsWorkers : csQueue[q] # <<>> /\ Looks(w, q) => Looks(w, q)'
    <3> SUFFICES ASSUME NEW q \in 0 .. CsWorkers, csQueue[q] # <<>>, Looks(w, q)
                 PROVE  Looks(w, q)'
      OBVIOUS
    <3>1. CASE me.next
      BY <2>3, <2>4, <3>1 DEF Looks
    <3>2. CASE ~me.next
      <4>1. Turn(w, q) >= Turn(w, i) /\ q # i
        BY <1>0, <1>3, <3>2 DEF Looks
      <4>2. Turn(w, q) >= Turn(w, k)
        BY <1>0, <2>1, <2>6, <4>1
      <4> QED
        BY <2>3, <2>4, <4>2 DEF Looks, Turn
    <3> QED
      BY <3>1, <3>2
  <2>8. \A u \in CsThreads, q \in 0 .. CsWorkers : u # w /\ Looks(u, q) => Looks(u, q)'
    BY <2>4 DEF Looks
  <2>9. CsSeen'
    BY <1>0, <2>2, <2>7, <2>8 DEF CsInv, CsSeen
  <2> QED
    BY <2>5, <2>9 DEF CsInv
<1> QED
  BY <1>1, <1>2, <1>3

(* No wake-up is lost, whoever steps.                                      *)
LEMMA CsInvStep ==
    ASSUME CsInv, [CsNext]_csVars
    PROVE  CsInv'
<1>0. /\ csQueue \in [0 .. CsWorkers -> Seq(CsTasks)] /\ csWorker \in [CsThreads -> CsContext]
      /\ csNew \subseteq CsTasks
  BY DEF CsInv, CsTypes
<1>1. ASSUME NEW x \in CsTasks, ScheduleOutside(x)
      PROVE  CsInv'
  <2>1. /\ 0 \in 0 .. CsWorkers /\ Append(csQueue[0], x) \in Seq(CsTasks) /\ x # CsNone
        /\ \A w \in CsThreads : w # 0 /\ w \in 0 .. CsWorkers
    BY <1>0, CsAssumption DEF CsThreads
  <2>2. CsTypes' /\ CsExit' /\ CsOwn'
    BY <1>0, <1>1, <2>1 DEF ScheduleOutside, CsInv, CsTypes, CsExit, CsOwn
  <2>3. CsSeen'
    BY <1>1, <2>1 DEF ScheduleOutside, CsSeen
  <2> QED
    BY <2>2, <2>3 DEF CsInv
<1>2. CASE SetFlagOutside
  BY <1>2 DEF SetFlagOutside, CsInv, CsTypes, CsOwn, CsSeen, CsExit
<1>3. ASSUME NEW w \in CsThreads, NEW x \in CsTasks, ScheduleInside(w, x)
      PROVE  CsInv'
  <2> DEFINE r == [csWorker[w] EXCEPT !.at = "flag"]
  <2>1. /\ w \in 0 .. CsWorkers /\ Append(csQueue[w], x) \in Seq(CsTasks)
        /\ \A u \in CsThreads : u \in 0 .. CsWorkers
    BY <1>0, CsAssumption DEF CsThreads
  <2>2. r \in CsContext /\ r.at = "flag" /\ CsGo(w, r)
    BY <1>0, <1>3 DEF ScheduleInside, CsContext, CsPlaces
  <2> HIDE DEF r
  <2>3. /\ csWorker' \in [CsThreads -> CsContext] /\ csWorker'[w] = r
        /\ \A u \in CsThreads : u # w => csWorker'[u] = csWorker[u]
    BY <2>2, CsGoEffect DEF CsInv
  <2>4. CsTypes' /\ CsExit' /\ CsOwn'
    BY <1>0, <1>3, <2>1, <2>2, <2>3 DEF ScheduleInside, CsInv, CsTypes, CsExit, CsOwn
  <2>5. CsSeen'
    BY <2>2, <2>3, LooksAll
  <2> QED
    BY <2>4, <2>5 DEF CsInv
<1>4. CASE Destruct
  BY <1>4 DEF Destruct, CsInv, CsTypes, CsOwn, CsSeen, CsExit
<1>5. CASE UNCHANGED csVars
  BY <1>5 DEF csVars, CsInv, CsTypes, CsOwn, CsSeen, CsExit, Looks
<1> QED
  BY <1>1, <1>2, <1>3, <1>4, <1>5, CsPlainStep, CsPeekStep, CsStealStep
     DEF CsNext, WorkerStep

(* If all workers sleep, somebody is going to wake one.                    *)
LEMMA CsSafe ==
    ASSUME CsInv
    PROVE  QueuedWakesSomeone
  BY DEF CsInv, CsSeen, Looks, QueuedWakesSomeone, CsQueued, CsAsleep

-----------------------------------------------------------------------------
(* io_service.                                                             *)

IsTypes ==
    /\ isQueue \in [IsThreads -> Seq(IsOps)] /\ isBatch \in [IsThreads -> Seq(IsOps)]
    /\ isRing \subseteq IsOps /\ Cardinality(isRing) <= IsEntries
    /\ isKernel \subseteq IsOps /\ isDone \in Seq(IsOps) /\ isResult \subseteq IsOps
    /\ isThread \in [IsThreads -> [at : {"idle", "enter", "scan", "release"},
                                   todo : SUBSET IsThreads, moved : BOOLEAN]]

(* What awaiters and the completion thread hold.                           *)
IsEnds ==
    /\ isAwaiter \in [IsOps -> {"none", "ready", "exchange", "asleep", "resumed", "gone"}]
    /\ isSet \in [IsOps -> SUBSET {"handle", "destroy"}]
    /\ isFreed \in [IsOps -> Nat]
    /\ isLoop \in [at : {"wait", "handle", "destroy"}, op : Nat]
    /\ IF isLoop.at = "wait" THEN isLoop.op = 0 ELSE isLoop.op \in isResult

(* The submission ring has one user.                                       *)
Submitting(t) == isThread[t].at \in {"scan", "release"}
IsSubmit ==
    /\ \A t \in IsThreads : Submitting(t) => isRunning
    /\ \A t, u \in IsThreads : Submitting(t) /\ Submitting(u) => t = u

(* Operations are issued in order.                                         *)
IsOrder == \E n \in 0 .. IsCount : \A o \in IsOps : isAwaiter[o] # "none" <=> o <= n

(* An operation is in one place on its way to the completion thread.       *)
Waiting(o) == \/ \E t \in IsThreads : \E k \in 1 .. Len(isQueue[t]) : isQueue[t][k] = o
              \/ \E t \in IsThreads : \E k \in 1 .. Len(isBatch[t]) : isBatch[t][k] = o
Completed(o) == \E k \in 1 .. Len(isDone) : isDone[k] = o
IsApart ==
    \A o \in IsOps :
        /\ isAwaiter[o] = "none" => ~Waiting(o)
        /\ isAwaiter[o] = "none" \/ Waiting(o) => o \notin isRing
        /\ isAwaiter[o] = "none" \/ Waiting(o) \/ o \in isRing => o \notin isKernel
        /\ isAwaiter[o] = "none" \/ Waiting(o) \/ o \in isRing \cup isKernel => ~Completed(o)
        /\ isAwaiter[o] = "none" \/ Waiting(o) \/ o \in isRing \cup isKernel \/ Completed(o)
              => o \notin isResult

(* ... and only once.                                                      *)
IsOnce ==
    /\ \A t, u \in IsThreads :
          /\ \A j \in 1 .. Len(isQueue[t]), k \in 1 .. Len(isQueue[u]) :
                isQueue[t][j] = isQueue[u][k] => t = u /\ j = k
          /\ \A j \in 1 .. Len(isBatch[t]), k \in 1 .. Len(isBatch[u]) :
                isBatch[t][j] = isBatch[u][k] => t = u /\ j = k
          /\ \A j \in 1 .. Len(isQueue[t]), k \in 1 .. Len(isBatch[u]) :
                isQueue[t][j] # isBatch[u][k]
    /\ \A j, k \in 1 .. Len(isDone) : isDone[j] = isDone[k] => j = k

(* The completion thread is past the exchange of M_handle_ctl, and past    *)
(* that of M_destroy_ctl.                                                  *)
Handed(o) == o \in isResult /\ ~(isLoop.op = o /\ isLoop.at = "handle")
Finished(o) == o \in isResult /\ isLoop.op # o

(* The flags are set by the completion thread when it is past them, and    *)
(* otherwise only by the awaiter, which is then suspended or gone.         *)
Settled(o) ==
    /\ "handle" \in isSet[o] <=> Handed(o) \/ isAwaiter[o] = "asleep"
    /\ isAwaiter[o] = "asleep" => ~Handed(o)
    /\ isAwaiter[o] = "resumed" => Handed(o)
    /\ "destroy" \in isSet[o] <=> Finished(o) \/ isAwaiter[o] = "gone"
    /\ isFreed[o] = IF Finished(o) /\ isAwaiter[o] = "gone" THEN 1 ELSE 0
IsSettled == \A o \in IsOps : Settled(o)

IsInv == IsTypes /\ IsEnds /\ IsSubmit /\ IsOrder /\ IsApart /\ IsOnce /\ IsSettled

(* The steps of awaiters and of the completion thread, but for its first,  *)
(* move no operation.                                                      *)
LEMMA IsStill ==
    ASSUME IsInv,
           UNCHANGED <<isQueue, isBatch, isRing, isKernel, isDone, isRunning, isThread, isResult>>,
           \A o \in IsOps : (isAwaiter'[o] = "none") <=> (isAwaiter[o] = "none")
    PROVE  IsTypes' /\ IsSubmit' /\ IsOrder' /\ IsApart' /\ IsOnce'
<1>1. IsTypes' /\ IsSubmit' /\ IsOnce'
  BY DEF IsInv, IsTypes, IsSubmit, IsOnce, Submitting
<1>2. \A o : (Waiting(o)' <=> Waiting(o)) /\ (Completed(o)' <=> Completed(o))
  BY DEF Waiting, Completed
<1>3. IsApart'
  BY <1>2 DEF IsInv, IsApart
<1>4. IsOrder'
  BY DEF IsInv, IsOrder
<1> QED
  BY <1>1, <1>3, <1>4

(* One awaiter steps, or the completion thread at its operation.           *)
LEMMA IsOneSettles ==
    ASSUME IsInv, NEW o \in IsOps,
           UNCHANGED <<isQueue, isBatch, isRing, isKernel, isDone, isRunning, isThread, isResult>>,
           isAwaiter[o] # "none", isAwaiter'[o] # "none", IsEnds', Settled(o)',
           \A p \in IsOps : p # o =>
               /\ isAwaiter'[p] = isAwaiter[p] /\ isSet'[p] = isSet[p]
               /\ isFreed'[p] = isFreed[p]
               /\ isLoop' = isLoop \/ (isLoop.op = o /\ isLoop'.op \in {0, o})
    PROVE  IsInv'
<1>1. IsTypes' /\ IsSubmit' /\ IsOrder' /\ IsApart' /\ IsOnce'
  <2>1. \A p \in IsOps : (isAwaiter'[p] = "none") <=> (isAwaiter[p] = "none")
    OBVIOUS
  <2> QED
    BY <2>1, IsStill
<1>2. \A p \in IsOps : Settled(p)'
  <2> TAKE p \in IsOps
  <2>1. CASE p = o
    BY <2>1
  <2>2. CASE p # o
    <3>1. p # 0 /\ Settled(p)
      BY DEF IsInv, IsSettled, IsOps
    <3>2. (Handed(p)' <=> Handed(p)) /\ (Finished(p)' <=> Finished(p))
      BY <2>2, <3>1 DEF Handed, Finished
    <3> QED
      BY <2>2, <3>1, <3>2 DEF Settled
  <2> QED
    BY <2>1, <2>2
<1> QED
  BY <1>1, <1>2 DEF IsInv, IsSettled

(* await_ready(), await_suspend() and ~uring_awaiter().                    *)
LEMMA IsAwaiterStep ==
    ASSUME IsInv, NEW o \in IsOps, AwaiterStep(o)
    PROVE  IsInv'
<1>0. /\ IsEnds /\ Settled(o)
      /\ UNCHANGED <<isQueue, isBatch, isRing, isKernel, isDone, isRunning, isThread, isResult,
                     isLoop>>
  BY DEF IsInv, IsSettled, AwaiterStep, UringReady, UringSuspend, UringDrop
<1>1. CASE UringReady(o)
  <2>1. /\ isAwaiter[o] = "ready" /\ UNCHANGED <<isSet, isFreed>>
        /\ isAwaiter'[o] = IF "handle" \in isSet[o] THEN "resumed" ELSE "exchange"
        /\ \A p \in IsOps : p # o => isAwaiter'[p] = isAwaiter[p]
        /\ IsEnds'
    BY <1>0, <1>1 DEF UringReady, IsEnds
  <2>2. Settled(o)'
    BY <1>0, <2>1 DEF Settled, Handed, Finished
  <2> QED
    BY <1>0, <2>1, <2>2, IsOneSettles
<1>2. CASE UringSuspend(o)
  <2>1. /\ isAwaiter[o] = "exchange" /\ UNCHANGED isFreed
        /\ isAwaiter'[o] = IF "handle" \in isSet[o] THEN "resumed" ELSE "asleep"
        /\ isSet'[o] = isSet[o] \cup {"handle"}
        /\ \A p \in IsOps : p # o => isAwaiter'[p] = isAwaiter[p] /\ isSet'[p] = isSet[p]
        /\ IsEnds'
    BY <1>0, <1>2 DEF UringSuspend, IsEnds
  <2>2. Settled(o)'
    BY <1>0, <2>1 DEF Settled, Handed, Finished
  <2> QED
    BY <1>0, <2>1, <2>2, IsOneSettles
<1>3. CASE UringDrop(o)
  <2>1. /\ isAwaiter[o] \in {"ready", "resumed"} /\ isAwaiter'[o] = "gone"
        /\ isSet'[o] = isSet[o] \cup {"destroy"}
        /\ isFreed'[o] = isFreed[o] + DataSecond(o)
        /\ \A p \in IsOps : p # o => /\ isAwaiter'[p] = isAwaiter[p] /\ isSet'[p] = isSet[p]
                                     /\ isFreed'[p] = isFreed[p]
        /\ IsEnds'
    BY <1>0, <1>3 DEF UringDrop, IsEnds, DataSecond
  <2>2. Settled(o)'
    BY <1>0, <2>1 DEF Settled, Handed, Finished, DataSecond
  <2> QED
    BY <1>0, <2>1, <2>2, IsOneSettles
<1> QED
  BY <1>1, <1>2, <1>3 DEF AwaiterStep

(* handle_completion(): the two exchanges.                                 *)
LEMMA IsLoopStep ==
    ASSUME IsInv, LoopHandle \/ LoopDestroy
    PROVE  IsInv'
<1>a. isLoop.op \in isResult /\ isLoop.op \in IsOps
  BY DEF IsInv, IsEnds, IsTypes, LoopHandle, LoopDestroy
<1>b. PICK o \in IsOps : o = isLoop.op
  BY <1>a
<1>0. /\ IsEnds /\ Settled(o) /\ o \in isResult /\ isAwaiter[o] # "none"
      /\ isAwaiter[o] \in {"ready", "exchange", "asleep", "resumed", "gone"}
      /\ UNCHANGED <<isQueue, isBatch, isRing, isKernel, isDone, isRunning, isThread, isResult>>
  <2>1. isAwaiter[o] # "none"
    BY <1>a, <1>b DEF IsInv, IsApart
  <2> QED
    BY <1>a, <1>b, <2>1 DEF IsInv, IsEnds, IsSettled, LoopHandle, LoopDestroy
<1>1. CASE LoopHandle
  <2>1. /\ isLoop.at = "handle" /\ isLoop' = [isLoop EXCEPT !.at = "destroy"]
        /\ isLoop'.at = "destroy" /\ isLoop'.op = o /\ UNCHANGED isFreed
        /\ isSet'[o] = isSet[o] \cup {"handle"}
        /\ isAwaiter'[o] = IF "handle" \notin isSet[o] THEN isAwaiter[o]
                           ELSE IF isAwaiter[o] = "asleep" THEN "resumed" ELSE "broken"
        /\ \A p \in IsOps : p # o => isAwaiter'[p] = isAwaiter[p] /\ isSet'[p] = isSet[p]
    BY <1>0, <1>b, <1>1 DEF LoopHandle, IsEnds
  <2>2. isAwaiter'[o] = IF isAwaiter[o] = "asleep" THEN "resumed" ELSE isAwaiter[o]
    BY <1>0, <1>b, <2>1 DEF Settled, Handed
  <2>3. IsEnds'
    BY <1>0, <1>b, <1>1, <2>1, <2>2 DEF LoopHandle, IsEnds
  <2>4. Settled(o)'
    BY <1>0, <1>b, <2>1, <2>2 DEF Settled, Handed, Finished
  <2> QED
    BY <1>0, <1>b, <2>1, <2>2, <2>3, <2>4, IsOneSettles
<1>2. CASE LoopDestroy
  <2>1. /\ isLoop.at = "destroy" /\ isLoop'.at = "wait" /\ isLoop'.op = 0
        /\ UNCHANGED isAwaiter
        /\ isSet'[o] = isSet[o] \cup {"destroy"}
        /\ isFreed'[o] = isFreed[o] + DataSecond(o)
        /\ \A p \in IsOps : p # o => isSet'[p] = isSet[p] /\ isFreed'[p] = isFreed[p]
        /\ IsEnds'
    BY <1>0, <1>b, <1>2 DEF LoopDestroy, IsEnds, DataSecond
  <2>2. Settled(o)'
    BY <1>0, <1>b, <2>1 DEF Settled, Handed, Finished, DataSecond, IsOps
  <2> QED
    BY <1>0, <1>b, <2>1, <2>2, IsOneSettles
<1> QED
  BY <1>1, <1>2

(* The steps that carry operations leave both ends alone.                  *)
LEMMA IsCarried ==
    ASSUME IsInv, UNCHANGED <<isAwaiter, isSet, isFreed, isLoop, isResult>>,
           IsTypes', IsSubmit', IsApart', IsOnce'
    PROVE  IsInv'
<1>1. IsEnds' /\ IsOrder'
  BY DEF IsInv, IsEnds, IsOrder
<1>2. IsSettled'
  BY DEF IsInv, IsSettled, Settled, Handed, Finished
<1> QED
  BY <1>1, <1>2 DEF IsInv

(* Operations that stay where they are are in one place still.             *)
LEMMA IsResting ==
    ASSUME IsInv, UNCHANGED <<isQueue, isBatch, isRing, isKernel, isDone, isResult, isAwaiter>>
    PROVE  IsApart' /\ IsOnce'
<1>1. IsOnce'
  BY DEF IsInv, IsOnce
<1>2. \A o : (Waiting(o)' <=> Waiting(o)) /\ (Completed(o)' <=> Completed(o))
  BY DEF Waiting, Completed
<1> QED
  BY <1>1, <1>2 DEF IsInv, IsApart

(* The step of one thread.                                                 *)
IsContext == [at : {"idle", "enter", "scan", "release"}, todo : SUBSET IsThreads,
              moved : BOOLEAN]

LEMMA IsGoEffect ==
    ASSUME IsTypes, NEW t \in IsThreads, NEW r \in IsContext, IsGo(t, r)
    PROVE  /\ isThread' \in [IsThreads -> IsContext] /\ isThread'[t] = r
           /\ \A u \in IsThreads : u # t => isThread'[u] = isThread[u]
  BY DEF IsTypes, IsGo, IsContext

(* Who does not begin to submit leaves the others undisturbed.             *)
LEMMA IsSubmitStep ==
    ASSUME IsInv, NEW t \in IsThreads, NEW r \in IsContext, IsGo(t, r),
           r.at \in {"scan", "release"} => Submitting(t), UNCHANGED isRunning
    PROVE  isThread' \in [IsThreads -> IsContext] /\ IsSubmit'
<1>1. /\ isThread' \in [IsThreads -> IsContext] /\ isThread'[t] = r
      /\ \A u \in IsThreads : u # t => isThread'[u] = isThread[u]
  BY IsGoEffect DEF IsInv
<1>2. \A u \in IsThreads : Submitting(u)' => Submitting(u)
  BY <1>1 DEF Submitting
<1> QED
  BY <1>1, <1>2 DEF IsInv, IsSubmit

(* submit(): the loop condition, and the end of a round.                   *)
LEMMA IsEnterStep ==
    ASSUME IsInv, NEW t \in IsThreads, SubmitEnter(t) \/ SubmitRelease(t)
    PROVE  IsInv'
<1>0. UNCHANGED <<isQueue, isBatch, isRing, isKernel, isDone, isLoop, isAwaiter, isSet, isResult,
                  isFreed>>
  BY DEF SubmitEnter, SubmitRelease
<1>1. IsApart' /\ IsOnce'
  BY <1>0, IsResting
<1>2. /\ IsIdle \in IsContext /\ IsIdle.at = "idle"
      /\ [IsIdle EXCEPT !.at = "enter"] \in IsContext
      /\ [IsIdle EXCEPT !.at = "enter"].at = "enter"
      /\ [IsIdle EXCEPT !.at = "scan", !.todo = IsThreads] \in IsContext
  BY DEF IsIdle, IsContext
<1>3. isThread' \in [IsThreads -> IsContext] /\ IsSubmit'
  <2>1. CASE SubmitEnter(t) /\ AllEmpty
    BY <1>2, <2>1, IsSubmitStep DEF SubmitEnter
  <2>2. CASE SubmitEnter(t) /\ ~AllEmpty /\ isRunning
    <3>1. IsGo(t, IsIdle) /\ isRunning' = TRUE
      BY <2>2 DEF SubmitEnter, Submitter
    <3>2. /\ isThread' \in [IsThreads -> IsContext] /\ isThread'[t] = IsIdle
          /\ \A u \in IsThreads : u # t => isThread'[u] = isThread[u]
      BY <1>2, <3>1, IsGoEffect DEF IsInv
    <3>3. \A u \in IsThreads : Submitting(u)' => Submitting(u)
      BY <1>2, <3>2 DEF Submitting
    <3> QED
      BY <3>1, <3>2, <3>3 DEF IsInv, IsSubmit
  <2>3. CASE SubmitEnter(t) /\ ~AllEmpty /\ ~isRunning
    <3> DEFINE r == [IsIdle EXCEPT !.at = "scan", !.todo = IsThreads]
    <3>1. IsGo(t, r) /\ isRunning' = TRUE
      BY <2>3 DEF SubmitEnter, Submitter
    <3>2. r \in IsContext
      BY <1>2
    <3> HIDE DEF r
    <3>3. /\ isThread' \in [IsThreads -> IsContext]
          /\ \A u \in IsThreads : u # t => isThread'[u] = isThread[u]
      BY <3>1, <3>2, IsGoEffect DEF IsInv
    <3>4. \A u \in IsThreads : ~Submitting(u)
      BY <2>3 DEF IsInv, IsSubmit
    <3>5. \A u \in IsThreads : u # t => ~Submitting(u)'
      BY <3>3, <3>4 DEF Submitting
    <3> QED
      BY <3>1, <3>3, <3>5 DEF IsSubmit
  <2>4. CASE SubmitRelease(t)
    <3>1. IsGo(t, [IsIdle EXCEPT !.at = "enter"]) /\ Submitting(t)
      BY <2>4 DEF SubmitRelease, Submitting
    <3>2. /\ isThread' \in [IsThreads -> IsContext]
          /\ isThread'[t] = [IsIdle EXCEPT !.at = "enter"]
          /\ \A u \in IsThreads : u # t => isThread'[u] = isThread[u]
      BY <1>2, <3>1, IsGoEffect DEF IsInv
    <3>3. \A u \in IsThreads : ~Submitting(u)'
      BY <1>2, <3>1, <3>2 DEF Submitting, IsInv, IsSubmit
    <3> QED
      BY <3>2, <3>3 DEF IsSubmit
  <2> QED
    BY <2>1, <2>2, <2>3, <2>4
<1>4. IsTypes'
  BY <1>0, <1>3 DEF IsInv, IsTypes, IsContext
<1> QED
  BY <1>0, <1>1, <1>3, <1>4, IsCarried

(* submit(): another round, or io_uring_submit().                          *)
LEMMA IsRingStep ==
    ASSUME IsInv, NEW t \in IsThreads, SubmitRing(t)
    PROVE  IsInv'
<1>0. /\ UNCHANGED <<isQueue, isBatch, isDone, isRunning, isLoop, isAwaiter, isSet, isResult,
                     isFreed>>
      /\ Submitting(t) /\ isThread[t] \in IsContext
  BY DEF SubmitRing, Submitting, IsInv, IsTypes, IsContext
<1>1. \/ isKernel' = isKernel \cup isRing /\ isRing' = {}
      \/ UNCHANGED <<isKernel, isRing>>
  BY DEF SubmitRing
<1>2. isThread' \in [IsThreads -> IsContext] /\ IsSubmit'
  <2>1. \E r \in IsContext : IsGo(t, r)
    <3>1. CASE AllEmpty
      <4>1. [IsIdle EXCEPT !.at = "release"] \in IsContext
        BY DEF IsIdle, IsContext
      <4> QED
        BY <3>1, <4>1 DEF SubmitRing
    <3>2. CASE ~AllEmpty
      <4>1. [isThread[t] EXCEPT !.todo = IsThreads] \in IsContext
        BY <1>0 DEF IsContext
      <4> QED
        BY <3>2, <4>1 DEF SubmitRing
    <3> QED
      BY <3>1, <3>2
  <2> QED
    BY <1>0, <2>1, IsSubmitStep
<1>3. IsTypes'
  <2>1. Cardinality({}) <= IsEntries
    BY FS_EmptySet, IsAssumption
  <2> QED
    BY <1>0, <1>1, <1>2, <2>1 DEF IsInv, IsTypes, IsContext
<1>4. IsOnce'
  BY <1>0 DEF IsInv, IsOnce
<1>5. IsApart'
  <2>1. \A o : (Waiting(o)' <=> Waiting(o)) /\ (Completed(o)' <=> Completed(o))
    BY <1>0 DEF Waiting, Completed
  <2> QED
    BY <1>0, <1>1, <2>1 DEF IsInv, IsApart
<1> QED
  BY <1>0, <1>2, <1>3, <1>4, <1>5, IsCarried

(* There are finitely many operations.                                     *)
LEMMA OpsFinite ==
    ASSUME NEW S \in SUBSET IsOps
    PROVE  IsFiniteSet(S) /\ Cardinality(S) \in Nat
<1>1. IsFiniteSet(IsOps)
  BY FS_Interval, IsAssumption DEF IsOps
<1>2. IsFiniteSet(S)
  BY <1>1, FS_Subset
<1> QED
  BY <1>2, FS_CardinalityType

(* init_io_uring_ops() takes the first n operations of a queue into the    *)
(* ring, which has room for them.                                          *)
LEMMA RingHolds ==
    ASSUME NEW R, IsFiniteSet(R), NEW s \in Seq(IsOps), NEW n \in 0 .. Len(s),
           n <= IsEntries - Cardinality(R)
    PROVE  Cardinality(R \cup {s[k] : k \in 1 .. n}) <= IsEntries
<1> DEFINE T == {s[k] : k \in 1 .. n}
           f == [k \in 1 .. n |-> s[k]]
<1>0. n \in Nat
  OBVIOUS
<1>1. f \in Surjection(1 .. n, T)
  BY DEF Surjection
<1>2. IsFiniteSet(1 .. n) /\ Cardinality(1 .. n) = n
  BY <1>0, FS_Interval
<1> HIDE DEF f, T
<1>3. IsFiniteSet(T) /\ Cardinality(T) <= n
  BY <1>1, <1>2, FS_Surjection
<1>4. Cardinality(R \cup T) = Cardinality(R) + Cardinality(T) - Cardinality(R \cap T)
  BY <1>3, FS_Union
<1>5. Cardinality(R) \in Nat /\ Cardinality(T) \in Nat /\ Cardinality(R \cap T) \in Nat
  <2>1. R \cap T \subseteq T
    OBVIOUS
  <2>2. IsFiniteSet(R \cap T)
    BY <1>3, <2>1, FS_Subset
  <2> QED
    BY <1>3, <2>2, FS_CardinalityType
<1> QED
  BY <1>0, <1>3, <1>4, <1>5, IsAssumption DEF T

(* init_io_uring_ops(): a queue is emptied into the ring, up to an         *)
(* operation that finds it full.                                           *)
LEMMA IsQueueStep ==
    ASSUME IsInv, NEW t \in IsThreads, NEW q \in IsThreads, SubmitQueue(t, q)
    PROVE  IsInv'
<1> DEFINE s == isQueue[q]
           room == IsEntries - Cardinality(isRing)
           n == IF Len(s) <= room THEN Len(s) ELSE room
           full == Len(s) > room
           d == IF full THEN n + 1 ELSE n
           moved == {s[k] : k \in 1 .. n}
<1>0. /\ UNCHANGED <<isBatch, isKernel, isDone, isRunning, isLoop, isAwaiter, isSet, isResult,
                     isFreed>>
      /\ Submitting(t) /\ isThread[t] \in IsContext /\ s \in Seq(IsOps)
      /\ isQueue \in [IsThreads -> Seq(IsOps)] /\ isRing \subseteq IsOps
      /\ Cardinality(isRing) <= IsEntries
  BY DEF SubmitQueue, Submitting, IsInv, IsTypes, IsContext
<1>1. /\ isRing' = isRing \cup moved
      /\ isQueue' = [isQueue EXCEPT ![q] = SubSeq(s, d + 1, Len(s))]
  <2>1. isRing' = isRing \cup moved
    BY DEF SubmitQueue
  <2>2. isQueue' = [isQueue EXCEPT ![q] = SubSeq(s, (IF full THEN n + 2 ELSE n + 1), Len(s))]
    BY DEF SubmitQueue
  <2>3. (IF full THEN n + 2 ELSE n + 1) = d + 1
    <3>1. n \in Int
      <4>2. Cardinality(isRing) \in Nat
        BY <1>0, OpsFinite
      <4> QED
        BY <1>0, <4>2, IsAssumption
    <3> HIDE DEF n, full
    <3> QED
      BY <3>1
  <2> QED
    BY <2>1, <2>2, <2>3
<1>2. IsFiniteSet(isRing) /\ Cardinality(isRing) \in Nat
  BY <1>0, OpsFinite
<1>3. n \in 0 .. Len(s) /\ n <= room /\ d \in n .. Len(s)
  BY <1>0, <1>2, IsAssumption
<1>4. isThread' \in [IsThreads -> IsContext] /\ IsSubmit'
  <2>1. \E r \in IsContext : IsGo(t, r)
    <3> DEFINE r == IF full THEN IsIdle
                    ELSE [isThread[t] EXCEPT !.todo = @ \ {q}, !.moved = @ \/ n > 0]
    <3>1. IsGo(t, r)
      BY DEF SubmitQueue
    <3>2. IsIdle \in IsContext
      BY DEF IsIdle, IsContext
    <3>3. [isThread[t] EXCEPT !.todo = @ \ {q}, !.moved = @ \/ n > 0] \in IsContext
      <4> DEFINE b == isThread[t].moved \/ n > 0
      <4>1. b \in BOOLEAN
        OBVIOUS
      <4> HIDE DEF b, n
      <4>2. [isThread[t] EXCEPT !.todo = @ \ {q}, !.moved = b] \in IsContext
        BY <1>0, <4>1 DEF IsContext
      <4> QED
        BY <4>2 DEF b
    <3> QED
      BY <3>1, <3>2, <3>3
  <2> QED
    BY <1>0, <2>1, IsSubmitStep
<1> HIDE DEF n, d, full, room
<1>5. /\ SubSeq(s, d + 1, Len(s)) \in Seq(IsOps)
      /\ Len(SubSeq(s, d + 1, Len(s))) = Len(s) - d
      /\ \A k \in 1 .. Len(s) - d : SubSeq(s, d + 1, Len(s))[k] = s[k + d]
  BY <1>0, <1>3
<1>6. \A u \in IsThreads :
        /\ isQueue'[u] \in Seq(IsOps)
        /\ u # q => isQueue'[u] = isQueue[u]
        /\ u = q => /\ Len(isQueue'[u]) = Len(isQueue[u]) - d
                    /\ \A k \in 1 .. Len(isQueue'[u]) : isQueue'[u][k] = isQueue[u][k + d]
  BY <1>0, <1>1, <1>5
<1>7. IsTypes'
  <2>1. Cardinality(isRing') <= IsEntries
    BY <1>0, <1>1, <1>2, <1>3, RingHolds DEF room
  <2>2. isRing' \subseteq IsOps
    BY <1>0, <1>1, <1>3
  <2>3. isQueue' \in [IsThreads -> Seq(IsOps)]
    BY <1>0, <1>1, <1>5
  <2> QED
    BY <1>0, <1>4, <2>1, <2>2, <2>3 DEF IsInv, IsTypes, IsContext
(* What is left in a queue was there before, behind what has moved.        *)
<1> DEFINE e(u) == IF u = q THEN d ELSE 0
<1>8. \A u \in IsThreads : \A k \in 1 .. Len(isQueue'[u]) :
        k + e(u) \in 1 .. Len(isQueue[u]) /\ isQueue'[u][k] = isQueue[u][k + e(u)]
  BY <1>0, <1>3, <1>6, SMTT(60)
<1>9. IsOnce'
  <2>0. IsOnce /\ d \in Int
    BY <1>3 DEF IsInv
  <2>1. \A u, v \in IsThreads : \A j \in 1 .. Len(isQueue'[u]), k \in 1 .. Len(isQueue'[v]) :
          isQueue'[u][j] = isQueue'[v][k] => u = v /\ j = k
    <3> TAKE u, v \in IsThreads
    <3> TAKE j \in 1 .. Len(isQueue'[u]), k \in 1 .. Len(isQueue'[v])
    <3> HAVE isQueue'[u][j] = isQueue'[v][k]
    <3>1. u = v /\ j + e(u) = k + e(v)
      <4> DEFINE x == j + e(u)
                 y == k + e(v)
      <4>1. /\ x \in 1 .. Len(isQueue[u]) /\ y \in 1 .. Len(isQueue[v])
            /\ isQueue[u][x] = isQueue[v][y]
        BY <1>8
      <4> HIDE DEF x, y
      <4>2. u = v /\ x = y
        BY <2>0, <4>1 DEF IsOnce
      <4> QED
        BY <4>2 DEF x, y
    <3> QED
      BY <2>0, <3>1
  <2>2. \A u, v \in IsThreads : \A j \in 1 .. Len(isQueue'[u]), k \in 1 .. Len(isBatch[v]) :
          isQueue'[u][j] # isBatch[v][k]
    BY <1>8, <2>0, SMTT(60) DEF IsOnce
  <2> QED
    BY <1>0, <2>0, <2>1, <2>2 DEF IsOnce
<1>10. \A o : /\ Waiting(o)' => Waiting(o) /\ o \notin moved
              /\ o \in moved => Waiting(o)
              /\ Completed(o)' <=> Completed(o)
  <2> TAKE o
  <2>1. Completed(o)' <=> Completed(o)
    BY <1>0 DEF Completed
  <2>2. o \in moved => Waiting(o)
    BY <1>0, <1>3 DEF Waiting
  <2>3. ASSUME Waiting(o)'
        PROVE  Waiting(o)
    <3> HIDE DEF e
    <3>1. CASE \E u \in IsThreads : \E k \in 1 .. Len(isBatch'[u]) : isBatch'[u][k] = o
      BY <1>0, <3>1 DEF Waiting
    <3>2. CASE \E u \in IsThreads : \E k \in 1 .. Len(isQueue'[u]) : isQueue'[u][k] = o
      BY <1>8, <3>2 DEF Waiting
    <3> QED
      BY <2>3, <3>1, <3>2 DEF Waiting
  <2>4. ASSUME Waiting(o)', o \in moved
        PROVE  FALSE
    <3>1. PICK k \in 1 .. n : o = s[k]
      BY <2>4
    <3>2. IsOnce /\ k \in 1 .. Len(s)
      BY <1>0, <1>3 DEF IsInv
    <3>3. CASE \E u \in IsThreads : \E j \in 1 .. Len(isBatch[u]) : isBatch[u][j] = o
      BY <3>1, <3>2, <3>3 DEF IsOnce
    <3>4. ASSUME NEW u \in IsThreads, NEW j \in 1 .. Len(isQueue'[u]), isQueue'[u][j] = o
          PROVE  FALSE
      <4>1. j + e(u) \in 1 .. Len(isQueue[u]) /\ isQueue[u][j + e(u)] = s[k]
        BY <1>8, <3>1, <3>4
      <4>2. u = q /\ j + e(u) = k
        BY <3>2, <4>1 DEF IsOnce
      <4> QED
        BY <1>0, <1>3, <1>6, <4>2
    <3> QED
      BY <1>0, <2>4, <3>3, <3>4 DEF Waiting
  <2> QED
    BY <2>1, <2>2, <2>3, <2>4
<1>11. IsApart'
  BY <1>0, <1>1, <1>10 DEF IsInv, IsApart
<1> QED
  BY <1>0, <1>4, <1>7, <1>9, <1>11, IsCarried

(* submit(batch): the batch goes to the end of the thread's queue.         *)
LEMMA IsBatchStep ==
    ASSUME IsInv, NEW t \in IsThreads, SubmitBatch(t)
    PROVE  IsInv'
<1> DEFINE a == isQueue[t]
           b == isBatch[t]
<1>0. /\ UNCHANGED <<isRing, isKernel, isDone, isRunning, isLoop, isAwaiter, isSet, isResult,
                     isFreed>>
      /\ isQueue' = [isQueue EXCEPT ![t] = a \o b] /\ isBatch' = [isBatch EXCEPT ![t] = <<>>]
      /\ IsGo(t, [IsIdle EXCEPT !.at = "enter"]) /\ IsOnce /\ IsTypes
  BY DEF SubmitBatch, IsInv
<1>1. isThread' \in [IsThreads -> IsContext] /\ IsSubmit'
  <2>1. /\ [IsIdle EXCEPT !.at = "enter"] \in IsContext
        /\ [IsIdle EXCEPT !.at = "enter"].at = "enter"
    BY DEF IsIdle, IsContext
  <2> QED
    BY <1>0, <2>1, IsSubmitStep
<1>2. /\ a \in Seq(IsOps) /\ b \in Seq(IsOps) /\ a \o b \in Seq(IsOps)
      /\ Len(a \o b) = Len(a) + Len(b)
      /\ \A k \in 1 .. Len(a) : (a \o b)[k] = a[k]
      /\ \A k \in 1 .. Len(a) + Len(b) : k > Len(a) => (a \o b)[k] = b[k - Len(a)]
  BY <1>0 DEF IsTypes
<1>3. IsTypes'
  <2>1. isQueue \in [IsThreads -> Seq(IsOps)] /\ isBatch \in [IsThreads -> Seq(IsOps)]
    BY <1>0 DEF IsTypes
  <2>2. isQueue' \in [IsThreads -> Seq(IsOps)]
    <3> DEFINE c == a \o b
    <3>1. c \in Seq(IsOps) /\ isQueue' = [isQueue EXCEPT ![t] = c]
      BY <1>0, <1>2
    <3> HIDE DEF c
    <3> QED
      BY <2>1, <3>1
  <2>3. isBatch' \in [IsThreads -> Seq(IsOps)]
    <3>1. <<>> \in Seq(IsOps)
      OBVIOUS
    <3> QED
      BY <1>0, <2>1, <3>1
  <2> QED
    BY <1>0, <1>1, <2>2, <2>3 DEF IsTypes, IsContext
(* Who is in a queue was there before, or in the batch.                    *)
<1>4. /\ \A u \in IsThreads : u # t => isQueue'[u] = isQueue[u] /\ isBatch'[u] = isBatch[u]
      /\ isQueue'[t] = a \o b /\ Len(isBatch'[t]) = 0
  BY <1>0 DEF IsTypes
<1>5. \A u \in IsThreads : \A k \in 1 .. Len(isBatch'[u]) :
        u # t /\ k \in 1 .. Len(isBatch[u]) /\ isBatch'[u][k] = isBatch[u][k]
  BY <1>4
<1>6. \A u \in IsThreads : \A k \in 1 .. Len(isQueue'[u]) :
        \/ k \in 1 .. Len(isQueue[u]) /\ isQueue'[u][k] = isQueue[u][k]
        \/ /\ u = t /\ k > Len(a) /\ k - Len(a) \in 1 .. Len(b)
           /\ isQueue'[u][k] = b[k - Len(a)]
  <2> TAKE u \in IsThreads
  <2>1. CASE u # t
    BY <1>4, <2>1
  <2>2. CASE u = t
    <3> DEFINE c == a \o b
               i == Len(a)
               j == Len(b)
    <3>1. /\ isQueue'[u] = c /\ Len(c) = i + j /\ i \in Nat /\ j \in Nat
          /\ \A k \in 1 .. i : c[k] = a[k]
          /\ \A k \in 1 .. i + j : k > i => c[k] = b[k - i]
      <4>1. isQueue'[u] = c
        BY <1>4, <2>2
      <4> HIDE DEF a, b
      <4>2. i \in Nat /\ j \in Nat
        BY <1>2
      <4> QED
        BY <1>2, <4>1, <4>2
    <3>2. isQueue[u] = a
      BY <2>2
    <3> HIDE DEF a, b, c
    <3> TAKE k \in 1 .. Len(isQueue'[u])
    <3>3. k \in 1 .. i + j
      BY <3>1
    <3> HIDE DEF i, j
    <3>4. CASE k > i
      <4>1. k - i \in 1 .. j
        BY <3>1, <3>3, <3>4
      <4> QED
        BY <2>2, <3>1, <3>3, <3>4, <4>1 DEF i, j
    <3>5. CASE ~(k > i)
      <4>1. k \in 1 .. i
        BY <3>1, <3>3, <3>5
      <4> QED
        BY <3>1, <3>2, <4>1 DEF i
    <3> QED
      BY <3>4, <3>5
  <2> QED
    BY <2>1, <2>2
<1>7. Len(a) \in Int
  BY <1>2
<1> DEFINE m == Len(a)
<1> HIDE DEF a, m
<1>8. IsOnce'
  <2>1. \A u, v \in IsThreads : \A j \in 1 .. Len(isQueue'[u]), k \in 1 .. Len(isQueue'[v]) :
          isQueue'[u][j] = isQueue'[v][k] => u = v /\ j = k
    <3> TAKE u, v \in IsThreads
    <3> TAKE j \in 1 .. Len(isQueue'[u]), k \in 1 .. Len(isQueue'[v])
    <3> HAVE isQueue'[u][j] = isQueue'[v][k]
    <3> DEFINE x == j - m
               y == k - m
    <3>1. \/ j \in 1 .. Len(isQueue[u]) /\ isQueue'[u][j] = isQueue[u][j]
          \/ u = t /\ x \in 1 .. Len(isBatch[t]) /\ isQueue'[u][j] = isBatch[t][x]
      BY <1>6 DEF m
    <3>2. \/ k \in 1 .. Len(isQueue[v]) /\ isQueue'[v][k] = isQueue[v][k]
          \/ v = t /\ y \in 1 .. Len(isBatch[t]) /\ isQueue'[v][k] = isBatch[t][y]
      BY <1>6 DEF m
    <3>3. x = y => j = k
      BY <1>7 DEF m
    <3> HIDE DEF x, y
    <3>4. CASE j \in 1 .. Len(isQueue[u]) /\ isQueue'[u][j] = isQueue[u][j]
      BY <1>0, <3>2, <3>4, SMTT(60) DEF IsOnce
    <3>5. CASE u = t /\ x \in 1 .. Len(isBatch[t]) /\ isQueue'[u][j] = isBatch[t][x]
      <4>1. CASE k \in 1 .. Len(isQueue[v]) /\ isQueue'[v][k] = isQueue[v][k]
        <5>1. isQueue[v][k] = isBatch[t][x]
          BY <3>5, <4>1
        <5> QED
          BY <1>0, <3>5, <4>1, <5>1 DEF IsOnce
      <4>2. CASE v = t /\ y \in 1 .. Len(isBatch[t]) /\ isQueue'[v][k] = isBatch[t][y]
        <5>1. x = y
          <6>1. /\ x \in 1 .. Len(isBatch[t]) /\ y \in 1 .. Len(isBatch[t])
                /\ isBatch[t][x] = isBatch[t][y]
            BY <3>5, <4>2
          <6>2. \A g, h \in 1 .. Len(isBatch[t]) : isBatch[t][g] = isBatch[t][h] => g = h
            BY <1>0 DEF IsOnce
          <6> QED
            BY <6>1, <6>2
        <5> QED
          BY <3>3, <3>5, <4>2, <5>1
      <4> QED
        BY <3>2, <4>1, <4>2
    <3> QED
      BY <3>1, <3>4, <3>5
  <2>2. \A u, v \in IsThreads : \A j \in 1 .. Len(isBatch'[u]), k \in 1 .. Len(isBatch'[v]) :
          isBatch'[u][j] = isBatch'[v][k] => u = v /\ j = k
    BY <1>0, <1>5 DEF IsOnce
  <2>3. \A u, v \in IsThreads : \A j \in 1 .. Len(isQueue'[u]), k \in 1 .. Len(isBatch'[v]) :
          isQueue'[u][j] # isBatch'[v][k]
    <3> TAKE u, v \in IsThreads
    <3> TAKE j \in 1 .. Len(isQueue'[u]), k \in 1 .. Len(isBatch'[v])
    <3> DEFINE x == j - m
    <3>1. v # t /\ k \in 1 .. Len(isBatch[v]) /\ isBatch'[v][k] = isBatch[v][k]
      BY <1>5
    <3>2. \/ j \in 1 .. Len(isQueue[u]) /\ isQueue'[u][j] = isQueue[u][j]
          \/ u = t /\ x \in 1 .. Len(isBatch[t]) /\ isQueue'[u][j] = isBatch[t][x]
      BY <1>6 DEF m
    <3> HIDE DEF x
    <3> QED
      BY <1>0, <3>1, <3>2 DEF IsOnce
  <2> QED
    BY <1>0, <2>1, <2>2, <2>3, SMTT(60) DEF IsOnce
<1>9. \A o : (Waiting(o)' => Waiting(o)) /\ (Completed(o)' <=> Completed(o))
  <2> TAKE o
  <2>1. Completed(o)' <=> Completed(o)
    BY <1>0 DEF Completed
  <2>2. ASSUME NEW u \in IsThreads, NEW k \in 1 .. Len(isQueue'[u]), isQueue'[u][k] = o
        PROVE  Waiting(o)
    BY <1>6, <2>2 DEF Waiting
  <2>3. ASSUME NEW u \in IsThreads, NEW k \in 1 .. Len(isBatch'[u]), isBatch'[u][k] = o
        PROVE  Waiting(o)
    BY <1>5, <2>3 DEF Waiting
  <2> QED
    BY <2>1, <2>2, <2>3 DEF Waiting
<1>10. IsApart'
  BY <1>0, <1>9 DEF IsInv, IsApart
<1> QED
  BY <1>0, <1>1, <1>3, <1>8, <1>10, IsCarried

(* The next operation has not been issued yet, and is nowhere.             *)
LEMMA NextOpFresh ==
    ASSUME IsInv, NextOp \in IsOps,
           isAwaiter' = [isAwaiter EXCEPT ![NextOp] = "ready"]
    PROVE  isAwaiter[NextOp] = "none" /\ IsOrder'
<1>1. PICK n \in 0 .. IsCount : \A o \in IsOps : isAwaiter[o] # "none" <=> o <= n
  BY DEF IsInv, IsOrder
<1>2. {o \in IsOps : isAwaiter[o] # "none"} = 1 .. n
  BY <1>1, IsAssumption DEF IsOps
<1>3. Cardinality(1 .. n) = n
  BY <1>1, FS_Interval
<1>4. NextOp = n + 1
  BY <1>2, <1>3 DEF NextOp
<1>5. \A o \in IsOps : isAwaiter'[o] # "none" <=> o <= n + 1
  BY <1>1, <1>4 DEF IsInv, IsEnds, IsOps
<1>6. n + 1 \in 0 .. IsCount
  BY <1>4, IsAssumption DEF IsOps
<1> QED
  BY <1>1, <1>4, <1>5, <1>6 DEF IsOrder, IsOps

(* A fresh operation joins a queue or a batch.                             *)
LEMMA IsMakeStep ==
    ASSUME IsInv, NEW t \in IsThreads,
           (\E op \in IoUringOps, linked \in BOOLEAN : Issue(t, op, linked))
             \/ (\E op \in IoUringOps : Collect(t, op))
    PROVE  IsInv'
<1>1. PICK x \in IsOps : x = NextOp
  BY DEF Issue, Collect, Make
<1>2. /\ UNCHANGED <<isRing, isKernel, isDone, isRunning, isLoop, isSet, isResult, isFreed>>
      /\ isAwaiter' = [isAwaiter EXCEPT ![x] = "ready"]
      /\ \/ /\ isQueue' = [isQueue EXCEPT ![t] = Append(@, x)] /\ isBatch' = isBatch
            /\ \E r \in IsContext : r.at \in {"idle", "enter"} /\ IsGo(t, r)
         \/ /\ isBatch' = [isBatch EXCEPT ![t] = Append(@, x)] /\ isQueue' = isQueue
            /\ isThread' = isThread
  <2>1. /\ IsIdle \in IsContext /\ IsIdle.at = "idle"
        /\ [IsIdle EXCEPT !.at = "enter"] \in IsContext
        /\ [IsIdle EXCEPT !.at = "enter"].at = "enter"
    BY DEF IsIdle, IsContext
  <2>2. ASSUME NEW op \in IoUringOps, NEW linked \in BOOLEAN, Issue(t, op, linked)
        PROVE  \E r \in IsContext : r.at \in {"idle", "enter"} /\ IsGo(t, r)
    BY <2>1, <2>2 DEF Issue
  <2> QED
    BY <1>1, <2>2 DEF Issue, Collect, Make
<1>3. isAwaiter[x] = "none" /\ IsOrder'
  BY <1>1, <1>2, NextOpFresh
<1>4. IsTypes /\ IsEnds /\ IsOnce /\ IsApart /\ IsSettled
  BY DEF IsInv
<1>5. ~Waiting(x) /\ x \notin isRing /\ x \notin isKernel /\ ~Completed(x) /\ x \notin isResult
  BY <1>3, <1>4 DEF IsApart
<1>6. isThread' \in [IsThreads -> IsContext] /\ IsSubmit'
  <2>1. CASE \E r \in IsContext : r.at \in {"idle", "enter"} /\ IsGo(t, r)
    BY <1>2, <2>1, IsSubmitStep
  <2>2. CASE isThread' = isThread
    BY <1>2, <2>2 DEF IsInv, IsTypes, IsContext, IsSubmit, Submitting
  <2> QED
    BY <1>2, <2>1, <2>2
<1>7. IsTypes'
  <2>1. isQueue \in [IsThreads -> Seq(IsOps)] /\ isBatch \in [IsThreads -> Seq(IsOps)]
    BY <1>4 DEF IsTypes
  <2>2. isQueue' \in [IsThreads -> Seq(IsOps)] /\ isBatch' \in [IsThreads -> Seq(IsOps)]
    <3>1. Append(isQueue[t], x) \in Seq(IsOps) /\ Append(isBatch[t], x) \in Seq(IsOps)
      BY <2>1
    <3> QED
      BY <1>2, <2>1, <3>1
  <2> QED
    BY <1>2, <1>4, <1>6, <2>2 DEF IsTypes, IsContext
<1>8. IsEnds' /\ \A o \in IsOps : o # x => isAwaiter'[o] = isAwaiter[o]
  BY <1>2, <1>4 DEF IsEnds
<1>9. isAwaiter'[x] = "ready"
  BY <1>2, <1>4 DEF IsEnds
<1>10. IsSettled'
  <2>1. \A o : (Handed(o)' <=> Handed(o)) /\ (Finished(o)' <=> Finished(o))
    BY <1>2 DEF Handed, Finished
  <2>2. Settled(x)'
    BY <1>2, <1>3, <1>4, <1>5, <1>9 DEF IsSettled, Settled, Handed, Finished
  <2>3. \A o \in IsOps : o # x => Settled(o)'
    BY <1>2, <1>4, <1>8, <2>1 DEF IsSettled, Settled
  <2> QED
    BY <2>2, <2>3 DEF IsSettled
(* Who is in a queue or batch was there before, or is x at the end.        *)
<1>11. \/ /\ \A u \in IsThreads : \A k \in 1 .. Len(isQueue'[u]) :
               \/ k \in 1 .. Len(isQueue[u]) /\ isQueue'[u][k] = isQueue[u][k]
               \/ u = t /\ k = Len(isQueue[t]) + 1 /\ isQueue'[u][k] = x
          /\ isBatch' = isBatch
       \/ /\ \A u \in IsThreads : \A k \in 1 .. Len(isBatch'[u]) :
               \/ k \in 1 .. Len(isBatch[u]) /\ isBatch'[u][k] = isBatch[u][k]
               \/ u = t /\ k = Len(isBatch[t]) + 1 /\ isBatch'[u][k] = x
          /\ isQueue' = isQueue
  <2>0. /\ isQueue \in [IsThreads -> Seq(IsOps)] /\ isBatch \in [IsThreads -> Seq(IsOps)]
        /\ x \in IsOps
    BY <1>4 DEF IsTypes
  <2>1. CASE isQueue' = [isQueue EXCEPT ![t] = Append(@, x)] /\ isBatch' = isBatch
    BY <2>0, <2>1
  <2>2. CASE isBatch' = [isBatch EXCEPT ![t] = Append(@, x)] /\ isQueue' = isQueue
    BY <2>0, <2>2
  <2> QED
    BY <1>2, <2>1, <2>2
<1>12. /\ \A u \in IsThreads : \A k \in 1 .. Len(isQueue[u]) : isQueue[u][k] # x
       /\ \A u \in IsThreads : \A k \in 1 .. Len(isBatch[u]) : isBatch[u][k] # x
  BY <1>5 DEF Waiting
<1>13. IsOnce'
  <2>0. UNCHANGED isDone /\ IsOnce
    BY <1>2, <1>4
  <2>1. CASE /\ \A u \in IsThreads : \A k \in 1 .. Len(isQueue'[u]) :
                  \/ k \in 1 .. Len(isQueue[u]) /\ isQueue'[u][k] = isQueue[u][k]
                  \/ u = t /\ k = Len(isQueue[t]) + 1 /\ isQueue'[u][k] = x
             /\ isBatch' = isBatch
    <3>1. \A u, v \in IsThreads : \A j \in 1 .. Len(isQueue'[u]), k \in 1 .. Len(isQueue'[v]) :
            isQueue'[u][j] = isQueue'[v][k] => u = v /\ j = k
      <4> TAKE u, v \in IsThreads
      <4> TAKE j \in 1 .. Len(isQueue'[u]), k \in 1 .. Len(isQueue'[v])
      <4> HAVE isQueue'[u][j] = isQueue'[v][k]
      <4>1. CASE isQueue'[u][j] = x
        <5>1. u = t /\ j = Len(isQueue[t]) + 1
          BY <1>12, <2>1, <4>1
        <5>2. v = t /\ k = Len(isQueue[t]) + 1
          <6>1. isQueue'[v][k] = x
            BY <4>1
          <6>2. ~(k \in 1 .. Len(isQueue[v]) /\ isQueue'[v][k] = isQueue[v][k])
            BY <1>12, <6>1
          <6> QED
            BY <2>1, <6>2
        <5> QED
          BY <5>1, <5>2
      <4>2. CASE isQueue'[u][j] # x
        <5>1. /\ j \in 1 .. Len(isQueue[u]) /\ k \in 1 .. Len(isQueue[v])
              /\ isQueue[u][j] = isQueue[v][k]
          BY <2>1, <4>2
        <5> QED
          BY <2>0, <5>1 DEF IsOnce
      <4> QED
        BY <4>1, <4>2
    <3>2. \A u, v \in IsThreads : \A j \in 1 .. Len(isQueue'[u]), k \in 1 .. Len(isBatch[v]) :
            isQueue'[u][j] # isBatch[v][k]
      BY <1>4, <1>12, <2>1 DEF IsOnce
    <3> QED
      <4>1. isBatch' = isBatch
        BY <2>1
      <4> QED
        BY <2>0, <4>1, <3>1, <3>2 DEF IsOnce
  <2>2. CASE /\ \A u \in IsThreads : \A k \in 1 .. Len(isBatch'[u]) :
                  \/ k \in 1 .. Len(isBatch[u]) /\ isBatch'[u][k] = isBatch[u][k]
                  \/ u = t /\ k = Len(isBatch[t]) + 1 /\ isBatch'[u][k] = x
             /\ isQueue' = isQueue
    <3>1. \A u, v \in IsThreads : \A j \in 1 .. Len(isBatch'[u]), k \in 1 .. Len(isBatch'[v]) :
            isBatch'[u][j] = isBatch'[v][k] => u = v /\ j = k
      <4> TAKE u, v \in IsThreads
      <4> TAKE j \in 1 .. Len(isBatch'[u]), k \in 1 .. Len(isBatch'[v])
      <4> HAVE isBatch'[u][j] = isBatch'[v][k]
      <4>1. CASE isBatch'[u][j] = x
        <5>1. u = t /\ j = Len(isBatch[t]) + 1
          BY <1>12, <2>2, <4>1
        <5>2. v = t /\ k = Len(isBatch[t]) + 1
          <6>1. isBatch'[v][k] = x
            BY <4>1
          <6>2. ~(k \in 1 .. Len(isBatch[v]) /\ isBatch'[v][k] = isBatch[v][k])
            BY <1>12, <6>1
          <6> QED
            BY <2>2, <6>2
        <5> QED
          BY <5>1, <5>2
      <4>2. CASE isBatch'[u][j] # x
        <5>1. /\ j \in 1 .. Len(isBatch[u]) /\ k \in 1 .. Len(isBatch[v])
              /\ isBatch[u][j] = isBatch[v][k]
          BY <2>2, <4>2
        <5> QED
          BY <2>0, <5>1 DEF IsOnce
      <4> QED
        BY <4>1, <4>2
    <3>2. \A u, v \in IsThreads : \A j \in 1 .. Len(isQueue[u]), k \in 1 .. Len(isBatch'[v]) :
            isQueue[u][j] # isBatch'[v][k]
      BY <1>4, <1>12, <2>2 DEF IsOnce
    <3> QED
      <4>1. isQueue' = isQueue
        BY <2>2
      <4>2. \A u, v \in IsThreads : \A j \in 1 .. Len(isQueue'[u]), k \in 1 .. Len(isQueue'[v]) :
              isQueue'[u][j] = isQueue'[v][k] => u = v /\ j = k
        BY <2>0, <4>1 DEF IsOnce
      <4>3. \A u, v \in IsThreads : \A j \in 1 .. Len(isQueue'[u]), k \in 1 .. Len(isBatch'[v]) :
              isQueue'[u][j] # isBatch'[v][k]
        BY <3>2, <4>1
      <4>4. \A j, k \in 1 .. Len(isDone') : isDone'[j] = isDone'[k] => j = k
        BY <2>0 DEF IsOnce
      <4> QED
        BY <3>1, <4>2, <4>3, <4>4 DEF IsOnce
  <2> QED
    BY <1>11, <2>1, <2>2
<1>14. \A o : (Waiting(o)' => Waiting(o) \/ o = x) /\ (Completed(o)' <=> Completed(o))
  <2>1. \A o : Completed(o)' <=> Completed(o)
    BY <1>2 DEF Completed
  <2>2. \A o : Waiting(o)' => Waiting(o) \/ o = x
    BY <1>11 DEF Waiting
  <2> QED
    BY <2>1, <2>2
<1>15. IsApart'
  BY <1>2, <1>4, <1>5, <1>8, <1>9, <1>14 DEF IsApart
<1> QED
  BY <1>3, <1>6, <1>7, <1>8, <1>10, <1>13, <1>15 DEF IsInv

(* The kernel completes the operations of K: they leave it for the end of  *)
(* the completion queue.                                                   *)
LEMMA IsDoneStep ==
    ASSUME IsInv, NEW K, K \subseteq isKernel, isKernel' = isKernel \ K,
           UNCHANGED <<isQueue, isBatch, isRing, isRunning, isThread, isLoop, isAwaiter, isSet,
                       isResult, isFreed>>,
           isDone' \in Seq(IsOps), NEW m \in Nat, m = Len(isDone),
           \A k \in 1 .. Len(isDone') :
               \/ k \in 1 .. m /\ isDone'[k] = isDone[k]
               \/ k > m /\ isDone'[k] \in K,
           \A j, k \in 1 .. Len(isDone') :
               j > m /\ k > m /\ isDone'[j] = isDone'[k] => j = k
    PROVE  IsInv'
<1>1. IsTypes' /\ IsSubmit'
  BY DEF IsInv, IsTypes, IsSubmit, Submitting
<1>2. \A o \in K : o \in IsOps /\ ~Completed(o)
  BY DEF IsInv, IsTypes, IsApart
<1>3. IsOnce'
  <2>1. \A j, k \in 1 .. Len(isDone') : isDone'[j] = isDone'[k] => j = k
    <3> TAKE j, k \in 1 .. Len(isDone')
    <3> HAVE isDone'[j] = isDone'[k]
    <3>1. CASE isDone'[j] \in K
      <4>1. ~(j \in 1 .. m /\ isDone'[j] = isDone[j])
        BY <1>2, <3>1 DEF Completed
      <4>2. ~(k \in 1 .. m /\ isDone'[k] = isDone[k])
        BY <1>2, <3>1 DEF Completed
      <4> QED
        BY <4>1, <4>2
    <3>2. CASE isDone'[j] \notin K
      <4>1. j \in 1 .. m /\ k \in 1 .. m /\ isDone[j] = isDone[k]
        BY <3>2
      <4> QED
        BY <4>1 DEF IsInv, IsOnce
    <3> QED
      BY <3>1, <3>2
  <2> QED
    BY <2>1 DEF IsInv, IsOnce
<1>4. \A o : (Waiting(o)' <=> Waiting(o)) /\ (Completed(o)' => Completed(o) \/ o \in K)
  <2> TAKE o
  <2>1. Waiting(o)' <=> Waiting(o)
    BY DEF Waiting
  <2>2. Completed(o)' => Completed(o) \/ o \in K
    BY DEF Completed
  <2> QED
    BY <2>1, <2>2
<1>5. IsApart'
  BY <1>4 DEF IsInv, IsApart
<1> QED
  BY <1>1, <1>3, <1>5, IsCarried

(* The kernel completes an operation, or a cancel and the one it names.    *)
LEMMA IsKernelStep ==
    ASSUME IsInv, (\E o \in IsOps : KernelComplete(o)) \/ (\E c, o \in IsOps : KernelCancel(c, o))
    PROVE  IsInv'
<1>0. isDone \in Seq(IsOps) /\ Len(isDone) \in Nat
  BY DEF IsInv, IsTypes
<1>1. ASSUME NEW o \in IsOps, KernelComplete(o)
      PROVE  IsInv'
  <2>1. /\ UNCHANGED <<isQueue, isBatch, isRing, isRunning, isThread, isLoop, isAwaiter, isSet,
                       isResult, isFreed>>
        /\ {o} \subseteq isKernel /\ isKernel' = isKernel \ {o} /\ isDone' = Append(isDone, o)
    BY <1>1 DEF KernelComplete
  <2>2. /\ isDone' \in Seq(IsOps) /\ Len(isDone') = Len(isDone) + 1
        /\ \A k \in 1 .. Len(isDone) : isDone'[k] = isDone[k]
        /\ isDone'[Len(isDone) + 1] = o
    BY <1>0, <2>1
  <2>3. /\ \A k \in 1 .. Len(isDone') :
             \/ k \in 1 .. Len(isDone) /\ isDone'[k] = isDone[k]
             \/ k > Len(isDone) /\ isDone'[k] \in {o}
        /\ \A j, k \in 1 .. Len(isDone') : j > Len(isDone) /\ k > Len(isDone) => j = k
    BY <1>0, <2>2
  <2> QED
    BY <1>0, <2>1, <2>2, <2>3, IsDoneStep
<1>2. ASSUME NEW c \in IsOps, NEW o \in IsOps, KernelCancel(c, o)
      PROVE  IsInv'
  <2>1. /\ UNCHANGED <<isQueue, isBatch, isRing, isRunning, isThread, isLoop, isAwaiter, isSet,
                       isResult, isFreed>>
        /\ {c, o} \subseteq isKernel /\ isKernel' = isKernel \ {c, o}
        /\ isDone' = isDone \o <<o, c>> /\ c # o
    BY <1>2 DEF KernelCancel
  <2>2. /\ isDone' \in Seq(IsOps) /\ Len(isDone') = Len(isDone) + 2
        /\ \A k \in 1 .. Len(isDone) : isDone'[k] = isDone[k]
        /\ isDone'[Len(isDone) + 1] = o /\ isDone'[Len(isDone) + 2] = c
    BY <1>0, <2>1
  <2>3. /\ \A k \in 1 .. Len(isDone') :
             \/ k \in 1 .. Len(isDone) /\ isDone'[k] = isDone[k]
             \/ k > Len(isDone) /\ isDone'[k] \in {c, o}
        /\ \A j, k \in 1 .. Len(isDone') :
             j > Len(isDone) /\ k > Len(isDone) /\ isDone'[j] = isDone'[k] => j = k
    BY <1>0, <2>1, <2>2
  <2> QED
    BY <1>0, <2>1, <2>2, <2>3, IsDoneStep
<1> QED
  BY <1>1, <1>2

(* loop(): the completion thread takes the first completion.               *)
LEMMA IsResultStep ==
    ASSUME IsInv, LoopResult
    PROVE  IsInv'
<1>0. /\ IsTypes /\ IsEnds /\ IsApart /\ IsOnce /\ IsSettled
      /\ isDone \in Seq(IsOps) /\ isDone # <<>>
      /\ UNCHANGED <<isQueue, isBatch, isRing, isKernel, isRunning, isThread, isAwaiter, isSet,
                     isFreed>>
  BY DEF IsInv, IsTypes, LoopResult
<1>1. PICK x \in IsOps : x = Head(isDone)
  BY <1>0
<1>2. /\ isDone' \in Seq(IsOps) /\ Len(isDone) \in Nat /\ Len(isDone') = Len(isDone) - 1
      /\ \A k \in 1 .. Len(isDone') : isDone'[k] = isDone[k + 1]
      /\ isDone[1] = x /\ Len(isDone) >= 1
  BY <1>0, <1>1 DEF LoopResult
<1>3. /\ isResult' = isResult \cup {x} /\ isLoop.at = "wait" /\ isLoop.op = 0
      /\ isLoop' = [at |-> "handle", op |-> x] /\ isLoop'.at = "handle" /\ isLoop'.op = x
      /\ x # 0 /\ x \in Nat
  BY <1>0, <1>1 DEF LoopResult, IsEnds, IsOps
<1>4. Completed(x)
  BY <1>2 DEF Completed
<1>5. /\ x \notin isResult /\ isAwaiter[x] # "none" /\ ~Waiting(x)
      /\ x \notin isRing /\ x \notin isKernel
  BY <1>0, <1>4 DEF IsApart
<1>6. IsTypes' /\ IsSubmit' /\ IsOrder'
  BY <1>0, <1>2, <1>3 DEF IsInv, IsTypes, IsSubmit, IsOrder, Submitting
<1>7. IsEnds'
  BY <1>0, <1>3 DEF IsEnds
<1>8. IsOnce'
  <2>1. \A j, k \in 1 .. Len(isDone') : isDone'[j] = isDone'[k] => j = k
    <3> TAKE j, k \in 1 .. Len(isDone')
    <3> HAVE isDone'[j] = isDone'[k]
    <3> DEFINE a == j + 1
               b == k + 1
    <3>1. a \in 1 .. Len(isDone) /\ b \in 1 .. Len(isDone) /\ isDone[a] = isDone[b]
      BY <1>2
    <3> HIDE DEF a, b
    <3>2. a = b
      BY <1>0, <3>1 DEF IsOnce
    <3> QED
      BY <3>2 DEF a, b
  <2> QED
    BY <1>0, <2>1 DEF IsOnce
<1>9. ~Completed(x)'
  <2> SUFFICES ASSUME NEW k \in 1 .. Len(isDone'), isDone'[k] = x
               PROVE  FALSE
    BY DEF Completed
  <2> DEFINE b == k + 1
  <2>1. b \in 1 .. Len(isDone) /\ isDone[b] = isDone[1] /\ b # 1 /\ 1 \in 1 .. Len(isDone)
    BY <1>2
  <2> HIDE DEF b
  <2> QED
    BY <1>0, <2>1 DEF IsOnce
<1>10. \A o : (Waiting(o)' <=> Waiting(o)) /\ (Completed(o)' => Completed(o))
  <2> TAKE o
  <2>1. Waiting(o)' <=> Waiting(o)
    BY <1>0 DEF Waiting
  <2>2. ASSUME NEW k \in 1 .. Len(isDone'), isDone'[k] = o
        PROVE  Completed(o)
    <3>1. k + 1 \in 1 .. Len(isDone) /\ isDone[k + 1] = o
      BY <1>2, <2>2
    <3> QED
      BY <3>1 DEF Completed
  <2> QED
    BY <2>1, <2>2 DEF Completed
<1>11. IsApart'
  BY <1>0, <1>3, <1>5, <1>9, <1>10 DEF IsApart
<1>12. IsSettled'
  <2>1. \A o \in IsOps : (Handed(o)' <=> Handed(o)) /\ (Finished(o)' <=> Finished(o))
    BY <1>3, <1>5 DEF Handed, Finished, IsOps
  <2> QED
    BY <1>0, <2>1 DEF IsSettled, Settled
<1> QED
  BY <1>6, <1>7, <1>8, <1>11, <1>12 DEF IsInv

(* Every step of io_service keeps its invariant.                           *)
LEMMA IsInvStep ==
    ASSUME IsInv, IsNext \/ UNCHANGED isVars
    PROVE  IsInv'
<1>1. ASSUME NEW t \in IsThreads,
             \/ \E op \in IoUringOps : (\E linked \in BOOLEAN : Issue(t, op, linked)) \/ Collect(t, op)
             \/ SubmitBatch(t) \/ SubmitStep(t)
      PROVE  IsInv'
  <2>1. CASE \E op \in IoUringOps : (\E linked \in BOOLEAN : Issue(t, op, linked)) \/ Collect(t, op)
    BY <2>1, IsMakeStep
  <2>2. CASE SubmitBatch(t)
    BY <2>2, IsBatchStep
  <2>3. CASE SubmitStep(t)
    BY <2>3, IsEnterStep, IsRingStep, IsQueueStep DEF SubmitStep
  <2> QED
    BY <1>1, <2>1, <2>2, <2>3
<1>2. CASE KernelStep \/ \E o \in IsOps : isKind[o] = "waits" /\ KernelComplete(o)
  BY <1>2, IsKernelStep DEF KernelStep
<1>3. CASE LoopStep
  BY <1>3, IsResultStep, IsLoopStep DEF LoopStep
<1>4. CASE \E o \in IsOps : AwaiterStep(o)
  BY <1>4, IsAwaiterStep
<1>5. CASE UNCHANGED isVars
  <2>1. UNCHANGED <<isQueue, isBatch, isRing, isKernel, isDone, isRunning, isThread, isLoop,
                    isAwaiter, isSet, isResult, isFreed>>
    BY <1>5 DEF isVars
  <2>2. IsApart' /\ IsOnce'
    BY <2>1, IsResting
  <2>3. IsTypes' /\ IsSubmit'
    BY <2>1 DEF IsInv, IsTypes, IsSubmit, Submitting
  <2> QED
    BY <2>1, <2>2, <2>3, IsCarried
<1> QED
  BY <1>1, <1>2, <1>3, <1>4, <1>5 DEF IsNext

(* What the invariant says of the ring, of results and of uring_data.      *)
LEMMA IsSafe ==
    ASSUME IsInv
    PROVE  OneSubmitter /\ ResultHandedOver /\ DataFreedByTheLast
<1>1. OneSubmitter
  <2> DEFINE S == {t \in IsThreads : isThread[t].at \in {"scan", "release"}}
  <2>1. \A t, u \in S : t = u
    BY DEF IsInv, IsSubmit, Submitting
  <2>2. CASE S = {}
    <3>1. Cardinality(S) = 0
      BY <2>2, FS_EmptySet, Zenon
    <3> QED
      BY <3>1 DEF OneSubmitter
  <2>3. CASE S # {}
    <3>1. PICK t : S = {t}
      BY <2>1, <2>3
    <3>2. Cardinality(S) = 1
      BY <3>1, FS_Singleton, Zenon
    <3> QED
      BY <3>2 DEF OneSubmitter
  <2> QED
    BY <2>2, <2>3
<1>2. ResultHandedOver
  BY DEF IsInv, IsEnds, IsSettled, Settled, Handed, ResultHandedOver
<1>3. DataFreedByTheLast
  BY DEF IsInv, IsSettled, Settled, Finished, DataFreedByTheLast
<1> QED
  BY <1>1, <1>2, <1>3

(* io_service starts without operations.                                   *)
LEMMA IsInitial ==
    ASSUME IsInit
    PROVE  IsInv
<1>1. \A o : ~Waiting(o) /\ ~Completed(o)
  BY DEF IsInit, Waiting, Completed
<1>2. IsTypes
  <2>1. Cardinality({}) <= IsEntries
    <3>1. Cardinality({}) = 0
      BY FS_EmptySet, Zenon
    <3> QED
      BY <3>1, IsAssumption
  <2>2. <<>> \in Seq(IsOps) /\ IsIdle \in IsContext
    BY DEF IsIdle, IsContext
  <2> QED
    BY <2>1, <2>2 DEF IsInit, IsTypes, IsContext
<1>3. IsEnds
  BY DEF IsInit, IsEnds
<1>4. IsSubmit
  BY DEF IsInit, IsSubmit, Submitting, IsIdle
<1>5. IsOrder
  <2>1. 0 \in 0 .. IsCount /\ \A o \in IsOps : isAwaiter[o] # "none" <=> o <= 0
    BY IsAssumption DEF IsInit, IsOps
  <2> QED
    BY <2>1 DEF IsOrder
<1>6. IsApart
  BY <1>1 DEF IsInit, IsApart
<1>7. IsOnce
  BY DEF IsInit, IsOnce
<1>8. IsSettled
  BY DEF IsInit, IsSettled, Settled, Handed, Finished
<1> QED
  BY <1>2, <1>3, <1>4, <1>5, <1>6, <1>7, <1>8 DEF IsInv

-----------------------------------------------------------------------------
(* The other parts: their invariants hold at the start and give safety.    *)

(* Nobody awaits the event at the start.                                   *)
LEMMA EvInitial ==
    ASSUME EvInit
    PROVE  EvInv
  BY DEF EvInit, EvInv

(* No coroutine was called yet, and no flag is set.                        *)
LEMMA CpInitial ==
    ASSUME CpInit
    PROVE  CpInv
  BY DEF CpInit, CpInv, CpTypes, CpPlaces, CpFlags, PastHandle, PastCancel, PastDestroy

(* A resumed parent finds its result, and the frame has no user left.      *)
LEMMA CpSafe ==
    ASSUME CpInv
    PROVE  ResumedWhenSuspended /\ ResultBeforeResume /\ FrameOutlivesItsUsers
<1>1. ResumedWhenSuspended
  BY DEF CpInv, CpTypes, ResumedWhenSuspended
<1>2. ResultBeforeResume
  BY DEF CpInv, CpTypes, CpPlaces, CpFlags, PastHandle, ResultBeforeResume
<1>3. FrameOutlivesItsUsers
  BY DEF CpInv, CpTypes, CpFlags, PastDestroy, FrameOutlivesItsUsers
<1> QED
  BY <1>1, <1>2, <1>3

(* All workers start at the top of their loop, with empty queues.          *)
LEMMA CsInitial ==
    ASSUME CsInit
    PROVE  CsInv
<1>1. CsTop \in CsContext /\ CsTop.at = "top"
  BY CsAssumption DEF CsTop, CsContext, CsPlaces
<1>2. CsTypes
  <2>1. <<>> \in Seq(CsTasks)
    OBVIOUS
  <2> QED
    BY <1>1, <2>1 DEF CsInit, CsTypes
<1>3. CsOwn /\ CsExit
  BY <1>1 DEF CsInit, CsOwn, CsExit
<1>4. CsSeen
  BY DEF CsInit, CsSeen
<1> QED
  BY <1>2, <1>3, <1>4 DEF CsInv

-----------------------------------------------------------------------------
(* Whichever part a behaviour exercises, the four invariants hold.         *)
CoroutinesInv == EvInv /\ CpInv /\ CsInv /\ IsInv

(* A step of the samples is a step of one part.                            *)
LEMMA CoroutinesInvStep ==
    ASSUME CoroutinesInv, [Next]_vars
    PROVE  CoroutinesInv'
<1>1. [EvNext]_evVars
  BY DEF Next, vars, WqPart, TqPart, PaPart, CsPart, CpPart, EvPart, IsPart, SlPart, TpPart,
     MpPart, LcPart, UdPart
<1>2. [CpNext]_cpVars
  BY DEF Next, vars, WqPart, TqPart, PaPart, CsPart, CpPart, EvPart, IsPart, SlPart, TpPart,
     MpPart, LcPart, UdPart
<1>3. [CsNext]_csVars
  BY DEF Next, vars, WqPart, TqPart, PaPart, CsPart, CpPart, EvPart, IsPart, SlPart, TpPart,
     MpPart, LcPart, UdPart
<1>4. IsNext \/ UNCHANGED isVars
  BY DEF Next, vars, WqPart, TqPart, PaPart, CsPart, CpPart, EvPart, IsPart, SlPart, TpPart,
     MpPart, LcPart, UdPart
<1> QED
  BY <1>1, <1>2, <1>3, <1>4, EvInvStep, CpInvStep, CsInvStep, IsInvStep DEF CoroutinesInv

(* The coroutine types, the event, the scheduler and io_service of         *)
(* samples/io_service.{h,cc} are safe: a coroutine is resumed once, after  *)
(* it has suspended and with its result in place; no coroutine is queued   *)
(* while all workers sleep and nobody is about to wake one; the submission *)
(* ring has one user; coroutine frames and uring_data are freed once, by   *)
(* the last user.                                                          *)
THEOREM CoroutinesCorrect == Spec => []CoroutinesSafe
<1>1. Init => CoroutinesInv
  BY EvInitial, CpInitial, CsInitial, IsInitial DEF Init, CoroutinesInv
<1>2. CoroutinesInv /\ [Next]_vars => CoroutinesInv'
  BY CoroutinesInvStep
<1>3. CoroutinesInv => CoroutinesSafe
  <2> HAVE CoroutinesInv
  <2>1. QueuedWakesSomeone
    BY CsSafe DEF CoroutinesInv
  <2>2. ResumedWhenSuspended /\ ResultBeforeResume /\ FrameOutlivesItsUsers
    BY CpSafe DEF CoroutinesInv
  <2>3. EventResumesOnce
    BY DEF CoroutinesInv, EvInv, EventResumesOnce
  <2>4. OneSubmitter /\ ResultHandedOver /\ DataFreedByTheLast
    BY IsSafe DEF CoroutinesInv
  <2> QED
    BY <2>1, <2>2, <2>3, <2>4 DEF CoroutinesSafe
<1> QED
  BY <1>1, <1>2, <1>3, PTL DEF Spec

-----------------------------------------------------------------------------
(* Thread pool: a worker is busy while it executes a task, or starts.      *)
TpBusy == {w \in TpWorkers : tpWorker[w].at \in {"run", "finish"}}

TpSteps == {"finish", "test", "notify", "take", "blocked", "run", "exit"}
TpWaits == {"idle", "ready", "blocked", "back", "close", "join", "gone"}

TpTypeOK ==
    /\ tpQueue \in Seq(TpTasks) /\ tpRunning \in Int
    /\ tpWorker \in [TpWorkers -> [at : TpSteps, task : TpTasks \union {"none"}]]
    /\ tpCaller \in [TpCallers -> [at : TpWaits, op : {"wait", "wait_for", "reset", "destroy"}]]
    /\ tpNew \subseteq TpTasks
    /\ tpOwed \in [TpCallers -> SUBSET TpTasks]

(* A task that was submitted is queued, held by a busy worker, or done.    *)
TpNoTaskLost ==
    \A x \in TpTasks \ tpNew : \/ x \in ToSet(tpQueue) \/ x \in tpDone
                               \/ \E w \in TpBusy : tpWorker[w].task = x

(* What a caller waits for was submitted.                                  *)
TpOwedWasSubmitted == \A c \in TpCallers : tpOwed[c] \cap tpNew = {}

TpInv == /\ TpTypeOK /\ TpNoTaskLost /\ TpOwedWasSubmitted
         /\ IsFiniteSet(TpBusy) /\ WaitSeesAllDone

(* Every thread starts busy, and nothing has been submitted.               *)
LEMMA TpInitial == TpInit => TpInv
<1> HAVE TpInit
<1>1. TpTypeOK
  BY TpAssumption, FS_CardinalityType DEF TpInit, TpTypeOK, AllWorkers, TpIdle, TpSteps, TpWaits
<1>2. TpBusy = TpWorkers
  BY DEF TpInit, TpBusy, AllWorkers
<1>3. WaitSeesAllDone
  BY <1>2 DEF TpInit, TpBusy, WaitSeesAllDone, TpIdle
<1>4. TpNoTaskLost /\ TpOwedWasSubmitted
  BY DEF TpInit, TpNoTaskLost, TpOwedWasSubmitted
<1> QED
  BY <1>1, <1>2, <1>3, <1>4, TpAssumption DEF TpInv

(* What is appended to or taken from the queue is added to or gone from    *)
(* the set of its elements.                                                *)
LEMMA ToSetAppend ==
    ASSUME NEW S, NEW q \in Seq(S), NEW x
    PROVE  /\ \A y \in ToSet(q) : y \in ToSet(Append(q, x))
           /\ x \in ToSet(Append(q, x))
<1>1. Len(q) \in Nat /\ DOMAIN q = 1 .. Len(q) /\ DOMAIN Append(q, x) = 1 .. Len(q) + 1
  OBVIOUS
<1>2. Append(q, x)[Len(q) + 1] = x /\ \A i \in 1 .. Len(q) : Append(q, x)[i] = q[i]
  OBVIOUS
<1> QED
  BY <1>1, <1>2 DEF ToSet

(* The first element is the only one that Tail takes away.                 *)
LEMMA ToSetTail ==
    ASSUME NEW S, NEW q \in Seq(S), q # <<>>
    PROVE  /\ Head(q) \in S /\ Tail(q) \in Seq(S)
           /\ \A y \in ToSet(q) : y = Head(q) \/ y \in ToSet(Tail(q))
<1>1. Len(q) \in Nat /\ Len(q) > 0 /\ DOMAIN q = 1 .. Len(q) /\ Head(q) = q[1]
  OBVIOUS
<1>2. Tail(q) \in Seq(S) /\ Len(Tail(q)) = Len(q) - 1 /\ DOMAIN Tail(q) = 1 .. Len(q) - 1
  OBVIOUS
<1>3. \A i \in 1 .. Len(q) - 1 : Tail(q)[i] = q[i + 1]
  OBVIOUS
<1>4. ASSUME NEW y \in ToSet(q), y # Head(q)
      PROVE  y \in ToSet(Tail(q))
  <2>1. PICK i \in 1 .. Len(q) : y = q[i]
    BY <1>1, <1>4 DEF ToSet
  <2>2. i - 1 \in 1 .. Len(q) - 1 /\ y = Tail(q)[i - 1]
    BY <1>1, <1>3, <1>4, <2>1
  <2> QED
    BY <1>2, <2>2 DEF ToSet
<1> QED
  BY <1>1, <1>2, <1>4

(* The steps that leave the workers' tasks and the lists of tasks alone.   *)
LEMMA TpQuietStep ==
    ASSUME TpInv, TpTypeOK', tpRunning' = tpRunning,
           UNCHANGED <<tpNew, tpQueue, tpDone>>,
           \A w \in TpWorkers :
              (tpWorker'[w].at \in {"run", "finish"} <=> tpWorker[w].at \in {"run", "finish"})
              /\ (tpWorker[w].at \in {"run", "finish"} => tpWorker'[w].task = tpWorker[w].task),
           \A c \in TpCallers :
              tpOwed'[c] = tpOwed[c] \/ tpOwed'[c] \cap tpNew = {},
           \A c \in TpCallers : tpCaller'[c].at \in {"back", "close", "join", "gone"} =>
              tpOwed'[c] \subseteq tpDone
    PROVE  TpInv'
<1>1. TpBusy' = TpBusy
  BY DEF TpBusy
<1>2. TpNoTaskLost'
  BY <1>1 DEF TpInv, TpNoTaskLost, TpBusy
<1>3. TpOwedWasSubmitted'
  BY DEF TpInv, TpOwedWasSubmitted
<1>4. WaitSeesAllDone'
  BY <1>1 DEF TpInv, WaitSeesAllDone, TpBusy
<1> QED
  BY <1>1, <1>2, <1>3, <1>4 DEF TpInv

(* A caller comes back, or goes on to stop the workers, only when no worker *)
(* is busy and the queue is empty.                                         *)
LEMMA TpCallerSteps ==
    ASSUME TpInv, NEW c \in TpCallers,
           WaitDone(c) \/ WaitBack(c) \/ WaitTimeout(c) \/ CloseWorkers(c)
           \/ \E op \in {"wait", "wait_for", "reset", "destroy"} : CallWait(c, op)
    PROVE  TpInv'
<1>t. TpTypeOK
  BY DEF TpInv
<1>1. TpTypeOK'
  <2>1. CASE WaitDone(c)
    BY <1>t, <2>1 DEF WaitDone, TpTypeOK, TpWaits
  <2>2. CASE WaitBack(c)
    BY <1>t, <2>2 DEF WaitBack, TpTypeOK, TpWaits, TpIdle
  <2>3. CASE WaitTimeout(c)
    BY <1>t, <2>3 DEF WaitTimeout, TpTypeOK, TpWaits, TpIdle
  <2>4. CASE CloseWorkers(c)
    BY <1>t, <2>4, ZenonT(60) DEF CloseWorkers, TpCallerGo, TpTypeOK, TpWaits, TpSteps
  <2>5. CASE \E op \in {"wait", "wait_for", "reset", "destroy"} : CallWait(c, op)
    BY <1>t, <2>5 DEF CallWait, TpTypeOK, TpWaits, TpIdle
  <2> QED
    BY <2>1, <2>2, <2>3, <2>4, <2>5
<1>2. tpRunning' = tpRunning /\ UNCHANGED <<tpNew, tpQueue, tpDone>>
  BY DEF WaitDone, WaitBack, WaitTimeout, CloseWorkers, CallWait
<1>3. \A w \in TpWorkers :
        (tpWorker'[w].at \in {"run", "finish"} <=> tpWorker[w].at \in {"run", "finish"})
        /\ (tpWorker[w].at \in {"run", "finish"} => tpWorker'[w].task = tpWorker[w].task)
  BY <1>t, SMTT(60) DEF TpTypeOK, WaitDone, WaitBack, WaitTimeout, CloseWorkers, CallWait
<1>4. \A d \in TpCallers : tpOwed'[d] = tpOwed[d] \/ tpOwed'[d] \cap tpNew = {}
  BY <1>t DEF TpTypeOK, WaitDone, WaitBack, WaitTimeout, CloseWorkers, CallWait
<1>5. ASSUME NEW d \in TpCallers, tpCaller'[d].at \in {"back", "close", "join", "gone"}
      PROVE  tpOwed'[d] \subseteq tpDone
  <2>1. CASE WaitDone(c)
    <3>1. CASE d = c /\ tpRunning = 0 /\ tpQueue = <<>>
      <4>1. TpBusy = {}
        BY <3>1, FS_EmptySet DEF TpInv, WaitSeesAllDone, TpBusy
      <4>2. \A x \in TpTasks \ tpNew : x \in tpDone
        BY <3>1, <4>1 DEF TpInv, TpNoTaskLost, ToSet
      <4> QED
        BY <1>t, <2>1, <4>2 DEF TpInv, TpOwedWasSubmitted, TpTypeOK, WaitDone
    <3>2. CASE d = c /\ ~(tpRunning = 0 /\ tpQueue = <<>>)
      BY <1>t, <1>5, <2>1, <3>2 DEF TpTypeOK, WaitDone
    <3>3. CASE d # c
      BY <1>t, <1>5, <2>1, <3>3 DEF TpTypeOK, WaitDone, TpInv, WaitSeesAllDone
    <3> QED
      BY <3>1, <3>2, <3>3
  <2>2. CASE WaitBack(c) \/ WaitTimeout(c)
    BY <1>t, <1>5, <2>2 DEF TpTypeOK, WaitBack, WaitTimeout, TpIdle, TpInv, WaitSeesAllDone
  <2>3. CASE CloseWorkers(c)
    BY <1>t, <1>5, <2>3 DEF TpTypeOK, CloseWorkers, TpCallerGo, TpInv, WaitSeesAllDone
  <2>4. CASE \E op \in {"wait", "wait_for", "reset", "destroy"} : CallWait(c, op)
    BY <1>t, <1>5, <2>4 DEF TpTypeOK, CallWait, TpInv, WaitSeesAllDone
  <2> QED
    BY <2>1, <2>2, <2>3, <2>4
<1> QED
  BY <1>1, <1>2, <1>3, <1>4, <1>5, TpQuietStep

(* The steps that leave the callers alone and complete or add tasks.       *)
LEMMA TpTaskStep ==
    ASSUME TpInv, tpNew' \subseteq tpNew, tpDone \subseteq tpDone',
           UNCHANGED <<tpOwed, tpCaller>>
    PROVE  /\ TpOwedWasSubmitted'
           /\ \A c \in TpCallers : tpCaller'[c].at \in {"back", "close", "join", "gone"} =>
                tpOwed'[c] \subseteq tpDone'
  BY DEF TpInv, TpOwedWasSubmitted, WaitSeesAllDone

(* A task is queued when it is submitted.                                  *)
LEMMA TpDetachStep ==
    ASSUME TpInv, NEW x \in TpTasks, Detach(x)
    PROVE  TpInv'
<1>t. TpTypeOK
  BY DEF TpInv
<1>1. TpTypeOK'
  <2>1. tpQueue' \in Seq(TpTasks)
    BY <1>t DEF Detach, TpTypeOK
  <2>2. tpWorker' \in [TpWorkers -> [at : TpSteps, task : TpTasks \union {"none"}]]
    BY <1>t, SMTT(60) DEF Detach, TpGo, TpTypeOK, TpSteps
  <2> QED
    BY <1>t, <2>1, <2>2 DEF Detach, TpTypeOK
<1>2. /\ tpNew' = tpNew \ {x} /\ tpQueue' = Append(tpQueue, x)
      /\ UNCHANGED <<tpRunning, tpDone, tpOwed, tpCaller>>
  BY DEF Detach
<1>3. \A w \in TpWorkers :
        (tpWorker'[w].at \in {"run", "finish"} <=> tpWorker[w].at \in {"run", "finish"})
        /\ (tpWorker[w].at \in {"run", "finish"} => tpWorker'[w] = tpWorker[w])
  BY <1>t DEF TpTypeOK, Detach, TpGo
<1>4. TpBusy' = TpBusy
  BY <1>3 DEF TpBusy
<1>5. TpNoTaskLost'
  <2>1. \A y \in ToSet(tpQueue) \union {x} : y \in ToSet(tpQueue')
    BY <1>t, <1>2, ToSetAppend DEF TpTypeOK
  <2> QED
    BY <1>2, <1>3, <1>4, <2>1 DEF TpInv, TpNoTaskLost, TpBusy
<1>6. WaitSeesAllDone' /\ TpOwedWasSubmitted'
  BY <1>2, <1>4, TpTaskStep DEF TpInv, WaitSeesAllDone, TpBusy
<1> QED
  BY <1>1, <1>4, <1>5, <1>6 DEF TpInv

(* purge() counts as done what it drops.                                   *)
LEMMA TpPurgeStep ==
    ASSUME TpInv, Purge
    PROVE  TpInv'
<1>1. TpTypeOK'
  BY DEF TpInv, Purge, TpTypeOK
<1>2. /\ UNCHANGED <<tpRunning, tpWorker, tpOwed, tpCaller, tpNew>>
      /\ tpDone' = tpDone \union ToSet(tpQueue)
  BY DEF Purge
<1>3. TpBusy' = TpBusy
  BY <1>2 DEF TpBusy
<1>4. TpNoTaskLost'
  BY <1>2, <1>3 DEF TpInv, TpNoTaskLost
<1>5. WaitSeesAllDone' /\ TpOwedWasSubmitted'
  BY <1>2, <1>3, TpTaskStep DEF TpInv, WaitSeesAllDone, TpBusy
<1> QED
  BY <1>1, <1>3, <1>4, <1>5 DEF TpInv

(* A worker that ends a task is busy no more, and the task is done.        *)
LEMMA TpFinishStep ==
    ASSUME TpInv, NEW w \in TpWorkers, TpFinish(w)
    PROVE  TpInv'
<1>t. TpTypeOK
  BY DEF TpInv
<1>1. TpTypeOK'
  BY <1>t DEF TpFinish, TpGo, TpTypeOK, TpSteps
<1>2. /\ w \in TpBusy /\ TpBusy' = TpBusy \ {w}
      /\ \A u \in TpBusy \ {w} : tpWorker'[u] = tpWorker[u]
  BY <1>t DEF TpFinish, TpGo, TpTypeOK, TpBusy
<1>3. /\ UNCHANGED <<tpQueue, tpOwed, tpCaller, tpNew>> /\ tpRunning' = tpRunning - 1
      /\ tpDone' = tpDone \union ({tpWorker[w].task} \ {"none"})
  BY DEF TpFinish
<1>4. IsFiniteSet(TpBusy') /\ Cardinality(TpBusy') = Cardinality(TpBusy) - 1
  BY <1>2, FS_RemoveElement DEF TpInv
<1>5. TpNoTaskLost'
  BY <1>2, <1>3, TpAssumption DEF TpInv, TpNoTaskLost
<1>6. WaitSeesAllDone' /\ TpOwedWasSubmitted'
  BY <1>3, <1>4, TpTaskStep DEF TpInv, WaitSeesAllDone, TpBusy
<1> QED
  BY <1>1, <1>4, <1>5, <1>6 DEF TpInv

(* A worker that takes a task becomes busy with the head of the queue.     *)
LEMMA TpTakeStep ==
    ASSUME TpInv, NEW w \in TpWorkers, TakeTask(w)
    PROVE  TpInv'
<1>t. TpTypeOK
  BY DEF TpInv
<1>0. UNCHANGED <<tpDone, tpOwed, tpCaller, tpNew>> /\ tpWorker[w].at = "take"
  BY DEF TakeTask
<1>1. CASE tpAlive /\ tpQueue # <<>>
  <2>1. /\ tpQueue' = Tail(tpQueue) /\ tpRunning' = tpRunning + 1
        /\ tpWorker' = [tpWorker EXCEPT ![w] = [at |-> "run", task |-> Head(tpQueue)]]
    BY <1>1 DEF TakeTask, TpGo
  <2>2. /\ Head(tpQueue) \in TpTasks /\ tpQueue' \in Seq(TpTasks)
        /\ \A y \in ToSet(tpQueue) : y = Head(tpQueue) \/ y \in ToSet(tpQueue')
    BY <1>t, <1>1, <2>1, ToSetTail DEF TpTypeOK
  <2>3. TpTypeOK'
    BY <1>t, <1>0, <2>1, <2>2 DEF TpTypeOK, TpSteps
  <2>4. /\ w \notin TpBusy /\ TpBusy' = TpBusy \union {w}
        /\ \A u \in TpBusy : tpWorker'[u] = tpWorker[u]
        /\ tpWorker'[w].task = Head(tpQueue)
    BY <1>t, <1>0, <2>1 DEF TpTypeOK, TpBusy
  <2>5. IsFiniteSet(TpBusy') /\ Cardinality(TpBusy') = Cardinality(TpBusy) + 1
    BY <2>4, FS_AddElement DEF TpInv
  <2>6. TpNoTaskLost'
    BY <1>0, <2>2, <2>4 DEF TpInv, TpNoTaskLost
  <2>7. WaitSeesAllDone' /\ TpOwedWasSubmitted'
    BY <1>0, <2>1, <2>5, TpTaskStep DEF TpInv, WaitSeesAllDone, TpBusy
  <2> QED
    BY <2>3, <2>5, <2>6, <2>7 DEF TpInv
<1>2. CASE ~(tpAlive /\ tpQueue # <<>>)
  <2>1. UNCHANGED <<tpQueue, tpRunning>> /\ TpGo(w, IF tpAlive THEN "blocked" ELSE "exit", "none")
    BY <1>2 DEF TakeTask
  <2>2. TpTypeOK'
    BY <1>t, <1>0, <2>1 DEF TpTypeOK, TpGo, TpSteps
  <2>3. \A u \in TpWorkers :
          (tpWorker'[u].at \in {"run", "finish"} <=> tpWorker[u].at \in {"run", "finish"})
          /\ (tpWorker[u].at \in {"run", "finish"} => tpWorker'[u].task = tpWorker[u].task)
    BY <1>t, <1>0, <2>1 DEF TpTypeOK, TpGo
  <2> QED
    BY <1>0, <2>1, <2>2, <2>3, TpQuietStep DEF TpInv, WaitSeesAllDone
<1> QED
  BY <1>1, <1>2

(* A worker that has not ended its task stays busy with it.                *)
LEMMA TpWorkerSteps ==
    ASSUME TpInv, NEW w \in TpWorkers, TestRunning(w) \/ TestEmpty(w) \/ RunTask(w)
    PROVE  TpInv'
<1>t. TpTypeOK
  BY DEF TpInv
<1>1. TpTypeOK'
  <2>1. CASE TestRunning(w)
    BY <1>t, <2>1 DEF TestRunning, TpGo, TpTypeOK, TpSteps
  <2>2. CASE TestEmpty(w)
    BY <1>t, <2>2 DEF TestEmpty, TpGo, TpTypeOK, TpSteps, TpWaits
  <2>3. CASE RunTask(w)
    BY <1>t, <2>3 DEF RunTask, TpGo, TpTypeOK, TpSteps
  <2> QED
    BY <2>1, <2>2, <2>3
<1>2. UNCHANGED <<tpRunning, tpNew, tpQueue, tpDone, tpOwed>>
  BY DEF TestRunning, TestEmpty, RunTask
<1>3. \A u \in TpWorkers :
        (tpWorker'[u].at \in {"run", "finish"} <=> tpWorker[u].at \in {"run", "finish"})
        /\ (tpWorker[u].at \in {"run", "finish"} => tpWorker'[u].task = tpWorker[u].task)
  BY <1>t DEF TpTypeOK, TestRunning, TestEmpty, RunTask, TpGo
<1>4. \A c \in TpCallers : tpCaller'[c].at \in {"back", "close", "join", "gone"} =>
        tpCaller'[c].at = tpCaller[c].at
  BY <1>t DEF TpTypeOK, TestRunning, TestEmpty, RunTask
<1> QED
  BY <1>1, <1>2, <1>3, <1>4, TpQuietStep DEF TpInv, WaitSeesAllDone

(* The workers that reset() replaces had all ended.                        *)
LEMMA TpJoinStep ==
    ASSUME TpInv, NEW c \in TpCallers, JoinWorkers(c)
    PROVE  TpInv'
<1>t. TpTypeOK
  BY DEF TpInv
<1>0. UNCHANGED <<tpQueue, tpNew, tpDone>> /\ TpBusy = {}
  BY DEF JoinWorkers, TpBusy
<1>1. CASE tpCaller[c].op = "reset"
  <2>1. /\ tpCaller' = [tpCaller EXCEPT ![c] = TpIdle] /\ tpWorker' = AllWorkers("finish")
        /\ tpRunning' = Cardinality(TpWorkers) /\ tpOwed' = [tpOwed EXCEPT ![c] = {}]
    BY <1>1 DEF JoinWorkers
  <2>2. TpTypeOK'
    BY <1>t, <1>0, <2>1, TpAssumption, FS_CardinalityType
       DEF TpTypeOK, AllWorkers, TpIdle, TpSteps, TpWaits
  <2>3. TpBusy' = TpWorkers
    BY <2>1 DEF TpBusy, AllWorkers
  <2>4. TpNoTaskLost'
    BY <1>0 DEF TpInv, TpNoTaskLost
  <2>5. TpOwedWasSubmitted'
    BY <1>t, <1>0, <2>1 DEF TpInv, TpOwedWasSubmitted, TpTypeOK
  <2>6. WaitSeesAllDone'
    BY <1>t, <1>0, <2>1, <2>3 DEF TpInv, WaitSeesAllDone, TpTypeOK, TpBusy, TpIdle
  <2> QED
    BY <2>2, <2>3, <2>4, <2>5, <2>6, TpAssumption DEF TpInv
<1>2. CASE tpCaller[c].op # "reset"
  <2>1. /\ tpCaller[c].at = "join" /\ tpCaller' = [tpCaller EXCEPT ![c].at = "gone"]
        /\ UNCHANGED <<tpRunning, tpWorker, tpOwed>>
    BY <1>2 DEF JoinWorkers, TpCallerGo
  <2>2. TpTypeOK'
    BY <1>t, <1>0, <2>1 DEF TpTypeOK, TpWaits
  <2>3. \A d \in TpCallers : tpCaller'[d].at \in {"back", "close", "join", "gone"} =>
          tpCaller[d].at \in {"back", "close", "join", "gone"}
    BY <1>t, <2>1 DEF TpTypeOK
  <2> QED
    BY <1>0, <2>1, <2>2, <2>3, TpQuietStep DEF TpInv, WaitSeesAllDone
<1> QED
  BY <1>1, <1>2

(* Every step of the pool keeps the tasks together.                        *)
LEMMA TpInvStep ==
    ASSUME TpInv, [TpNext]_tpVars
    PROVE  TpInv'
<1>1. CASE UNCHANGED tpVars
  BY <1>1 DEF tpVars, TpInv, TpTypeOK, TpNoTaskLost, TpOwedWasSubmitted, TpBusy, WaitSeesAllDone
<1> QED
  BY <1>1, TpDetachStep, TpPurgeStep, TpFinishStep, TpTakeStep, TpWorkerSteps, TpCallerSteps,
     TpJoinStep DEF TpNext, TpWorkerStep, TpCallerStep

-----------------------------------------------------------------------------
(* Signals and observers: the calls that change lists.                     *)
SlChanging(t) == slThread[t].op \notin {"idle", "fire"}
SlSymmetric(s, o) == o \in slList[s] <=> s \in slList[o]

(* The steps a call goes through, and what it visits.                      *)
SlShape(r) ==
    /\ r.op = "idle" => r.at = "idle" /\ r.visit = SlNone
    /\ r.op = "fire" => r.at \in {"fire", "each", "call"}
    /\ r.op \in {"connect", "disconnect"} => r.at \in {r.op, "second"}
    /\ r.op \in {"connect", "disconnect"} => r.node \in SlSignals /\ r.arg \in SlObservers
    /\ r.op = "disconnect_all" => r.at \in {"disconnect_all", "unlink", "remove"}
    /\ r.op = "destroy" => r.at \in {"destroy", "disconnect_all", "unlink", "remove"}
    /\ r.op # "idle" => r.node \in SlNodes
    /\ r.visit # SlNone <=> r.at \in {"call", "remove"}

SlCall == [op : {"idle", "fire", "connect", "disconnect", "disconnect_all", "destroy"},
           at : {"idle", "fire", "each", "call", "connect", "disconnect", "second",
                 "disconnect_all", "destroy", "unlink", "remove"},
           node : SlNodes \union {SlNone}, arg : SlNodes \union {SlNone},
           todo : SUBSET SlNodes, visit : SlNodes \union {SlNone}]

SlTypeOK ==
    /\ slList \in [SlNodes -> SUBSET SlNodes]
    /\ \A s \in SlSignals : slList[s] \subseteq SlObservers
    /\ \A o \in SlObservers : slList[o] \subseteq SlSignals
    /\ slState \in [SlNodes -> {"live", "closing", "unlinking", "dead"}]
    /\ slThread \in [SlThreads -> SlCall] /\ \A t \in SlThreads : SlShape(slThread[t])
    /\ slMixed \in BOOLEAN

(* One thread destroys a node, and its state says how far it has come.     *)
SlOneDestroyer ==
    /\ \A t \in SlThreads : slThread[t].op = "destroy" =>
         slState[slThread[t].node] = IF slThread[t].at = "destroy" THEN "closing"
                                     ELSE "unlinking"
    /\ \A t, u \in SlThreads :
         slThread[t].op = "destroy" /\ slThread[u].op = "destroy"
         /\ slThread[t].node = slThread[u].node => t = u

(* Who has been destroyed has an empty list, when calls have not overlapped. *)
SlDeadIsAlone ==
    \A n \in SlNodes : slState[n] # "live" =>
       \/ slState[n] = "dead" /\ slList[n] = {}
       \/ \E t \in SlThreads : slThread[t].op = "destroy" /\ slThread[t].node = n

(* How far the lists are from symmetric while a call changes them.         *)
SlPending(r) ==
    /\ r.at \in {"connect", "disconnect", "disconnect_all", "destroy"} =>
         \A s \in SlSignals, o \in SlObservers : SlSymmetric(s, o)
    /\ r.at = "second" =>
         /\ \A s \in SlSignals, o \in SlObservers :
              (s = r.node /\ o = r.arg) \/ SlSymmetric(s, o)
         /\ r.op = "connect" <=> r.arg \in slList[r.node]
    /\ r.op \in {"connect", "disconnect"} =>
         slState[r.node] = "live" /\ slState[r.arg] = "live"
    /\ r.at \in {"unlink", "remove"} =>
         /\ r.visit \notin r.todo
         /\ \A s \in SlSignals, o \in SlObservers : r.node \in {s, o} \/ SlSymmetric(s, o)
         /\ \A p \in SlNodes : r.node \in slList[p] <=> p \in r.todo \/ p = r.visit

SlOneSignal == \A o \in SlObservers : \A s1, s2 \in slList[o] : s1 = s2

SlUnmixed == ~slMixed =>
    /\ \A t, u \in SlThreads : SlChanging(t) /\ SlChanging(u) => t = u
    /\ SlOneSignal /\ SlDeadIsAlone
    /\ \A t \in SlThreads : SlChanging(t) => SlPending(slThread[t])

SlInv == /\ SlTypeOK /\ SlOneDestroyer /\ VisitedIsAlive
         /\ SlUnmixed /\ ListsSymmetric

(* Nobody is connected and nobody calls.                                   *)
LEMMA SlInitial == SlInit => SlInv
<1> HAVE SlInit
<1>1. SlTypeOK
  BY DEF SlInit, SlTypeOK, SlShape, SlCall, SlIdle, SlNodes
<1>2. \A t \in SlThreads : slThread[t].op = "idle" /\ slThread[t].visit = SlNone
  BY DEF SlInit, SlIdle
<1>3. SlOneDestroyer /\ VisitedIsAlive
  BY <1>2 DEF SlOneDestroyer, VisitedIsAlive
<1>4. \A n \in SlNodes : slList[n] = {} /\ slState[n] = "live"
  BY DEF SlInit
<1>5. ListsSymmetric
  BY <1>4 DEF ListsSymmetric, SlNodes
<1>6. SlUnmixed
  BY <1>2, <1>4 DEF SlUnmixed, SlChanging, SlOneSignal, SlDeadIsAlone, SlNodes
<1> QED
  BY <1>1, <1>3, <1>5, <1>6 DEF SlInv

(* A thread's own step changes its own record.                             *)
LEMMA SlGoStep ==
    ASSUME SlTypeOK, NEW t \in SlThreads, NEW r, SlGo(t, r)
    PROVE  slThread'[t] = r /\ \A u \in SlThreads \ {t} : slThread'[u] = slThread[u]
  BY DEF SlTypeOK, SlGo

(* Types: the lists keep to the other kind of node.                        *)
LEMMA SlTypeKept ==
    ASSUME SlTypeOK, NEW t \in SlThreads, NEW r, SlGo(t, r), r \in SlCall, SlShape(r),
           slList' \in [SlNodes -> SUBSET SlNodes], slMixed' \in BOOLEAN,
           \A s \in SlSignals : slList'[s] \subseteq SlObservers,
           \A o \in SlObservers : slList'[o] \subseteq SlSignals,
           slState' \in [SlNodes -> {"live", "closing", "unlinking", "dead"}]
    PROVE  SlTypeOK'
<1>1. slThread' \in [SlThreads -> SlCall]
  BY DEF SlTypeOK, SlGo
<1>2. \A u \in SlThreads : SlShape(slThread'[u])
  BY SlGoStep DEF SlTypeOK
<1>3. (\A u \in SlThreads : SlShape(slThread[u]))'
  BY <1>2 DEF SlShape
<1> QED
  BY <1>1, <1>3 DEF SlTypeOK

(* The record of a call that begins.                                       *)
SlNewCall(op, n, arg) == [SlIdle EXCEPT !.op = op, !.at = op, !.node = n, !.arg = arg]

(* Its fields.                                                             *)
LEMMA SlBeginRecord ==
    ASSUME NEW op, NEW n, NEW arg
    PROVE  /\ SlNewCall(op, n, arg).op = op /\ SlNewCall(op, n, arg).at = op
           /\ SlNewCall(op, n, arg).node = n /\ SlNewCall(op, n, arg).arg = arg
           /\ SlNewCall(op, n, arg).visit = SlNone
  BY DEF SlNewCall, SlIdle

(* Every call goes through its steps.                                      *)
LEMMA SlTypeBegin ==
    ASSUME SlTypeOK, NEW t \in SlThreads, NEW n \in SlNodes, NEW arg, NEW op,
           \/ op = "fire" /\ n \in SlSignals /\ arg = SlNone
           \/ op \in {"connect", "disconnect"} /\ n \in SlSignals /\ arg \in SlObservers
           \/ op \in {"disconnect_all", "destroy"} /\ arg = SlNone,
           SlBegin(t, op, n, arg)
    PROVE  SlTypeOK'
<1> DEFINE r == SlNewCall(op, n, arg)
<1>1. SlGo(t, r)
  BY DEF SlBegin, SlNewCall
<1>2. r \in SlCall
  BY DEF SlCall, SlNodes, SlNewCall, SlIdle
<1>3. SlShape(r)
  BY SlBeginRecord DEF SlShape
<1>4. slState' \in [SlNodes -> {"live", "closing", "unlinking", "dead"}]
  BY DEF SlBegin, SlTypeOK
<1> HIDE DEF r
<1>5. slList' = slList /\ slMixed' \in BOOLEAN
  BY DEF SlBegin
<1> QED
  BY <1>1, <1>2, <1>3, <1>4, <1>5, SlTypeKept DEF SlTypeOK

(* Every step of a call.                                                   *)
LEMMA SlTypeStep ==
    ASSUME SlTypeOK, NEW t \in SlThreads, SlStep(t)
    PROVE  SlTypeOK'
<1> DEFINE me == slThread[t]
<1>t. /\ me \in SlCall /\ SlShape(me) /\ slList \in [SlNodes -> SUBSET SlNodes]
      /\ \A s \in SlSignals : slList[s] \subseteq SlObservers
      /\ \A o \in SlObservers : slList[o] \subseteq SlSignals
      /\ slState \in [SlNodes -> {"live", "closing", "unlinking", "dead"}]
      /\ slMixed \in BOOLEAN
  BY DEF SlTypeOK
<1>1. CASE CopySlots(t)
  <2> DEFINE r == [me EXCEPT !.at = "each", !.todo = slList[me.node]]
  <2>1. r \in SlCall /\ SlShape(r) /\ SlGo(t, r)
    BY <1>t, <1>1 DEF CopySlots, SlCall, SlShape
  <2> QED
    BY <1>t, <1>1, <2>1, SlTypeKept DEF CopySlots
<1>2. ASSUME NEW n \in SlNodes, Visit(t, n)
      PROVE  SlTypeOK'
  <2> DEFINE r == IF slState[n] # "live" THEN [me EXCEPT !.todo = @ \ {n}]
                   ELSE [me EXCEPT !.todo = @ \ {n}, !.visit = n,
                           !.at = IF me.op = "fire" THEN "call" ELSE "remove"]
  <2>1. r \in SlCall /\ SlGo(t, r)
    BY <1>t, <1>2, ZenonT(60) DEF Visit, SlCall
  <2>2. SlShape(r)
    BY <1>t, <1>2, SlAssumption DEF Visit, SlCall, SlShape, SlNodes, SlNone
  <2> QED
    BY <1>t, <1>2, <2>1, <2>2, SlTypeKept DEF Visit
<1>3. CASE SlotReturns(t)
  <2> DEFINE r == [me EXCEPT !.at = "each", !.visit = SlNone]
  <2>1. r \in SlCall /\ SlShape(r) /\ SlGo(t, r)
    BY <1>t, <1>3 DEF SlotReturns, SlCall, SlShape
  <2> QED
    BY <1>t, <1>3, <2>1, SlTypeKept DEF SlotReturns
<1>i. SlIdle \in SlCall /\ SlShape(SlIdle)
  BY DEF SlIdle, SlCall, SlShape
<1>4. CASE FireEnds(t)
  BY <1>t, <1>i, <1>4, SlTypeKept DEF FireEnds
<1>5. CASE LinkSignal(t)
  <2> DEFINE r == [me EXCEPT !.at = "second"]
  <2>1. /\ r \in SlCall /\ SlShape(r) /\ SlGo(t, r)
        /\ me.node \in SlSignals /\ me.arg \in SlObservers
    BY <1>t, <1>5 DEF LinkSignal, SlCall, SlShape
  <2>2. /\ slList' \in [SlNodes -> SUBSET SlNodes]
        /\ \A s \in SlSignals : slList'[s] \subseteq SlObservers
        /\ \A o \in SlObservers : slList'[o] \subseteq SlSignals
    BY <1>t, <1>5, <2>1, SlAssumption DEF LinkSignal, SlNodes
  <2> QED
    BY <1>t, <1>5, <2>1, <2>2, SlTypeKept DEF LinkSignal
<1>6. CASE LinkObserver(t)
  <2>1. me.node \in SlSignals /\ me.arg \in SlObservers
    BY <1>t, <1>6 DEF LinkObserver, SlCall, SlShape
  <2>2. /\ slList' \in [SlNodes -> SUBSET SlNodes]
        /\ \A s \in SlSignals : slList'[s] \subseteq SlObservers
        /\ \A o \in SlObservers : slList'[o] \subseteq SlSignals
    BY <1>t, <1>6, <2>1, SlAssumption DEF LinkObserver, Removed, SlNodes
  <2>3. slMixed' \in BOOLEAN
    BY <1>6 DEF LinkObserver
  <2> QED
    BY <1>t, <1>i, <1>6, <2>2, <2>3, SlTypeKept DEF LinkObserver
<1>7. CASE AwaitVisitors(t)
  <2> DEFINE r == [me EXCEPT !.at = "disconnect_all"]
  <2>1. r \in SlCall /\ SlShape(r) /\ SlGo(t, r)
    BY <1>t, <1>7 DEF AwaitVisitors, SlCall, SlShape
  <2> QED
    BY <1>t, <1>7, <2>1, SlTypeKept DEF AwaitVisitors
<1>8. CASE LockAll(t)
  <2> DEFINE r == [me EXCEPT !.at = "unlink", !.todo = slList[me.node]]
  <2>1. r \in SlCall /\ SlShape(r) /\ SlGo(t, r)
    BY <1>t, <1>8 DEF LockAll, SlCall, SlShape
  <2> QED
    BY <1>t, <1>8, <2>1, SlTypeKept DEF LockAll
<1>9. CASE RemoveFromPeer(t)
  <2> DEFINE r == [me EXCEPT !.at = "unlink", !.visit = SlNone]
  <2>1. r \in SlCall /\ SlShape(r) /\ SlGo(t, r) /\ me.visit \in SlNodes
    BY <1>t, <1>9 DEF RemoveFromPeer, SlCall, SlShape
  <2>2. /\ slList' \in [SlNodes -> SUBSET SlNodes]
        /\ \A s \in SlSignals : slList'[s] \subseteq SlObservers
        /\ \A o \in SlObservers : slList'[o] \subseteq SlSignals
    BY <1>t, <1>9, <2>1 DEF RemoveFromPeer, Removed, SlNodes
  <2> QED
    BY <1>t, <1>9, <2>1, <2>2, SlTypeKept DEF RemoveFromPeer
<1>10. CASE ClearAll(t)
  <2>1. /\ slList' \in [SlNodes -> SUBSET SlNodes]
        /\ \A s \in SlSignals : slList'[s] \subseteq SlObservers
        /\ \A o \in SlObservers : slList'[o] \subseteq SlSignals
        /\ slState' \in [SlNodes -> {"live", "closing", "unlinking", "dead"}]
    BY <1>t, <1>10 DEF ClearAll, SlNodes
  <2> QED
    BY <1>t, <1>i, <1>10, <2>1, SlTypeKept DEF ClearAll
<1> QED
  BY <1>1, <1>2, <1>3, <1>4, <1>5, <1>6, <1>7, <1>8, <1>9, <1>10 DEF SlStep

(* Steps that change no state: who is visited was visited before or lives. *)
LEMMA SlAliveKept ==
    ASSUME SlTypeOK, SlOneDestroyer, VisitedIsAlive, NEW t \in SlThreads, NEW r, SlGo(t, r),
           slState' = slState,
           r.op = "destroy" => /\ slThread[t].op = "destroy" /\ r.node = slThread[t].node
                               /\ r.at = "destroy" <=> slThread[t].at = "destroy",
           r.visit # SlNone => r.visit = slThread[t].visit \/ slState[r.visit] = "live"
    PROVE  SlOneDestroyer' /\ VisitedIsAlive'
<1>1. slThread'[t] = r /\ \A u \in SlThreads \ {t} : slThread'[u] = slThread[u]
  BY SlGoStep
<1>2. SlOneDestroyer'
  BY <1>1 DEF SlOneDestroyer
<1>3. VisitedIsAlive'
  BY <1>1 DEF VisitedIsAlive
<1> QED
  BY <1>2, <1>3

(* Steps of fire() change no list.                                         *)
LEMMA SlFireKept ==
    ASSUME SlInv, SlTypeOK', NEW t \in SlThreads, NEW r, SlGo(t, r),
           UNCHANGED <<slList, slState, slMixed>>, ~SlChanging(t), r.op \in {"idle", "fire"},
           r.visit # SlNone => r.visit = slThread[t].visit \/ slState[r.visit] = "live"
    PROVE  SlInv'
<1>1. slThread'[t] = r /\ \A u \in SlThreads \ {t} : slThread'[u] = slThread[u]
  BY SlGoStep DEF SlInv
<1>2. SlOneDestroyer' /\ VisitedIsAlive'
  BY SlAliveKept DEF SlInv
<1>3. \A u \in SlThreads : SlChanging(u)' <=> SlChanging(u)
  BY <1>1 DEF SlChanging
<1>4. \A u \in SlThreads : SlChanging(u) => slThread'[u] = slThread[u]
  BY <1>1
<1>5. SlUnmixed'
  <2> SUFFICES ASSUME ~slMixed
               PROVE  /\ \A u, v \in SlThreads : SlChanging(u)' /\ SlChanging(v)' => u = v
                      /\ SlOneSignal' /\ SlDeadIsAlone'
                      /\ \A u \in SlThreads : SlChanging(u)' => SlPending(slThread[u])'
    BY DEF SlUnmixed
  <2>1. \A u, v \in SlThreads : SlChanging(u)' /\ SlChanging(v)' => u = v
    BY <1>3 DEF SlInv, SlUnmixed
  <2>2. SlOneSignal'
    BY DEF SlInv, SlUnmixed, SlOneSignal
  <2>3. SlDeadIsAlone'
    BY <1>1, <1>4 DEF SlInv, SlUnmixed, SlDeadIsAlone, SlChanging
  <2>4. ASSUME NEW u \in SlThreads, SlChanging(u)'
        PROVE  SlPending(slThread[u])'
    <3>1. SlPending(slThread[u]) /\ slThread'[u] = slThread[u]
      BY <1>3, <1>4, <2>4 DEF SlInv, SlUnmixed
    <3> QED
      BY <3>1 DEF SlPending, SlSymmetric
  <2> QED
    BY <2>1, <2>2, <2>3, <2>4
<1>6. ListsSymmetric'
  BY <1>3 DEF SlInv, ListsSymmetric, SlChanging
<1> QED
  BY <1>2, <1>5, <1>6 DEF SlInv

(* Steps of a call that changes lists: while calls do not overlap, it is   *)
(* the only one.                                                           *)
LEMMA SlChangeKept ==
    ASSUME SlInv, SlTypeOK', NEW t \in SlThreads, NEW r, SlGo(t, r),
           ~slMixed' => /\ ~slMixed /\ \A u \in SlThreads \ {t} : ~SlChanging(u)
                        /\ SlOneSignal' /\ SlDeadIsAlone'
                        /\ SlChanging(t)' => SlPending(slThread[t])'
                        /\ r.op \in {"idle", "fire"} =>
                             \A s \in SlSignals, o \in SlObservers : SlSymmetric(s, o)',
           r.op \notin {"idle", "fire"} \/ slThread[t].op \notin {"idle", "fire"}
    PROVE  SlUnmixed' /\ ListsSymmetric'
<1>1. slThread'[t] = r /\ \A u \in SlThreads \ {t} : slThread'[u] = slThread[u]
  BY SlGoStep DEF SlInv
<1>2. \A u \in SlThreads \ {t} : SlChanging(u)' <=> SlChanging(u)
  BY <1>1 DEF SlChanging
<1>3. SlUnmixed'
  BY <1>2 DEF SlUnmixed
<1>4. ListsSymmetric'
  <2> SUFFICES ASSUME ~slMixed', \A u \in SlThreads : slThread'[u].op \in {"idle", "fire"},
                      NEW s \in SlSignals, NEW o \in SlObservers
               PROVE  SlSymmetric(s, o)'
    BY DEF ListsSymmetric, SlSymmetric
  <2> QED
    BY <1>1
<1> QED
  BY <1>3, <1>4

(* The steps of fire().                                                    *)
LEMMA SlFireSteps ==
    ASSUME SlInv, NEW t \in SlThreads, SlTypeOK',
           \/ CopySlots(t) \/ SlotReturns(t) \/ FireEnds(t)
           \/ \E n \in SlNodes : Visit(t, n) /\ slThread[t].op = "fire"
           \/ \E s \in SlSignals : SlBegin(t, "fire", s, SlNone)
    PROVE  SlInv'
<1> DEFINE me == slThread[t]
<1>t. me \in SlCall /\ SlShape(me)
  BY DEF SlInv, SlTypeOK
<1>1. CASE CopySlots(t)
  <2> DEFINE r == [me EXCEPT !.at = "each", !.todo = slList[me.node]]
  <2>1. me.op = "fire" /\ r.op = me.op /\ r.visit = me.visit
    BY <1>t, <1>1 DEF CopySlots, SlShape, SlCall
  <2>2. SlGo(t, r) /\ UNCHANGED <<slList, slState, slMixed>>
    BY <1>1 DEF CopySlots
  <2> HIDE DEF r
  <2> QED
    BY <2>1, <2>2, SlFireKept DEF SlChanging
<1>2. CASE SlotReturns(t)
  <2> DEFINE r == [me EXCEPT !.at = "each", !.visit = SlNone]
  <2>1. me.op = "fire" /\ r.op = me.op /\ r.visit = SlNone
    BY <1>t, <1>2 DEF SlotReturns, SlShape, SlCall
  <2>2. SlGo(t, r) /\ UNCHANGED <<slList, slState, slMixed>>
    BY <1>2 DEF SlotReturns
  <2> HIDE DEF r
  <2> QED
    BY <2>1, <2>2, SlFireKept DEF SlChanging
<1>3. CASE FireEnds(t)
  <2>1. me.op = "fire" /\ SlIdle.op = "idle" /\ SlIdle.visit = SlNone
    BY <1>t, <1>3 DEF FireEnds, SlShape, SlCall, SlIdle
  <2>2. SlGo(t, SlIdle) /\ UNCHANGED <<slList, slState, slMixed>>
    BY <1>3 DEF FireEnds
  <2> QED
    BY <2>1, <2>2, SlFireKept DEF SlChanging
<1>4. ASSUME NEW n \in SlNodes, Visit(t, n), me.op = "fire"
      PROVE  SlInv'
  <2> DEFINE r == IF slState[n] # "live" THEN [me EXCEPT !.todo = @ \ {n}]
                   ELSE [me EXCEPT !.todo = @ \ {n}, !.visit = n,
                           !.at = IF me.op = "fire" THEN "call" ELSE "remove"]
  <2>1. r.op = me.op /\ (r.visit = me.visit \/ slState[r.visit] = "live")
    BY <1>t DEF SlCall
  <2>2. UNCHANGED <<slList, slState, slMixed>>
    BY <1>4, Zenon DEF Visit
  <2>3. SlGo(t, r)
    BY <1>4, Zenon DEF Visit
  <2> HIDE DEF r
  <2> QED
    BY <1>4, <2>1, <2>2, <2>3, SlFireKept DEF SlChanging
<1>5. ASSUME NEW s \in SlSignals, SlBegin(t, "fire", s, SlNone)
      PROVE  SlInv'
  <2> DEFINE r == SlNewCall("fire", s, SlNone)
  <2>1. r.op = "fire" /\ r.visit = SlNone
    BY SlBeginRecord
  <2>2. me.op = "idle"
    <3>1. me = SlIdle
      BY <1>5, Zenon DEF SlBegin
    <3> QED
      BY <3>1 DEF SlIdle
  <2>3. SlGo(t, r)
    BY <1>5, Zenon DEF SlBegin, SlNewCall
  <2>4. UNCHANGED <<slList, slState>>
    BY <1>5, Zenon DEF SlBegin
  <2>5. slMixed' = slMixed
    BY <1>5, Zenon DEF SlBegin, SlInv, SlTypeOK
  <2> HIDE DEF r
  <2> QED
    BY <2>1, <2>2, <2>3, <2>4, <2>5, SlFireKept DEF SlChanging
<1> QED
  BY <1>1, <1>2, <1>3, <1>4, <1>5

(* A call begins that may change lists.                                    *)
LEMMA SlBeginChange ==
    ASSUME SlInv, NEW t \in SlThreads, SlTypeOK', NEW n \in SlNodes,
           NEW op \in {"connect", "disconnect", "disconnect_all", "destroy"},
           NEW arg, op \in {"connect", "disconnect"} => n \in SlSignals /\ arg \in SlObservers,
           SlBegin(t, op, n, arg)
    PROVE  SlInv'
<1> DEFINE r == SlNewCall(op, n, arg)
<1>1. /\ SlGo(t, r) /\ slThread[t] = SlIdle /\ slList' = slList
      /\ slState' = IF op = "destroy" THEN [slState EXCEPT ![n] = "closing"] ELSE slState
      /\ \A m \in {n, arg} \ {SlNone} : slState[m] = "live"
  BY Zenon DEF SlBegin, SlNewCall
<1>2. slMixed' = (slMixed \/ (op # "fire" /\ \E u \in SlThreads :
                                 slThread[u].op \notin {"idle", "fire"}))
  BY Zenon DEF SlBegin
<1>3. r.op = op /\ r.at = op /\ r.node = n /\ r.arg = arg /\ r.visit = SlNone
  BY SlBeginRecord
<1> HIDE DEF r
<1>4. slThread'[t] = r /\ \A u \in SlThreads \ {t} : slThread'[u] = slThread[u]
  BY <1>1, SlGoStep DEF SlInv
<1>5. slState[n] = "live" /\ (op \in {"connect", "disconnect"} => slState[arg] = "live")
  BY <1>1, SlAssumption DEF SlNodes, SlNone
<1>6. slState \in [SlNodes -> {"live", "closing", "unlinking", "dead"}]
  BY DEF SlInv, SlTypeOK
<1>7. /\ \A m \in SlNodes \ {n} : slState'[m] = slState[m]
      /\ slState'[n] = IF op = "destroy" THEN "closing" ELSE "live"
  BY <1>1, <1>5, <1>6
<1>8. slThread[t].op = "idle"
  BY <1>1 DEF SlIdle
<1>9. SlOneDestroyer'
  <2>1. \A u \in SlThreads \ {t} : slThread[u].op = "destroy" =>
          slThread[u].node \in SlNodes /\ slThread[u].node # n
    BY <1>5 DEF SlInv, SlOneDestroyer, SlTypeOK, SlShape
  <2> QED
    BY <1>3, <1>4, <1>7, <2>1 DEF SlInv, SlOneDestroyer
<1>10. VisitedIsAlive'
  <2>1. \A u \in SlThreads : slThread[u].visit \in SlNodes \union {SlNone}
    BY DEF SlInv, SlTypeOK, SlCall
  <2> QED
    BY <1>3, <1>4, <1>7, <2>1 DEF SlInv, VisitedIsAlive
<1>11. ASSUME ~slMixed'
       PROVE  /\ ~slMixed /\ \A u \in SlThreads \ {t} : ~SlChanging(u)
              /\ SlOneSignal' /\ SlDeadIsAlone'
              /\ SlChanging(t)' => SlPending(slThread[t])'
  <2>1. ~slMixed /\ \A u \in SlThreads : slThread[u].op \in {"idle", "fire"}
    BY <1>2, <1>11
  <2>2. \A s \in SlSignals, o \in SlObservers : SlSymmetric(s, o)
    BY <2>1 DEF SlInv, ListsSymmetric, SlSymmetric
  <2>3. SlOneSignal'
    BY <1>1, <2>1 DEF SlInv, SlUnmixed, SlOneSignal
  <2>4. SlDeadIsAlone'
    <3> SUFFICES ASSUME NEW m \in SlNodes, slState'[m] # "live"
                 PROVE  \/ slState'[m] = "dead" /\ slList'[m] = {}
                        \/ \E u \in SlThreads : slThread'[u].op = "destroy" /\ slThread'[u].node = m
      BY DEF SlDeadIsAlone
    <3>1. CASE m = n
      BY <1>3, <1>4, <1>7, <3>1
    <3>2. CASE m # n
      BY <1>1, <1>4, <1>7, <1>8, <2>1, <3>2 DEF SlInv, SlUnmixed, SlDeadIsAlone
    <3> QED
      BY <3>1, <3>2
  <2>5. SlPending(slThread[t])'
    BY <1>1, <1>3, <1>4, <1>5, <1>7, <2>2 DEF SlPending, SlSymmetric
  <2> QED
    BY <2>1, <2>3, <2>4, <2>5 DEF SlChanging
<1>12. SlUnmixed' /\ ListsSymmetric'
  <2>1. r.op \notin {"idle", "fire"}
    BY <1>3
  <2> QED
    BY <1>1, <1>11, <2>1, SlChangeKept
<1> QED
  BY <1>9, <1>10, <1>12 DEF SlInv

(* connect() or disconnect() changes the signal's list first.              *)
LEMMA SlLinkSignal ==
    ASSUME SlInv, NEW t \in SlThreads, SlTypeOK', LinkSignal(t)
    PROVE  SlInv'
<1> DEFINE me == slThread[t]
           r == [me EXCEPT !.at = "second"]
<1>t. me \in SlCall /\ SlShape(me) /\ slList \in [SlNodes -> SUBSET SlNodes]
  BY DEF SlInv, SlTypeOK
<1>1. /\ SlGo(t, r) /\ slState' = slState /\ slMixed' = slMixed
      /\ slList' = [slList EXCEPT ![me.node] =
                     IF me.op = "connect" THEN @ \union {me.arg} ELSE @ \ {me.arg}]
      /\ me.at \in {"connect", "disconnect"}
  BY Zenon DEF LinkSignal
<1>2. me.op \in {"connect", "disconnect"} /\ me.node \in SlSignals /\ me.arg \in SlObservers
  BY <1>t, <1>1 DEF SlShape, SlCall
<1>3. /\ r.op = me.op /\ r.at = "second" /\ r.node = me.node /\ r.arg = me.arg
      /\ r.visit = me.visit
  BY <1>t DEF SlCall
<1> HIDE DEF r
<1>4. slThread'[t] = r /\ \A u \in SlThreads \ {t} : slThread'[u] = slThread[u]
  BY <1>1, SlGoStep DEF SlInv
<1>5. SlOneDestroyer' /\ VisitedIsAlive'
  BY <1>1, <1>2, <1>3, SlAliveKept DEF SlInv
<1>6. /\ \A m \in SlNodes \ {me.node} : slList'[m] = slList[m]
      /\ slList'[me.node] = IF me.op = "connect" THEN slList[me.node] \union {me.arg}
                            ELSE slList[me.node] \ {me.arg}
  BY <1>t, <1>1, <1>2 DEF SlNodes
<1>7. ASSUME ~slMixed'
      PROVE  /\ ~slMixed /\ \A u \in SlThreads \ {t} : ~SlChanging(u)
             /\ SlOneSignal' /\ SlDeadIsAlone'
             /\ SlChanging(t)' => SlPending(slThread[t])'
  <2>1. /\ ~slMixed /\ \A u \in SlThreads \ {t} : ~SlChanging(u)
        /\ SlPending(me) /\ SlOneSignal /\ SlDeadIsAlone
    BY <1>1, <1>2, <1>7 DEF SlInv, SlUnmixed, SlChanging
  <2>2. SlOneSignal'
    BY <1>2, <1>6, <2>1, SlAssumption DEF SlOneSignal, SlNodes
  <2>3. SlDeadIsAlone'
    <3> SUFFICES ASSUME NEW m \in SlNodes, slState'[m] # "live"
                 PROVE  \/ slState'[m] = "dead" /\ slList'[m] = {}
                        \/ \E u \in SlThreads : slThread'[u].op = "destroy" /\ slThread'[u].node = m
      BY DEF SlDeadIsAlone
    <3>1. m # me.node
      BY <1>1, <1>2, <2>1 DEF SlPending
    <3> QED
      BY <1>1, <1>2, <1>4, <1>6, <2>1, <3>1 DEF SlDeadIsAlone
  <2>4. \A s \in SlSignals, o \in SlObservers : SlSymmetric(s, o)
    BY <1>1, <2>1 DEF SlPending
  <2>5. \A s \in SlSignals, o \in SlObservers :
           (s = me.node /\ o = me.arg) \/ SlSymmetric(s, o)'
    BY <1>2, <1>6, <2>4, SlAssumption DEF SlSymmetric, SlNodes
  <2>6. slState[me.node] = "live" /\ slState[me.arg] = "live"
    BY <1>2, <2>1 DEF SlPending
  <2>7. me.op = "connect" <=> me.arg \in slList'[me.node]
    BY <1>2, <1>6
  <2>8. SlPending(slThread[t])'
    BY <1>1, <1>2, <1>3, <1>4, <2>5, <2>6, <2>7 DEF SlPending
  <2> QED
    BY <2>1, <2>2, <2>3, <2>8
<1>8. SlUnmixed' /\ ListsSymmetric'
  <2>1. r.op \notin {"idle", "fire"}
    BY <1>2, <1>3
  <2> QED
    BY <1>1, <1>7, <2>1, SlChangeKept
<1> QED
  BY <1>5, <1>8 DEF SlInv

(* ... then the observer's, and the call ends.                             *)
LEMMA SlLinkObserver ==
    ASSUME SlInv, NEW t \in SlThreads, SlTypeOK', LinkObserver(t)
    PROVE  SlInv'
<1> DEFINE me == slThread[t]
<1>t. me \in SlCall /\ SlShape(me) /\ slList \in [SlNodes -> SUBSET SlNodes]
  BY DEF SlInv, SlTypeOK
<1>1. /\ SlGo(t, SlIdle) /\ slState' = slState
      /\ slMixed' = (slMixed \/ slList[me.arg] \ {me.node} # {})
      /\ slList' = [slList EXCEPT ![me.arg] =
                        IF me.op = "connect" THEN @ \union {me.node}
                        ELSE Removed(me.arg, me.arg)]
      /\ me.at = "second"
  BY Zenon DEF LinkObserver
<1>2. me.op \in {"connect", "disconnect"} /\ me.node \in SlSignals /\ me.arg \in SlObservers
  BY <1>t, <1>1 DEF SlShape, SlCall
<1>3. SlIdle.op = "idle" /\ SlIdle.visit = SlNone
  BY DEF SlIdle
<1>4. slThread'[t] = SlIdle /\ \A u \in SlThreads \ {t} : slThread'[u] = slThread[u]
  BY <1>1, SlGoStep DEF SlInv
<1>5. SlOneDestroyer' /\ VisitedIsAlive'
  BY <1>1, <1>2, <1>3, SlAliveKept DEF SlInv
<1>6. /\ \A m \in SlNodes \ {me.arg} : slList'[m] = slList[m]
      /\ slList'[me.arg] = IF me.op = "connect" THEN slList[me.arg] \union {me.node} ELSE {}
  BY <1>t, <1>1, <1>2, SlAssumption DEF SlNodes, Removed
<1>7. ASSUME ~slMixed'
      PROVE  /\ ~slMixed /\ \A u \in SlThreads \ {t} : ~SlChanging(u)
             /\ SlOneSignal' /\ SlDeadIsAlone'
             /\ \A s \in SlSignals, o \in SlObservers : SlSymmetric(s, o)'
  <2>1. /\ ~slMixed /\ \A u \in SlThreads \ {t} : ~SlChanging(u)
        /\ SlPending(me) /\ SlOneSignal /\ SlDeadIsAlone
        /\ \A s \in slList[me.arg] : s = me.node
    BY <1>1, <1>2, <1>7 DEF SlInv, SlUnmixed, SlChanging
  <2>2. SlOneSignal'
    BY <1>2, <1>6, <2>1, SlAssumption DEF SlOneSignal, SlNodes
  <2>3. SlDeadIsAlone'
    <3> SUFFICES ASSUME NEW m \in SlNodes, slState'[m] # "live"
                 PROVE  \/ slState'[m] = "dead" /\ slList'[m] = {}
                        \/ \E u \in SlThreads : slThread'[u].op = "destroy" /\ slThread'[u].node = m
      BY DEF SlDeadIsAlone
    <3>1. m # me.arg
      BY <1>1, <1>2, <2>1 DEF SlPending
    <3> QED
      BY <1>1, <1>2, <1>4, <1>6, <2>1, <3>1 DEF SlDeadIsAlone
  <2>4. \A s \in SlSignals, o \in SlObservers :
           (s = me.node /\ o = me.arg) \/ SlSymmetric(s, o)
    BY <1>1, <2>1 DEF SlPending
  <2>5. me.op = "connect" <=> me.arg \in slList[me.node]
    BY <1>1, <2>1 DEF SlPending
  <2>6. ASSUME NEW s \in SlSignals, NEW o \in SlObservers
        PROVE  SlSymmetric(s, o)'
    <3>1. slList'[s] = slList[s]
      BY <1>2, <1>6, SlAssumption DEF SlNodes
    <3>2. CASE o # me.arg
      BY <1>6, <2>4, <3>1, <3>2 DEF SlSymmetric, SlNodes
    <3>3. CASE o = me.arg /\ s = me.node
      BY <1>2, <1>6, <2>5, <3>1, <3>3 DEF SlSymmetric
    <3>4. CASE o = me.arg /\ s # me.node
      BY <1>2, <1>6, <2>1, <2>4, <3>1, <3>4 DEF SlSymmetric
    <3> QED
      BY <3>2, <3>3, <3>4
  <2> QED
    BY <2>1, <2>2, <2>3, <2>6
<1>8. SlUnmixed' /\ ListsSymmetric'
  <2>1. ~SlChanging(t)'
    BY <1>3, <1>4 DEF SlChanging
  <2> QED
    BY <1>1, <1>2, <1>3, <1>7, <2>1, SlChangeKept
<1> QED
  BY <1>5, <1>8 DEF SlInv

(* ~Observer() goes on when nobody visits.                                 *)
LEMMA SlAwaitVisitors ==
    ASSUME SlInv, NEW t \in SlThreads, SlTypeOK', AwaitVisitors(t)
    PROVE  SlInv'
<1> DEFINE me == slThread[t]
           r == [me EXCEPT !.at = "disconnect_all"]
<1>t. /\ me \in SlCall /\ SlShape(me)
      /\ slState \in [SlNodes -> {"live", "closing", "unlinking", "dead"}]
  BY DEF SlInv, SlTypeOK
<1>1. /\ SlGo(t, r) /\ slList' = slList /\ slMixed' = slMixed /\ me.at = "destroy"
      /\ slState' = [slState EXCEPT ![me.node] = "unlinking"] /\ ~SlVisited(me.node)
  BY Zenon DEF AwaitVisitors
<1>2. me.op = "destroy" /\ me.node \in SlNodes /\ me.visit = SlNone
  BY <1>t, <1>1 DEF SlShape, SlCall
<1>3. /\ r.op = "destroy" /\ r.at = "disconnect_all" /\ r.node = me.node
      /\ r.visit = SlNone /\ r.todo = me.todo
  BY <1>t, <1>2 DEF SlCall
<1> HIDE DEF r
<1>4. slThread'[t] = r /\ \A u \in SlThreads \ {t} : slThread'[u] = slThread[u]
  BY <1>1, SlGoStep DEF SlInv
<1>5. /\ \A m \in SlNodes \ {me.node} : slState'[m] = slState[m]
      /\ slState'[me.node] = "unlinking"
  BY <1>t, <1>1, <1>2
<1>6. SlOneDestroyer'
  <2>1. \A u \in SlThreads \ {t} : slThread[u].op = "destroy" =>
          slThread[u].node \in SlNodes /\ slThread[u].node # me.node
    BY <1>2 DEF SlInv, SlOneDestroyer, SlTypeOK, SlShape
  <2> QED
    BY <1>3, <1>4, <1>5, <2>1 DEF SlInv, SlOneDestroyer
<1>7. VisitedIsAlive'
  <2>1. \A u \in SlThreads : /\ slThread[u].visit \in SlNodes \union {SlNone}
                             /\ slThread[u].visit # me.node
    BY <1>1 DEF SlInv, SlTypeOK, SlCall, SlVisited
  <2> QED
    BY <1>3, <1>4, <1>5, <2>1 DEF SlInv, VisitedIsAlive
<1>8. ASSUME ~slMixed'
      PROVE  /\ ~slMixed /\ \A u \in SlThreads \ {t} : ~SlChanging(u)
             /\ SlOneSignal' /\ SlDeadIsAlone'
             /\ SlChanging(t)' => SlPending(slThread[t])'
  <2>1. /\ ~slMixed /\ \A u \in SlThreads \ {t} : ~SlChanging(u)
        /\ SlPending(me) /\ SlOneSignal /\ SlDeadIsAlone
    BY <1>1, <1>2, <1>8 DEF SlInv, SlUnmixed, SlChanging
  <2>2. SlOneSignal'
    BY <1>1, <2>1 DEF SlOneSignal
  <2>3. SlDeadIsAlone'
    BY <1>1, <1>2, <1>3, <1>4, <1>5, <2>1 DEF SlDeadIsAlone
  <2>4. SlPending(slThread[t])'
    BY <1>1, <1>3, <1>4, <2>1 DEF SlPending, SlSymmetric
  <2> QED
    BY <2>1, <2>2, <2>3, <2>4
<1>9. SlUnmixed' /\ ListsSymmetric'
  BY <1>1, <1>3, <1>8, SlChangeKept
<1> QED
  BY <1>6, <1>7, <1>9 DEF SlInv

(* disconnect_all() reads the list it will go through.                     *)
LEMMA SlLockAll ==
    ASSUME SlInv, NEW t \in SlThreads, SlTypeOK', LockAll(t)
    PROVE  SlInv'
<1> DEFINE me == slThread[t]
           r == [me EXCEPT !.at = "unlink", !.todo = slList[me.node]]
<1>t. /\ me \in SlCall /\ SlShape(me) /\ slList \in [SlNodes -> SUBSET SlNodes]
      /\ \A s \in SlSignals : slList[s] \subseteq SlObservers
      /\ \A o \in SlObservers : slList[o] \subseteq SlSignals
  BY DEF SlInv, SlTypeOK
<1>1. /\ SlGo(t, r) /\ slList' = slList /\ slMixed' = slMixed /\ slState' = slState
      /\ me.at = "disconnect_all"
  BY Zenon DEF LockAll
<1>2. me.op \in {"disconnect_all", "destroy"} /\ me.node \in SlNodes /\ me.visit = SlNone
  BY <1>t, <1>1 DEF SlShape, SlCall
<1>3. /\ r.op = me.op /\ r.at = "unlink" /\ r.node = me.node
      /\ r.visit = SlNone /\ r.todo = slList[me.node]
  BY <1>t, <1>2 DEF SlCall
<1> HIDE DEF r
<1>4. slThread'[t] = r /\ \A u \in SlThreads \ {t} : slThread'[u] = slThread[u]
  BY <1>1, SlGoStep DEF SlInv
<1>5. SlOneDestroyer' /\ VisitedIsAlive'
  BY <1>1, <1>2, <1>3, SlAliveKept DEF SlInv
<1>6. ASSUME ~slMixed'
      PROVE  /\ ~slMixed /\ \A u \in SlThreads \ {t} : ~SlChanging(u)
             /\ SlOneSignal' /\ SlDeadIsAlone'
             /\ SlChanging(t)' => SlPending(slThread[t])'
  <2>1. /\ ~slMixed /\ \A u \in SlThreads \ {t} : ~SlChanging(u)
        /\ SlPending(me) /\ SlOneSignal /\ SlDeadIsAlone
    BY <1>1, <1>2, <1>6 DEF SlInv, SlUnmixed, SlChanging
  <2>2. SlOneSignal'
    BY <1>1, <2>1 DEF SlOneSignal
  <2>3. SlDeadIsAlone'
    <3>1. \A u \in SlThreads : slThread'[u].op = slThread[u].op
                               /\ slThread'[u].node = slThread[u].node
      BY <1>3, <1>4
    <3> QED
      BY <1>1, <2>1, <3>1 DEF SlDeadIsAlone
  <2>4. \A s \in SlSignals, o \in SlObservers : SlSymmetric(s, o)
    BY <1>1, <2>1 DEF SlPending
  <2>5. \A p \in SlNodes : me.node \in slList[p] <=> p \in slList[me.node]
    BY <1>t, <1>2, <2>4, SlAssumption DEF SlSymmetric, SlNodes
  <2>6. SlNone \notin SlNodes
    BY SlAssumption DEF SlNodes, SlNone
  <2>7. r.visit \notin r.todo
    BY <1>t, <1>2, <1>3, <2>6
  <2>8. SlPending(slThread[t])'
    BY <1>1, <1>2, <1>3, <1>4, <2>4, <2>5, <2>6, <2>7 DEF SlPending, SlSymmetric
  <2> QED
    BY <2>1, <2>2, <2>3, <2>8
<1>7. SlUnmixed' /\ ListsSymmetric'
  BY <1>1, <1>2, <1>3, <1>6, SlChangeKept
<1> QED
  BY <1>5, <1>7 DEF SlInv

(* The peers in the list live, unless calls have overlapped; none is       *)
(* skipped.                                                                *)
LEMMA SlVisitPeer ==
    ASSUME SlInv, NEW t \in SlThreads, SlTypeOK', NEW n \in SlNodes, Visit(t, n),
           slThread[t].op # "fire"
    PROVE  SlInv'
<1> DEFINE me == slThread[t]
           r == IF slState[n] # "live" THEN [me EXCEPT !.todo = @ \ {n}]
                ELSE [me EXCEPT !.todo = @ \ {n}, !.visit = n,
                        !.at = IF me.op = "fire" THEN "call" ELSE "remove"]
<1>t. /\ me \in SlCall /\ SlShape(me) /\ slList \in [SlNodes -> SUBSET SlNodes]
      /\ \A s \in SlSignals : slList[s] \subseteq SlObservers
      /\ \A o \in SlObservers : slList[o] \subseteq SlSignals
  BY DEF SlInv, SlTypeOK
<1>1. /\ SlGo(t, r) /\ slList' = slList /\ slMixed' = slMixed /\ slState' = slState
      /\ me.at \in {"each", "unlink"} /\ n \in me.todo
  BY Zenon DEF Visit
<1>2. /\ me.op \in {"disconnect_all", "destroy"} /\ me.node \in SlNodes /\ me.visit = SlNone
      /\ me.at = "unlink"
  BY <1>t, <1>1 DEF SlShape, SlCall
<1>3. /\ r.op = me.op /\ r.node = me.node /\ r.todo = me.todo \ {n}
      /\ slState[n] = "live" => r.at = "remove" /\ r.visit = n
      /\ slState[n] # "live" => r.at = "unlink" /\ r.visit = SlNone
  BY <1>t, <1>2 DEF SlCall
<1> HIDE DEF r
<1>4. slThread'[t] = r /\ \A u \in SlThreads \ {t} : slThread'[u] = slThread[u]
  BY <1>1, SlGoStep DEF SlInv
<1>5. SlOneDestroyer' /\ VisitedIsAlive'
  BY <1>1, <1>2, <1>3, SlAliveKept DEF SlInv
<1>6. ASSUME ~slMixed'
      PROVE  /\ ~slMixed /\ \A u \in SlThreads \ {t} : ~SlChanging(u)
             /\ SlOneSignal' /\ SlDeadIsAlone'
             /\ SlChanging(t)' => SlPending(slThread[t])'
  <2>1. /\ ~slMixed /\ \A u \in SlThreads \ {t} : ~SlChanging(u)
        /\ SlPending(me) /\ SlOneSignal /\ SlDeadIsAlone
    BY <1>1, <1>2, <1>6 DEF SlInv, SlUnmixed, SlChanging
  <2>2. SlOneSignal'
    BY <1>1, <2>1 DEF SlOneSignal
  <2>3. SlDeadIsAlone'
    <3>1. \A u \in SlThreads : slThread'[u].op = slThread[u].op
                               /\ slThread'[u].node = slThread[u].node
      BY <1>3, <1>4
    <3> QED
      BY <1>1, <2>1, <3>1 DEF SlDeadIsAlone
  <2>4. /\ \A s \in SlSignals, o \in SlObservers : me.node \in {s, o} \/ SlSymmetric(s, o)
        /\ \A p \in SlNodes : me.node \in slList[p] <=> p \in me.todo \/ p = me.visit
    BY <1>2, <2>1 DEF SlPending
  <2>5. me.node \in slList[n] /\ n # me.node
    BY <1>t, <1>1, <1>2, <2>4, SlAssumption DEF SlNodes
  <2>6. slState[n] = "live"
    BY <1>2, <2>1, <2>5 DEF SlDeadIsAlone, SlChanging
  <2>7. SlNone \notin SlNodes
    BY SlAssumption DEF SlNodes, SlNone
  <2>8. \A p \in SlNodes : me.node \in slList[p] <=> p \in r.todo \/ p = r.visit
    BY <1>1, <1>2, <1>3, <2>4, <2>6, <2>7
  <2>9. SlPending(slThread[t])'
    BY <1>1, <1>2, <1>3, <1>4, <2>4, <2>6, <2>8 DEF SlPending, SlSymmetric
  <2> QED
    BY <2>1, <2>2, <2>3, <2>9
<1>7. SlUnmixed' /\ ListsSymmetric'
  BY <1>1, <1>2, <1>3, <1>6, SlChangeKept
<1> QED
  BY <1>5, <1>7 DEF SlInv

(* remove() takes the connection out of the peer's list, and on an         *)
(* observer there is no other one.                                         *)
LEMMA SlRemoveFromPeer ==
    ASSUME SlInv, NEW t \in SlThreads, SlTypeOK', RemoveFromPeer(t)
    PROVE  SlInv'
<1> DEFINE me == slThread[t]
           r == [me EXCEPT !.at = "unlink", !.visit = SlNone]
           o == IF me.node \in SlObservers THEN me.node ELSE me.visit
<1>t. /\ me \in SlCall /\ SlShape(me) /\ slList \in [SlNodes -> SUBSET SlNodes]
      /\ \A s \in SlSignals : slList[s] \subseteq SlObservers
      /\ \A x \in SlObservers : slList[x] \subseteq SlSignals
  BY DEF SlInv, SlTypeOK
<1>1. /\ SlGo(t, r) /\ slMixed' = slMixed /\ slState' = slState /\ me.at = "remove"
      /\ slList' = [slList EXCEPT ![me.visit] = Removed(me.visit, o)]
  BY Zenon DEF RemoveFromPeer
<1>2. me.op \in {"disconnect_all", "destroy"} /\ me.node \in SlNodes /\ me.visit \in SlNodes
  BY <1>t, <1>1 DEF SlShape, SlCall
<1>3. /\ r.op = me.op /\ r.at = "unlink" /\ r.node = me.node
      /\ r.visit = SlNone /\ r.todo = me.todo
  BY <1>t, <1>2 DEF SlCall
<1>4. /\ \A m \in SlNodes \ {me.visit} : slList'[m] = slList[m]
      /\ slList'[me.visit] = Removed(me.visit, o)
  BY <1>t, <1>1, <1>2
<1>5. \A p \in SlNodes : slList'[p] \subseteq slList[p]
  BY <1>4 DEF Removed
<1> HIDE DEF r, o
<1>6. slThread'[t] = r /\ \A u \in SlThreads \ {t} : slThread'[u] = slThread[u]
  BY <1>1, SlGoStep DEF SlInv
<1>7. SlOneDestroyer' /\ VisitedIsAlive'
  BY <1>1, <1>2, <1>3, SlAliveKept DEF SlInv
<1>8. ASSUME ~slMixed'
      PROVE  /\ ~slMixed /\ \A u \in SlThreads \ {t} : ~SlChanging(u)
             /\ SlOneSignal' /\ SlDeadIsAlone'
             /\ SlChanging(t)' => SlPending(slThread[t])'
  <2>1. /\ ~slMixed /\ \A u \in SlThreads \ {t} : ~SlChanging(u)
        /\ SlPending(me) /\ SlOneSignal /\ SlDeadIsAlone
    BY <1>1, <1>2, <1>8 DEF SlInv, SlUnmixed, SlChanging
  <2>2. SlOneSignal'
    BY <1>5, <2>1 DEF SlOneSignal, SlNodes
  <2>3. SlDeadIsAlone'
    <3>1. \A u \in SlThreads : slThread'[u].op = slThread[u].op
                               /\ slThread'[u].node = slThread[u].node
      BY <1>3, <1>6
    <3> QED
      BY <1>1, <1>5, <2>1, <3>1 DEF SlDeadIsAlone
  <2>4. /\ \A s \in SlSignals, x \in SlObservers : me.node \in {s, x} \/ SlSymmetric(s, x)
        /\ \A p \in SlNodes : me.node \in slList[p] <=> p \in me.todo \/ p = me.visit
    BY <1>1, <2>1 DEF SlPending
  <2>5. me.node \in slList[me.visit]
    BY <1>2, <2>4
  <2>6. SlNone \notin SlNodes
    BY SlAssumption DEF SlNodes, SlNone
  <2>7. \/ me.node \in SlObservers /\ me.visit \in SlSignals /\ o = me.node
        \/ me.node \in SlSignals /\ me.visit \in SlObservers /\ slList[me.visit] = {me.node}
    BY <1>t, <1>2, <2>1, <2>5, SlAssumption DEF SlNodes, o, SlOneSignal
  <2>8. me.node \notin slList'[me.visit] /\ slList'[me.visit] = slList[me.visit] \ {me.node}
    BY <1>4, <2>7, SlAssumption DEF Removed
  <2>9. me.visit \notin me.todo
    BY <1>1, <2>1 DEF SlPending
  <2>10. \A s \in SlSignals, x \in SlObservers : me.node \in {s, x} \/ SlSymmetric(s, x)'
    BY <1>4, <2>4, <2>7, <2>8, SlAssumption DEF SlSymmetric, SlNodes
  <2>11. \A p \in SlNodes : me.node \in slList'[p] <=> p \in r.todo \/ p = r.visit
    BY <1>2, <1>3, <1>4, <2>4, <2>6, <2>8, <2>9
  <2>12. r.visit \notin r.todo
    BY <1>t, <1>3, <2>6 DEF SlCall
  <2>13. SlPending(slThread[t])'
    BY <1>1, <1>2, <1>3, <1>6, <2>10, <2>11, <2>12 DEF SlPending
  <2> QED
    BY <2>1, <2>2, <2>3, <2>13
<1>9. SlUnmixed' /\ ListsSymmetric'
  BY <1>1, <1>2, <1>3, <1>8, SlChangeKept
<1> QED
  BY <1>7, <1>9 DEF SlInv

(* disconnect_all() ends: no list names the node, and its own is empty.    *)
LEMMA SlClearAll ==
    ASSUME SlInv, NEW t \in SlThreads, SlTypeOK', ClearAll(t)
    PROVE  SlInv'
<1> DEFINE me == slThread[t]
<1>t. /\ me \in SlCall /\ SlShape(me) /\ slList \in [SlNodes -> SUBSET SlNodes]
      /\ \A s \in SlSignals : slList[s] \subseteq SlObservers
      /\ \A o \in SlObservers : slList[o] \subseteq SlSignals
      /\ slState \in [SlNodes -> {"live", "closing", "unlinking", "dead"}]
  BY DEF SlInv, SlTypeOK
<1>1. /\ SlGo(t, SlIdle) /\ slMixed' = slMixed /\ me.at = "unlink" /\ me.todo = {}
      /\ slState' = IF me.op = "destroy" THEN [slState EXCEPT ![me.node] = "dead"] ELSE slState
      /\ slList' = [slList EXCEPT ![me.node] = {}]
  BY Zenon DEF ClearAll
<1>2. me.op \in {"disconnect_all", "destroy"} /\ me.node \in SlNodes /\ me.visit = SlNone
  BY <1>t, <1>1 DEF SlShape, SlCall
<1>3. SlIdle.op = "idle" /\ SlIdle.visit = SlNone
  BY DEF SlIdle
<1>4. slThread'[t] = SlIdle /\ \A u \in SlThreads \ {t} : slThread'[u] = slThread[u]
  BY <1>1, SlGoStep DEF SlInv
<1>5. /\ \A m \in SlNodes \ {me.node} : slList'[m] = slList[m] /\ slState'[m] = slState[m]
      /\ slList'[me.node] = {}
      /\ slState'[me.node] = IF me.op = "destroy" THEN "dead" ELSE slState[me.node]
  BY <1>t, <1>1, <1>2
<1>6. SlOneDestroyer'
  <2>1. \A u \in SlThreads \ {t} : slThread[u].op = "destroy" =>
          slThread[u].node \in SlNodes /\ slState'[slThread[u].node] = slState[slThread[u].node]
    BY <1>2, <1>5 DEF SlInv, SlOneDestroyer, SlTypeOK, SlShape
  <2> QED
    BY <1>3, <1>4, <2>1 DEF SlInv, SlOneDestroyer
<1>7. VisitedIsAlive'
  <2>1. ASSUME NEW u \in SlThreads \ {t}, slThread[u].visit # SlNone
        PROVE  slState'[slThread[u].visit] \in {"live", "closing"}
    <3>1. /\ slThread[u].visit \in SlNodes
          /\ slState[slThread[u].visit] \in {"live", "closing"}
      BY <2>1 DEF SlInv, SlTypeOK, SlCall, VisitedIsAlive
    <3>2. me.op = "destroy" => slState[me.node] = "unlinking"
      BY <1>1 DEF SlInv, SlOneDestroyer
    <3> QED
      BY <1>5, <3>1, <3>2
  <2> QED
    BY <1>3, <1>4, <2>1 DEF VisitedIsAlive
<1>8. ASSUME ~slMixed'
      PROVE  /\ ~slMixed /\ \A u \in SlThreads \ {t} : ~SlChanging(u)
             /\ SlOneSignal' /\ SlDeadIsAlone'
             /\ \A s \in SlSignals, o \in SlObservers : SlSymmetric(s, o)'
  <2>1. /\ ~slMixed /\ \A u \in SlThreads \ {t} : ~SlChanging(u)
        /\ SlPending(me) /\ SlOneSignal /\ SlDeadIsAlone
    BY <1>1, <1>2, <1>8 DEF SlInv, SlUnmixed, SlChanging
  <2>2. SlOneSignal'
    <3>1. \A o \in SlObservers : slList'[o] \subseteq slList[o]
      BY <1>5 DEF SlNodes
    <3> QED
      BY <2>1, <3>1 DEF SlOneSignal
  <2>3. SlDeadIsAlone'
    <3> SUFFICES ASSUME NEW m \in SlNodes, slState'[m] # "live"
                 PROVE  slState'[m] = "dead" /\ slList'[m] = {}
      BY DEF SlDeadIsAlone
    <3>1. CASE m # me.node
      BY <1>5, <2>1, <3>1 DEF SlDeadIsAlone, SlChanging
    <3>2. CASE m = me.node /\ me.op = "destroy"
      BY <1>5, <3>2
    <3>3. CASE m = me.node /\ me.op # "destroy"
      BY <1>5, <2>1, <3>3 DEF SlDeadIsAlone, SlChanging
    <3> QED
      BY <3>1, <3>2, <3>3
  <2>4. /\ \A s \in SlSignals, o \in SlObservers : me.node \in {s, o} \/ SlSymmetric(s, o)
        /\ \A p \in SlNodes : me.node \in slList[p] <=> p \in me.todo \/ p = me.visit
    BY <1>1, <2>1 DEF SlPending
  <2>5. \A p \in SlNodes : me.node \notin slList'[p]
    BY <1>1, <1>2, <1>5, <2>4, SlAssumption DEF SlNodes, SlNone
  <2>6. \A s \in SlSignals, o \in SlObservers : SlSymmetric(s, o)'
    BY <1>5, <2>4, <2>5 DEF SlSymmetric, SlNodes
  <2> QED
    BY <2>1, <2>2, <2>3, <2>6
<1>9. SlUnmixed' /\ ListsSymmetric'
  <2>1. ~SlChanging(t)'
    BY <1>3, <1>4 DEF SlChanging
  <2> QED
    BY <1>1, <1>2, <1>3, <1>8, <2>1, SlChangeKept
<1> QED
  BY <1>6, <1>7, <1>9 DEF SlInv

(* Every step of the signals and observers.                                *)
LEMMA SlInvStep ==
    ASSUME SlInv, [SlNext]_slVars
    PROVE  SlInv'
<1>1. ASSUME NEW t \in SlThreads, SlStep(t)
      PROVE  SlInv'
  <2>1. SlTypeOK'
    BY <1>1, SlTypeStep DEF SlInv
  <2> QED
    BY <1>1, <2>1, SlFireSteps, SlLinkSignal, SlLinkObserver, SlAwaitVisitors, SlLockAll,
       SlVisitPeer, SlRemoveFromPeer, SlClearAll DEF SlStep
<1>2. ASSUME NEW t \in SlThreads, NEW s \in SlSignals, SlBegin(t, "fire", s, SlNone)
      PROVE  SlInv'
  <2>1. SlTypeOK'
    BY <1>2, SlTypeBegin DEF SlInv, SlNodes
  <2> QED
    BY <1>2, <2>1, SlFireSteps
<1>3. ASSUME NEW t \in SlThreads, NEW s \in SlSignals, NEW o \in SlObservers,
             NEW op \in {"connect", "disconnect"}, SlBegin(t, op, s, o)
      PROVE  SlInv'
  <2>1. s \in SlNodes
    BY DEF SlNodes
  <2>2. SlTypeOK'
    BY <1>3, <2>1, SlTypeBegin DEF SlInv
  <2> QED
    BY <1>3, <2>1, <2>2, SlBeginChange
<1>4. ASSUME NEW t \in SlThreads, NEW n \in SlNodes,
             NEW op \in {"disconnect_all", "destroy"}, SlBegin(t, op, n, SlNone)
      PROVE  SlInv'
  <2>1. SlTypeOK'
    BY <1>4, SlTypeBegin DEF SlInv
  <2> QED
    BY <1>4, <2>1, SlBeginChange
<1>5. CASE UNCHANGED slVars
  <2>1. UNCHANGED <<slList, slState, slThread, slMixed>>
    BY <1>5 DEF slVars
  <2>2. SlTypeOK' /\ SlOneDestroyer' /\ VisitedIsAlive' /\ ListsSymmetric'
    BY <2>1 DEF SlInv, SlTypeOK, SlShape, SlOneDestroyer, VisitedIsAlive, ListsSymmetric
  <2>3. SlUnmixed'
    BY <2>1 DEF SlInv, SlUnmixed, SlChanging, SlOneSignal, SlDeadIsAlone, SlPending, SlSymmetric
  <2> QED
    BY <2>2, <2>3 DEF SlInv
<1> QED
  BY <1>1, <1>2, <1>3, <1>4, <1>5 DEF SlNext

-----------------------------------------------------------------------------
(* Threads that share signals, observers and a thread pool: nobody is      *)
(* visited after its destructor has waited for visitors, connections are   *)
(* symmetric between calls that do not overlap, and who comes back from    *)
(* wait(), or destroys the pool, finds all earlier tasks done.             *)
THEOREM SharersCorrect == Spec => []SharersSafe
<1> DEFINE Inv == SlInv /\ TpInv
<1>1. Init => Inv
  BY SlInitial, TpInitial DEF Init
<1>2. Inv /\ [Next]_vars => Inv'
  <2> HAVE Inv /\ [Next]_vars
  <2>1. [SlNext]_slVars
    BY DEF Next, vars, WqPart, TqPart, PaPart, CsPart, CpPart, EvPart, IsPart, SlPart, TpPart,
       MpPart, LcPart, UdPart
  <2>2. [TpNext]_tpVars
    BY DEF Next, vars, WqPart, TqPart, PaPart, CsPart, CpPart, EvPart, IsPart, SlPart, TpPart,
       MpPart, LcPart, UdPart
  <2> QED
    BY <2>1, <2>2, SlInvStep, TpInvStep
<1>3. Inv => SharersSafe
  BY DEF SlInv, TpInv, SharersSafe
<1> QED
  BY <1>1, <1>2, <1>3, PTL DEF Spec

-----------------------------------------------------------------------------
(* Induction and remainders.                                               *)

(* A set of natural numbers that is not empty has a least member.          *)
LEMMA NatLeast ==
    ASSUME NEW T \in SUBSET Nat, T # {}
    PROVE  \E m \in T : \A n \in T : m <= n
<1>1. PICK m \in T : \A n \in T : ~(<<n, m>> \in OpToRel(<, Nat))
  BY NatLessThanWellFounded, WFMin
<1>2. \A n \in T : ~(n < m)
  BY <1>1 DEF OpToRel
<1> QED
  BY <1>2

(* Induction up to a bound.                                                *)
LEMMA UpTo ==
    ASSUME NEW N \in Nat, NEW S, 0 \in S, \A k \in 0 .. N - 1 : k \in S => k + 1 \in S
    PROVE  \A k \in 0 .. N : k \in S
<1> DEFINE T == {k \in 0 .. N : k \notin S}
<1> SUFFICES ASSUME T # {} PROVE FALSE
  OBVIOUS
<1>0. T \in SUBSET Nat
  OBVIOUS
<1>1. PICK m \in T : \A n \in T : m <= n
  <2> HIDE DEF T
  <2> QED
    BY <1>0, NatLeast
<1>2. m # 0 /\ m - 1 \in 0 .. N - 1 /\ m - 1 \notin T
  BY <1>1
<1> QED
  BY <1>1, <1>2

(* Remainders.                                                             *)

(* Division with remainder.                                                *)
LEMMA Division ==
    ASSUME NEW C \in Nat \ {0}, NEW x \in Int
    PROVE  \E q \in Int : x = C * q + (x % C) /\ x % C \in 0 .. C - 1
<1>1. x = C * (x \div C) + (x % C) /\ x \div C \in Int /\ x % C \in 0 .. C - 1
  OBVIOUS
<1> QED
  BY <1>1

(* Multiples of C are at least C apart.                                    *)
LEMMA MultiplesApart ==
    ASSUME NEW C \in Nat \ {0}, NEW q \in Int, NEW p \in Int, q < p
    PROVE  C * q + C <= C * p
<1>1. PICK d \in Nat : p = q + 1 + d
  <2>1. p - q - 1 \in Nat /\ p = q + 1 + (p - q - 1)
    OBVIOUS
  <2> QED
    BY <2>1
<1>2. C * p = C * q + C + C * d
  BY <1>1, Z3
<1>3. C * d \in Nat /\ C * q \in Int
  BY Z3
<1> QED
  BY <1>2, <1>3

(* The remainder is unique.                                                *)
LEMMA Remainder ==
    ASSUME NEW C \in Nat \ {0}, NEW q \in Int, NEW r \in 0 .. C - 1
    PROVE  (C * q + r) % C = r
<1>0. PICK x \in Int : x = C * q + r
  <2>1. C * q \in Int
    BY Z3
  <2> QED
    BY <2>1
<1>1. PICK p \in Int : x = C * p + (x % C) /\ x % C \in 0 .. C - 1
  BY Division
<1>2. C * p \in Int /\ C * q \in Int
  BY Z3
<1>3. PICK y \in 0 .. C - 1 : y = x % C
  BY <1>1
<1>4. C * p + y = C * q + r
  BY <1>0, <1>1, <1>3
<1>5. ~(q < p)
  BY <1>2, <1>3, <1>4, MultiplesApart
<1>6. ~(p < q)
  BY <1>2, <1>3, <1>4, MultiplesApart
<1>7. p = q
  BY <1>5, <1>6
<1>8. y = r
  BY <1>2, <1>4, <1>7
<1> QED
  BY <1>0, <1>3, <1>8

(* Positions less than C apart have different remainders.                  *)
LEMMA CellsDiffer ==
    ASSUME NEW C \in Nat \ {0}, NEW i \in Int, NEW j \in Int, i < j, j < i + C
    PROVE  i % C # j % C
<1> SUFFICES ASSUME i % C = j % C
             PROVE  FALSE
  OBVIOUS
<1>1. PICK p \in Int : i = C * p + (i % C) /\ i % C \in 0 .. C - 1
  BY Division
<1>2. PICK q \in Int : j = C * q + (j % C)
  BY Division
<1>3. PICK r \in Nat : r = i % C
  BY <1>1
<1>4. C * p \in Int /\ C * q \in Int
  BY Z3
<1>5. CASE p < q
  BY MultiplesApart, <1>1, <1>2, <1>3, <1>4, <1>5
<1>6. CASE q < p
  BY MultiplesApart, <1>1, <1>2, <1>3, <1>4, <1>6
<1>7. CASE p = q
  BY <1>1, <1>2, <1>3, <1>4, <1>7
<1> QED
  BY <1>5, <1>6, <1>7

(* A remainder is in range.                                                *)
LEMMA CellRange ==
    ASSUME NEW C \in Nat \ {0}, NEW i \in Int
    PROVE  i % C \in 0 .. C - 1
  OBVIOUS

(* A remainder of a remainder: the cell of a position does not depend on   *)
(* how often the position wrapped around.                                  *)
LEMMA RemainderTwice ==
    ASSUME NEW S \in Nat \ {0}, NEW W \in Nat \ {0}, NEW m \in Nat, W = S * m, NEW i \in Int
    PROVE  (i % W) % S = i % S
<1>1. PICK q \in Int : i = W * q + (i % W) /\ i % W \in 0 .. W - 1
  BY Division
<1>2. PICK y \in Int : y = i % W
  BY <1>1
<1>3. PICK p \in Int : y = S * p + (y % S) /\ y % S \in 0 .. S - 1
  BY Division
<1>4. PICK r \in 0 .. S - 1 : r = y % S
  BY <1>3
<1>5. i = S * (m * q + p) + r
  <2>1. (S * m) * q + S * p = S * (m * q + p) /\ (S * m) * q \in Int /\ S * p \in Int
    BY Z3
  <2>2. i = (S * m) * q + (S * p + r)
    BY <1>1, <1>2, <1>3, <1>4
  <2> QED
    BY <2>1, <2>2
<1>6. m * q + p \in Int
  BY Z3
<1>7. i % S = r
  BY <1>5, <1>6, Remainder
<1> QED
  BY <1>2, <1>4, <1>7

(* Remainders of sums, ...                                                 *)
LEMMA RemainderSum ==
    ASSUME NEW W \in Nat \ {0}, NEW i \in Int, NEW k \in Int
    PROVE  ((i % W) + k) % W = (i + k) % W
<1>1. PICK q \in Int : i = W * q + (i % W) /\ i % W \in 0 .. W - 1
  BY Division
<1>2. PICK y \in Int : y = i % W
  BY <1>1
<1>x. PICK x \in Int : x = y + k
  OBVIOUS
<1>3. PICK p \in Int : x = W * p + (x % W) /\ x % W \in 0 .. W - 1
  BY Division
<1>4. PICK r \in 0 .. W - 1 : r = x % W
  BY <1>3
<1>5. i + k = W * (q + p) + r
  <2>1. W * q + W * p = W * (q + p) /\ W * q \in Int /\ W * p \in Int
    BY Z3
  <2>2. i = W * q + y /\ x = W * p + r
    BY <1>1, <1>2, <1>3, <1>4
  <2>3. i + k = W * q + (W * p + r)
    BY <1>x, <2>1, <2>2
  <2> QED
    BY <2>1, <2>3
<1>6. (i + k) % W = r
  <2>1. q + p \in Int
    OBVIOUS
  <2>2. (W * (q + p) + r) % W = r
    BY <2>1, Remainder
  <2> QED
    BY <1>5, <2>2
<1> QED
  BY <1>2, <1>x, <1>4, <1>6

(* ... and differences.                                                    *)
LEMMA RemainderDifference ==
    ASSUME NEW W \in Nat \ {0}, NEW i \in Int, NEW j \in Int
    PROVE  ((i % W) - (j % W)) % W = (i - j) % W
<1>1. PICK q \in Int : j = W * q + (j % W) /\ j % W \in 0 .. W - 1
  BY Division
<1>2. PICK y \in Int : y = j % W
  BY <1>1
<1>3. ((i % W) - y) % W = (i - y) % W
  <2>1. ((i % W) + (-y)) % W = (i + (-y)) % W
    <3>1. -y \in Int
      OBVIOUS
    <3> QED
      BY <3>1, RemainderSum
  <2>2. PICK x \in Int : x = i % W
    BY CellRange
  <2>3. x + (-y) = x - y /\ i + (-y) = i - y
    OBVIOUS
  <2> QED
    BY <2>1, <2>2, <2>3
<1>x. PICK x \in Int : x = i - y
  OBVIOUS
<1>4. PICK p \in Int : x = W * p + (x % W) /\ x % W \in 0 .. W - 1
  BY Division
<1>5. PICK r \in 0 .. W - 1 : r = x % W
  BY <1>4
<1>6. i - j = W * (p - q) + r
  <2>1. W * p - W * q = W * (p - q) /\ W * q \in Int /\ W * p \in Int
    BY Z3
  <2>2. j = W * q + y /\ x = W * p + r
    BY <1>1, <1>2, <1>4, <1>5
  <2>3. i - j = (W * p + r) - W * q
    BY <1>x, <2>1, <2>2
  <2> QED
    BY <2>1, <2>3
<1>7. (i - j) % W = r
  <2>1. p - q \in Int
    OBVIOUS
  <2>2. (W * (p - q) + r) % W = r
    BY <2>1, Remainder
  <2> QED
    BY <1>6, <2>2
<1> QED
  BY <1>2, <1>3, <1>x, <1>5, <1>7

(* A number in range is its own remainder.                                 *)
LEMMA RemainderSmall ==
    ASSUME NEW W \in Nat \ {0}, NEW i \in 0 .. W - 1
    PROVE  i % W = i
<1>1. (W * 0 + i) % W = i
  BY Remainder
<1>2. W * 0 + i = i
  OBVIOUS
<1> QED
  BY <1>1, <1>2

(* The cell of the k-th position behind one that wrapped around.           *)
LEMMA RemainderBoth ==
    ASSUME NEW S \in Nat \ {0}, NEW W \in Nat \ {0}, NEW m \in Nat, W = S * m, NEW i \in Int,
           NEW k \in Int
    PROVE  ((i % W) + k) % S = (i + k) % S
<1>1. PICK y \in Int : y = i % W
  BY CellRange
<1>2. y % S = i % S
  BY <1>1, RemainderTwice
<1>3. ((y % S) + k) % S = (y + k) % S
  BY RemainderSum
<1>4. ((i % S) + k) % S = (i + k) % S
  BY RemainderSum
<1> QED
  BY <1>1, <1>2, <1>3, <1>4

-----------------------------------------------------------------------------
(* I/O work queue.                                                         *)

(* The sizes of the arrays exist and double.                               *)
LEMMA WqSizes ==
    \A a \in 1 .. WqArrays :
       /\ SizeOf[a] = IF a = 1 THEN WqCapacity ELSE 2 * SizeOf[a - 1]
       /\ SizeOf[a] \in Nat \ {0}
<1> DEFINE Doubles(k, f) == \A a \in 1 .. k : f[a] = IF a = 1 THEN WqCapacity ELSE 2 * f[a - 1]
           S == {k \in Nat : \E f : f \in [1 .. k -> Nat \ {0}] /\ Doubles(k, f)}
<1>0. WqArrays \in Nat /\ WqCapacity \in Nat \ {0}
  BY WqAssumption
<1>1. 0 \in S
  <2>1. PICK f : f = [a \in 1 .. 0 |-> 1]
    OBVIOUS
  <2>2. f \in [1 .. 0 -> Nat \ {0}] /\ Doubles(0, f)
    BY <2>1
  <2> QED
    BY <2>2
<1>2. ASSUME NEW k \in 0 .. WqArrays - 1, k \in S
      PROVE  k + 1 \in S
  <2>1. PICK f : f \in [1 .. k -> Nat \ {0}] /\ Doubles(k, f)
    BY <1>2
  <2>2. PICK v \in Nat \ {0} : v = IF k = 0 THEN WqCapacity ELSE 2 * f[k]
    <3>1. k # 0 => f[k] \in Nat \ {0}
      BY <1>0, <2>1
    <3>2. (IF k = 0 THEN WqCapacity ELSE 2 * f[k]) \in Nat \ {0}
      BY <1>0, <3>1
    <3> QED
      BY <3>2
  <2>3. PICK g : g = [a \in 1 .. k + 1 |-> IF a = k + 1 THEN v ELSE f[a]]
    OBVIOUS
  <2>4. g[k + 1] = v /\ \A a \in 1 .. k : g[a] = f[a]
    BY <1>0, <2>3
  <2>5. \A a \in 1 .. k + 1 : a = k + 1 \/ a \in 1 .. k
    BY <1>0
  <2>6. g \in [1 .. k + 1 -> Nat \ {0}]
    <3>1. \A a \in 1 .. k + 1 : (IF a = k + 1 THEN v ELSE f[a]) \in Nat \ {0}
      BY <2>1, <2>2, <2>5
    <3> QED
      BY <2>3, <3>1
  <2>7. ASSUME NEW a \in 1 .. k + 1
        PROVE  g[a] = IF a = 1 THEN WqCapacity ELSE 2 * g[a - 1]
    <3>1. CASE a = k + 1
      <4>1. k # 0 => g[k] = f[k] /\ (k + 1) - 1 = k /\ k + 1 # 1
        BY <1>0, <2>4
      <4> QED
        BY <1>0, <2>2, <2>4, <3>1, <4>1
    <3>2. CASE a \in 1 .. k
      <4>1. a # 1 => a - 1 \in 1 .. k
        BY <1>0, <3>2
      <4> QED
        BY <2>1, <2>4, <3>2, <4>1
    <3> QED
      BY <2>5, <3>1, <3>2
  <2> QED
    BY <1>0, <2>6, <2>7, SMTT(60)
<1> HIDE DEF S
<1>3. WqArrays \in S
  BY <1>0, <1>1, <1>2, UpTo
<1>4. PICK f : f \in [1 .. WqArrays -> Nat \ {0}] /\ Doubles(WqArrays, f)
  BY <1>3 DEF S
<1>5. f = [a \in 1 .. WqArrays |-> IF a = 1 THEN WqCapacity ELSE 2 * f[a - 1]]
  BY <1>4
<1>6. SizeOf = [a \in 1 .. WqArrays |-> IF a = 1 THEN WqCapacity ELSE 2 * SizeOf[a - 1]]
  BY <1>5 DEF SizeOf
<1>7. \A a \in 0 .. WqArrays : a = 0 \/ SizeOf[a] \in Nat \ {0}
  <2> DEFINE T == {a \in 0 .. WqArrays : a = 0 \/ SizeOf[a] \in Nat \ {0}}
  <2>1. 0 \in T
    BY <1>0
  <2>2. ASSUME NEW k \in 0 .. WqArrays - 1, k \in T
        PROVE  k + 1 \in T
    <3>1. k + 1 \in 1 .. WqArrays /\ (k + 1) - 1 = k /\ k + 1 \in 0 .. WqArrays
          /\ (k + 1 = 1 <=> k = 0)
      BY <1>0
    <3>2. SizeOf[k + 1] = IF k = 0 THEN WqCapacity ELSE 2 * SizeOf[k]
      BY <1>6, <3>1
    <3>3. SizeOf[k + 1] \in Nat \ {0}
      BY <1>0, <2>2, <3>2
    <3> QED
      BY <3>1, <3>3
  <2> HIDE DEF T
  <2>3. \A a \in 0 .. WqArrays : a \in T
    BY <1>0, <2>1, <2>2, UpTo
  <2> QED
    BY <2>3 DEF T
<1>8. \A a \in 1 .. WqArrays : SizeOf[a] = IF a = 1 THEN WqCapacity ELSE 2 * SizeOf[a - 1]
  BY <1>6
<1>9. \A a \in 1 .. WqArrays : SizeOf[a] \in Nat \ {0}
  BY <1>0, <1>7
<1> QED
  BY <1>8, <1>9

(* Every size divides the number of positions, and is less.                *)
LEMMA WqSizeFacts ==
    ASSUME NEW a \in 1 .. WqArrays
    PROVE  /\ Size(a) \in Nat \ {0} /\ Size(a) < WqWrap /\ WqCapacity <= Size(a)
           /\ \E m \in Nat : WqWrap = Size(a) * m
           /\ a < WqArrays => Size(a + 1) = 2 * Size(a)
<1>0. WqArrays \in Nat \ {0} /\ WqCapacity \in Nat \ {0} /\ WqWrap \in Nat
  BY WqAssumption
<1>1. \A b \in 1 .. WqArrays : Size(b) \in Nat \ {0}
  BY WqSizes DEF Size
<1>2. ASSUME NEW b \in 1 .. WqArrays, b < WqArrays
      PROVE  Size(b + 1) = 2 * Size(b)
  <2>1. b + 1 \in 1 .. WqArrays /\ b + 1 # 1 /\ (b + 1) - 1 = b
    BY <1>0, <1>2
  <2> QED
    BY <2>1, WqSizes DEF Size
<1>3. \A b \in 1 .. WqArrays : \E m \in Nat \ {0} : Size(WqArrays) = Size(b) * m
  <2> DEFINE T == {k \in 0 .. WqArrays - 1 :
                     \E m \in Nat \ {0} : Size(WqArrays) = Size(WqArrays - k) * m}
  <2>n. WqArrays - 1 \in Nat /\ WqArrays \in 1 .. WqArrays
    BY <1>0
  <2>1. 0 \in T
    <3>1. Size(WqArrays) = Size(WqArrays - 0) * 1
      BY <1>0, <1>1, <2>n
    <3> QED
      BY <2>n, <3>1
  <2>2. ASSUME NEW k \in 0 .. (WqArrays - 1) - 1, k \in T
        PROVE  k + 1 \in T
    <3>1. PICK m \in Nat \ {0} : Size(WqArrays) = Size(WqArrays - k) * m
      BY <2>2
    <3>2. PICK b \in 1 .. WqArrays : b = WqArrays - (k + 1) /\ b < WqArrays /\ b + 1 = WqArrays - k
                                     /\ k + 1 \in 0 .. WqArrays - 1
      <4>1. WqArrays - (k + 1) \in 1 .. WqArrays
        BY <1>0
      <4> QED
        BY <1>0, <4>1
    <3>3. PICK s \in Nat \ {0} : s = Size(b)
      BY <1>1
    <3>4. Size(WqArrays) = (2 * s) * m
      BY <1>2, <3>1, <3>2, <3>3
    <3>5. (2 * s) * m = s * (2 * m) /\ 2 * m \in Nat \ {0}
      BY Z3
    <3> QED
      BY <3>2, <3>3, <3>4, <3>5
  <2> HIDE DEF T
  <2>3. \A k \in 0 .. WqArrays - 1 : k \in T
    BY <2>n, <2>1, <2>2, UpTo
  <2> TAKE b \in 1 .. WqArrays
  <2>4. WqArrays - b \in 0 .. WqArrays - 1 /\ WqArrays - (WqArrays - b) = b
    BY <1>0
  <2>5. WqArrays - b \in T
    BY <2>3, <2>4
  <2> QED
    BY <2>4, <2>5 DEF T
<1>4. PICK m \in Nat \ {0} : Size(WqArrays) = Size(a) * m
  BY <1>3
<1>5. PICK s \in Nat \ {0}, z \in Nat \ {0} : s = Size(a) /\ z = Size(WqArrays)
  <2>1. WqArrays \in 1 .. WqArrays
    BY <1>0
  <2> QED
    BY <1>1, <2>1
<1>6. s <= z
  <2>1. z = s * m
    BY <1>4, <1>5
  <2>2. PICK d \in Nat : m = d + 1
    <3>1. m - 1 \in Nat /\ m = (m - 1) + 1
      OBVIOUS
    <3> QED
      BY <3>1
  <2>3. s * m = s * d + s /\ s * d \in Nat
    BY <2>2, Z3
  <2> QED
    BY <2>1, <2>3
<1>7. \E j \in Nat : WqWrap = s * j
  <2>1. WqWrap % z = 0
    BY <1>5, WqAssumption
  <2>2. PICK q \in Int : WqWrap = z * q + (WqWrap % z)
    <3>1. WqWrap \in Int
      BY <1>0
    <3> QED
      BY <3>1, Division
  <2>3. WqWrap = s * (m * q) /\ m * q \in Int
    <3>1. z = s * m
      BY <1>4, <1>5
    <3>2. (s * m) * q = s * (m * q) /\ m * q \in Int /\ z * q \in Int
      BY Z3
    <3>3. WqWrap = z * q
      BY <2>1, <2>2, <3>2
    <3> QED
      BY <3>1, <3>2, <3>3
  <2>4. PICK j \in Int : j = m * q
    BY <2>3
  <2>5. j >= 0
    <3> SUFFICES ASSUME j < 0 PROVE FALSE
      OBVIOUS
    <3>1. s * j + s <= s * 0
      BY MultiplesApart
    <3>2. s * j \in Int /\ s * 0 = 0
      BY Z3
    <3> QED
      BY <1>0, <2>3, <2>4, <3>1, <3>2
  <2> QED
    BY <2>3, <2>4, <2>5
<1>8. WqCapacity <= s
  <2> DEFINE T == {k \in 0 .. WqArrays : k = 0 \/ WqCapacity <= Size(k)}
  <2>1. 0 \in T
    BY <1>0
  <2>2. ASSUME NEW k \in 0 .. WqArrays - 1, k \in T
        PROVE  k + 1 \in T
    <3>1. CASE k = 0
      <4>1. 1 \in 1 .. WqArrays
        BY <1>0
      <4>2. Size(1) = WqCapacity
        BY <4>1, WqSizes DEF Size
      <4> QED
        BY <1>0, <3>1, <4>1, <4>2
    <3>2. CASE k # 0
      <4>1. k \in 1 .. WqArrays /\ k < WqArrays /\ k + 1 \in 0 .. WqArrays
        BY <1>0, <3>2
      <4>2. Size(k) \in Nat /\ WqCapacity <= Size(k) /\ Size(k + 1) = 2 * Size(k)
        BY <1>1, <1>2, <2>2, <3>2, <4>1
      <4> QED
        BY <1>0, <4>1, <4>2
    <3> QED
      BY <3>1, <3>2
  <2> HIDE DEF T
  <2>3. \A k \in 0 .. WqArrays : k \in T
    BY <1>0, <2>1, <2>2, UpTo
  <2>4. a \in T /\ a # 0
    BY <1>0, <2>3
  <2> QED
    BY <1>5, <2>4 DEF T
<1>9. z < WqWrap
  BY <1>0, <1>5, WqAssumption
<1> QED
  BY <1>0, <1>2, <1>5, <1>6, <1>7, <1>8, <1>9

(* The positions from the p-th to the b-th.                                *)
LEMMA WqDistance ==
    ASSUME NEW p \in Nat, NEW b \in Nat, p <= b, b - p < WqWrap, WqWrap \in Nat \ {0}
    PROVE  /\ Distance(b % WqWrap, p % WqWrap) = b - p
           /\ \A j : j \in Window(b % WqWrap, p % WqWrap) <=> \E i \in p .. b - 1 : j = i % WqWrap
<1>1. ASSUME NEW i \in p .. b
      PROVE  Distance(i % WqWrap, p % WqWrap) = i - p
  <2>1. ((i % WqWrap) - (p % WqWrap)) % WqWrap = (i - p) % WqWrap
    <3>1. i \in Int /\ p \in Int
      OBVIOUS
    <3> QED
      BY <3>1, RemainderDifference
  <2>2. i - p \in 0 .. WqWrap - 1
    OBVIOUS
  <2> QED
    BY <2>1, <2>2, RemainderSmall DEF Distance
<1>2. Distance(b % WqWrap, p % WqWrap) = b - p
  <2>1. b \in p .. b
    OBVIOUS
  <2> QED
    BY <1>1, <2>1
<1>3. ASSUME NEW i \in p .. b - 1
      PROVE  i % WqWrap \in Window(b % WqWrap, p % WqWrap)
  <2>1. i \in p .. b /\ i - p < b - p
    OBVIOUS
  <2>2. i % WqWrap \in WqPositions
    BY CellRange DEF WqPositions
  <2> QED
    BY <1>1, <1>2, <2>1, <2>2 DEF Window
<1>4. ASSUME NEW j \in Window(b % WqWrap, p % WqWrap)
      PROVE  \E i \in p .. b - 1 : j = i % WqWrap
  <2> DEFINE d == Distance(j, p % WqWrap)
  <2>1. j \in 0 .. WqWrap - 1 /\ d < b - p
    BY <1>2 DEF Window, WqPositions
  <2>2. p % WqWrap \in 0 .. WqWrap - 1
    BY CellRange
  <2>3. PICK y \in 0 .. WqWrap - 1 : y = p % WqWrap
    BY <2>2
  <2>4. d = (j - y) % WqWrap /\ d \in 0 .. WqWrap - 1
    BY <2>1, <2>3, CellRange DEF Distance
  <2>5. PICK e \in Nat : e = d /\ e < b - p /\ e = (j - y) % WqWrap
    BY <2>1, <2>4
  <2>6. (p + e) % WqWrap = j
    <3>0. p \in Int /\ e \in Int /\ y \in Int /\ j \in Int /\ j - y \in Int
      BY <2>1
    <3>1. (y + e) % WqWrap = (p + e) % WqWrap
      BY <2>3, <3>0, RemainderSum
    <3>2. (((j - y) % WqWrap) + y) % WqWrap = ((j - y) + y) % WqWrap
      BY <3>0, RemainderSum
    <3>3. (j - y) + y = j /\ e + y = y + e
      BY <3>0
    <3>4. j % WqWrap = j
      BY <2>1, RemainderSmall
    <3> QED
      BY <2>5, <3>1, <3>2, <3>3, <3>4
  <2>7. p + e \in p .. b - 1
    BY <2>5
  <2> QED
    BY <2>6, <2>7
<1> QED
  BY <1>2, <1>3, <1>4

(* The same facts one by one: the range of the sizes, ...                  *)
LEMMA WqSizeRange ==
    \A a \in 1 .. WqArrays : Size(a) \in Nat \ {0} /\ Size(a) < WqWrap /\ WqCapacity <= Size(a)
<1> TAKE a \in 1 .. WqArrays
<1> QED
  BY WqSizeFacts, Zenon

(* ... that every size divides the number of positions, ...                *)
LEMMA WqSizeDivides == \A a \in 1 .. WqArrays : \E m \in Nat : WqWrap = Size(a) * m
  BY WqSizeFacts, Zenon

(* ... and that an array has half the cells of the next.                   *)
LEMMA WqSizeDoubles == \A a \in 1 .. WqArrays : a < WqArrays => Size(a + 1) = 2 * Size(a)
<1> TAKE a \in 1 .. WqArrays
<1> QED
  BY WqSizeFacts, Zenon

(* The cells bs of an array of S cells once n items were pushed at y.      *)
WqRow(S, n, y, bs) ==
    [c \in 0 .. S - 1 |->
       IF {k \in 0 .. n - 1 : (y + k) % S = c} = {} THEN bs[c]
       ELSE (y + CHOOSE k \in {k \in 0 .. n - 1 : (y + k) % S = c} : TRUE) % WqWrap]

(* Of the positions f to b + n those from b on are new, the others as they *)
(* were.                                                                   *)
WqBehind(S, n, y, base, f, b) ==
    /\ \A i \in f .. b - 1 : WqRow(S, n, y, base)[i % S] = base[i % S]
    /\ \A i \in b .. (b + n) - 1 : WqRow(S, n, y, base)[i % S] = i % WqWrap

(* Items pushed behind the b-th position leave those before it alone.      *)
LEMMA WqPushed ==
    ASSUME NEW S \in Nat \ {0}, WqWrap \in Nat \ {0}, NEW m \in Nat, WqWrap = S * m,
           NEW f \in Nat, NEW b \in Nat, NEW n \in Nat, f <= b, (b + n) - f <= S,
           NEW base, NEW y, y = b % WqWrap
    PROVE  WqBehind(S, n, y, base, f, b)
<1>r. PICK R : R = WqRow(S, n, y, base)
  OBVIOUS
<1>y. y \in Int
  BY CellRange
<1>0. \A k \in 0 .. n - 1 : (y + k) % S = (b + k) % S
  <2> TAKE k \in 0 .. n - 1
  <2>1. b \in Int /\ k \in Int
    OBVIOUS
  <2>2. \A h, e \in Int : ((h % WqWrap) + e) % S = (h + e) % S
    BY RemainderBoth, Zenon
  <2> QED
    BY <2>1, <2>2, Zenon
<1> DEFINE new(c) == {k \in 0 .. n - 1 : (y + k) % S = c}
<1>1. \A i \in f .. (b + n) - 1 : \A k \in new(i % S) : b + k = i
  <2> TAKE i \in f .. (b + n) - 1
  <2> TAKE k \in new(i % S)
  <2>1. k \in 0 .. n - 1 /\ (b + k) % S = i % S
    BY <1>0
  <2>2. PICK j \in Int : j = b + k
    BY <2>1
  <2>3. i \in Int /\ i < j + S /\ j < i + S /\ j % S = i % S
    BY <2>1, <2>2
  <2> HIDE DEF new
  <2>4. ~(i < j)
    BY <2>3, CellsDiffer
  <2>5. ~(j < i)
    BY <2>2, <2>3, CellsDiffer
  <2> QED
    BY <2>2, <2>3, <2>4, <2>5
<1>2. \A c \in 0 .. S - 1 :
         R[c] = IF new(c) = {} THEN base[c] ELSE (y + CHOOSE k \in new(c) : TRUE) % WqWrap
  <2> DEFINE E(c) == IF new(c) = {} THEN base[c] ELSE (y + CHOOSE k \in new(c) : TRUE) % WqWrap
  <2>1. R = [c \in 0 .. S - 1 |-> E(c)]
    BY <1>r DEF WqRow
  <2>2. \A c \in 0 .. S - 1 : R[c] = E(c)
    <3> HIDE DEF E
    <3> QED
      BY <2>1
  <2> QED
    BY <2>2
<1>3. ASSUME NEW i \in f .. b - 1
      PROVE  R[i % S] = base[i % S]
  <2>1. i \in f .. (b + n) - 1 /\ i % S \in 0 .. S - 1
    BY CellRange
  <2>2. new(i % S) = {}
    <3> SUFFICES ASSUME NEW k \in new(i % S) PROVE FALSE
      OBVIOUS
    <3>1. b + k = i /\ k \in 0 .. n - 1
      BY <1>1, <2>1
    <3> QED
      BY <3>1
  <2> HIDE DEF new
  <2> QED
    BY <1>2, <2>1, <2>2
<1>4. ASSUME NEW i \in b .. (b + n) - 1
      PROVE  R[i % S] = i % WqWrap
  <2>1. i \in f .. (b + n) - 1 /\ i % S \in 0 .. S - 1 /\ i - b \in 0 .. n - 1 /\ b + (i - b) = i
    BY CellRange
  <2>2. i - b \in new(i % S)
    BY <1>0, <2>1
  <2>3. new(i % S) # {} /\ (CHOOSE k \in new(i % S) : TRUE) \in new(i % S)
    <3> HIDE DEF new
    <3> QED
      BY <2>2
  <2>4. PICK k \in 0 .. n - 1 : k = (CHOOSE h \in new(i % S) : TRUE) /\ b + k = i
    BY <1>1, <2>1, <2>3
  <2>5. R[i % S] = (y + k) % WqWrap
    <3> HIDE DEF new
    <3> QED
      BY <1>2, <2>1, <2>3, <2>4
  <2>6. (y + k) % WqWrap = (b + k) % WqWrap
    <3>1. b \in Int /\ k \in Int
      OBVIOUS
    <3> QED
      BY <3>1, RemainderSum
  <2> QED
    BY <2>4, <2>5, <2>6
<1> QED
  BY <1>r, <1>3, <1>4 DEF WqBehind

WqValues == WqPositions \union {WqNone}

WqTypeOK ==
    /\ wqFront \in WqPositions /\ wqBack \in WqPositions /\ wqData \in 1 .. WqArrays
    /\ wqCells = [a \in 1 .. WqArrays |-> wqCells[a]]
    /\ \A a \in 1 .. WqArrays : wqCells[a] \in [0 .. Size(a) - 1 -> WqValues]
    /\ wqProducer \in [at : {"idle", "store", "publish"}, items : Nat, bulk : BOOLEAN,
                       front : WqPositions]
    /\ wqConsumer \in [at : {"idle", "read", "advance"}, data : 1 .. WqArrays, item : WqValues]

(* The number of items stored and not yet published.                       *)
WqAhead == IF wqProducer.at = "publish" THEN wqProducer.items ELSE 0

(* The positions counted without wrap-around: f is M_front, b is M_back    *)
(* and p is the M_front that enqueue() loaded.                             *)
WqReal(f, b, p) ==
    /\ p <= f /\ f <= b /\ b - p <= Size(wqData)
    /\ wqFront = f % WqWrap /\ wqBack = b % WqWrap
    /\ (b + WqAhead) - f <= Size(wqData)
    /\ \A i \in f .. (b + WqAhead) - 1 : wqCells[wqData][i % Size(wqData)] = i % WqWrap
    /\ wqProducer.at # "idle" =>
          wqProducer.items \in 1 .. WqCapacity - (IF wqProducer.bulk THEN 1 ELSE 0)
    /\ wqProducer.at # "idle" /\ ~wqProducer.bulk => wqProducer.items = 1
    /\ wqProducer.at = "store" => wqProducer.front = p % WqWrap
    /\ wqConsumer.at # "idle" => f < b
    /\ wqConsumer.at = "read" =>
          /\ wqConsumer.data <= wqData
          /\ wqCells[wqConsumer.data][f % Size(wqConsumer.data)] = f % WqWrap
    /\ wqConsumer.at = "advance" => wqConsumer.item = wqFront

WqInv == WqTypeOK /\ \E f, b, p \in Nat : WqReal(f, b, p)

(* There is more than one position.                                        *)
LEMMA WqWrapFacts == WqWrap \in Nat \ {0} /\ \A i \in Int : i % WqWrap \in WqPositions
<1>1. WqArrays \in 1 .. WqArrays /\ WqWrap \in Nat
  BY WqAssumption
<1>2. Size(WqArrays) \in Nat \ {0} /\ Size(WqArrays) < WqWrap
  BY <1>1, WqSizeRange
<1>3. WqWrap \in Nat \ {0}
  BY <1>1, <1>2
<1> QED
  BY <1>3, CellRange DEF WqPositions

(* The cell of a position, however often it wrapped around.                *)
LEMMA WqCell ==
    ASSUME NEW a \in 1 .. WqArrays, NEW i \in Nat, NEW cells
    PROVE  Pop(cells, a, i % WqWrap) = cells[a][i % Size(a)]
<1>1. PICK m \in Nat : WqWrap = Size(a) * m
  BY WqSizeDivides, Zenon
<1>2. PICK s \in Nat \ {0} : s = Size(a) /\ s < WqWrap /\ WqWrap = s * m
  BY <1>1, WqSizeRange
<1>i. WqWrap \in Nat \ {0} /\ i \in Int
  <2>1. WqWrap \in Nat
    BY WqAssumption
  <2> QED
    BY <1>2, <2>1
<1>3. (i % WqWrap) % s = i % s
  BY <1>2, <1>i, RemainderTwice
<1> QED
  BY <1>2, <1>3 DEF Pop

(* What the invariant says is what a user of the queue sees.               *)
LEMMA WqSafe == WqInv => WindowIntact /\ FirstInFirstOut
<1> HAVE WqInv
<1>1. PICK f \in Nat, b \in Nat, p \in Nat : WqReal(f, b, p)
  BY DEF WqInv
<1>2. wqData \in 1 .. WqArrays /\ WqWrap \in Nat \ {0} /\ wqConsumer.data \in 1 .. WqArrays
  BY WqWrapFacts DEF WqInv, WqTypeOK
<1>s. Size(wqData) \in Nat \ {0} /\ Size(wqData) < WqWrap
  BY <1>2, WqSizeRange
<1>a. WqAhead \in Nat
  BY DEF WqInv, WqTypeOK, WqAhead
<1>3. ASSUME NEW j \in Window(wqBack, wqFront)
      PROVE  Pop(wqCells, wqData, j) = j
  <2>1. f <= b /\ b - f < WqWrap
    <3>1. p <= f /\ f <= b /\ b - p <= Size(wqData)
      BY <1>1 DEF WqReal
    <3> QED
      BY <1>2, <1>s, <3>1
  <2>2. PICK i \in f .. b - 1 : j = i % WqWrap
    <3>1. j \in Window(b % WqWrap, f % WqWrap)
      BY <1>1 DEF WqReal
    <3>2. \A h : h \in Window(b % WqWrap, f % WqWrap) <=> \E i \in f .. b - 1 : h = i % WqWrap
      BY <1>2, <2>1, WqDistance, Zenon
    <3> QED
      BY <3>1, <3>2
  <2>3. i \in f .. (b + WqAhead) - 1 /\ i \in Nat
    BY <1>a
  <2>4. wqCells[wqData][i % Size(wqData)] = i % WqWrap
    BY <1>1, <2>3 DEF WqReal
  <2> QED
    BY <1>2, <2>2, <2>3, <2>4, WqCell
<1>4. ASSUME wqConsumer.at = "read"
      PROVE  Pop(wqCells, wqConsumer.data, wqFront) = wqFront
  BY <1>1, <1>2, <1>4, WqCell DEF WqReal
<1>5. FirstInFirstOut
  BY <1>1 DEF WqReal, FirstInFirstOut
<1> QED
  BY <1>3, <1>4, <1>5 DEF WindowIntact

(* The queue starts empty.                                                 *)
LEMMA WqInitial == WqInit => WqInv
<1> HAVE WqInit
<1>0. /\ WqWrap \in Nat \ {0} /\ WqArrays \in Nat \ {0} /\ 1 \in 1 .. WqArrays
      /\ 0 \in WqPositions /\ WqNone \in WqValues
  <2>1. WqArrays \in Nat \ {0} /\ WqWrap \in Nat /\ 1 \in 1 .. WqArrays
    BY WqAssumption
  <2>2. WqWrap \in Nat \ {0}
    BY WqWrapFacts
  <2> QED
    BY <2>1, <2>2 DEF WqPositions, WqValues
<1>1. /\ wqFront = 0 /\ wqBack = 0 /\ wqData = 1
      /\ wqCells = [a \in 1 .. WqArrays |-> [c \in 0 .. Size(a) - 1 |-> WqNone]]
  BY DEF WqInit
<1>2. /\ wqProducer = [at |-> "idle", items |-> 0, bulk |-> FALSE, front |-> 0]
      /\ wqConsumer = [at |-> "idle", data |-> 1, item |-> WqNone]
  BY DEF WqInit
<1>3. WqTypeOK
  <2>1. wqCells = [a \in 1 .. WqArrays |-> wqCells[a]]
        /\ \A a \in 1 .. WqArrays : wqCells[a] \in [0 .. Size(a) - 1 -> WqValues]
    BY <1>0, <1>1
  <2>2. wqProducer \in [at : {"idle", "store", "publish"}, items : Nat, bulk : BOOLEAN,
                        front : WqPositions]
    BY <1>0, <1>2
  <2>3. wqConsumer \in [at : {"idle", "read", "advance"}, data : 1 .. WqArrays, item : WqValues]
    BY <1>0, <1>2
  <2> QED
    BY <1>0, <1>1, <2>1, <2>2, <2>3 DEF WqTypeOK
<1>4. wqProducer.at = "idle" /\ wqConsumer.at = "idle" /\ WqAhead = 0
  BY <1>2 DEF WqAhead
<1>5. WqReal(0, 0, 0)
  <2>1. 0 % WqWrap = 0
    BY <1>0, RemainderSmall
  <2>2. Size(wqData) \in Nat
    BY <1>0, <1>1, WqSizeRange
  <2> QED
    BY <1>1, <1>4, <2>1, <2>2 DEF WqReal
<1> QED
  BY <1>3, <1>5 DEF WqInv

(* R is what resize() leaves in the arrays for the positions p to b.       *)
WqCopied(R, p, b) ==
    /\ R = [a \in 1 .. WqArrays |-> R[a]]
    /\ \A a \in 1 .. WqArrays : R[a] \in [0 .. Size(a) - 1 -> WqValues]
    /\ \A a \in 1 .. WqArrays : a # wqData + 1 => R[a] = wqCells[a]
    /\ \A i \in p .. b - 1 :
          R[wqData + 1][i % Size(wqData + 1)] = wqCells[wqData][i % Size(wqData)]

(* resize() copies every position from the loaded front on to the next     *)
(* array and leaves the others as they were.                               *)
LEMMA WqResized ==
    ASSUME WqTypeOK, wqData + 1 \in 1 .. WqArrays, NEW p \in Nat, NEW b \in Nat, p <= b,
           b - p <= Size(wqData), wqBack = b % WqWrap, NEW R,
           R = Resized(wqCells, p % WqWrap)
    PROVE  WqCopied(R, p, b)
<1>1. /\ wqData \in 1 .. WqArrays
      /\ wqCells = [a \in 1 .. WqArrays |-> wqCells[a]]
      /\ \A a \in 1 .. WqArrays : wqCells[a] \in [0 .. Size(a) - 1 -> WqValues]
  BY DEF WqTypeOK
<1>w. WqWrap \in Nat \ {0}
  BY WqWrapFacts
<1>2. PICK S \in Nat \ {0}, T \in Nat \ {0} : S = Size(wqData) /\ T = Size(wqData + 1) /\ S < T
                                              /\ S < WqWrap /\ T < WqWrap
  <2>1. wqData < WqArrays
    BY <1>1, WqAssumption
  <2>2. Size(wqData + 1) = 2 * Size(wqData)
    BY <1>1, <2>1, WqSizeDoubles
  <2>3. Size(wqData) \in Nat \ {0} /\ Size(wqData) < WqWrap /\ Size(wqData + 1) < WqWrap
    BY <1>1, WqSizeRange
  <2> QED
    BY <2>2, <2>3
<1> DEFINE V == Window(wqBack, p % WqWrap)
           new == [c \in DOMAIN wqCells[wqData + 1] |->
                     IF \E i \in V : i % Size(wqData + 1) = c
                     THEN Pop(wqCells, wqData, CHOOSE i \in V : i % Size(wqData + 1) = c)
                     ELSE WqNone]
<1>3. R = [wqCells EXCEPT ![wqData + 1] = new]
  BY Zenon DEF Resized
<1>4. \A j : j \in V <=> \E i \in p .. b - 1 : j = i % WqWrap
  <2>1. b - p < WqWrap
    BY <1>2, <1>w
  <2> QED
    <3>1. \A j : j \in Window(b % WqWrap, p % WqWrap) <=> \E i \in p .. b - 1 : j = i % WqWrap
      BY <1>w, <2>1, WqDistance, Zenon
    <3> HIDE DEF new
    <3> QED
      BY <3>1, Zenon
<1>d. DOMAIN wqCells[wqData + 1] = 0 .. T - 1
  BY <1>1, <1>2
<1> HIDE DEF V
<1>5. \A i \in p .. b - 1 : Pop(wqCells, wqData, i % WqWrap) = wqCells[wqData][i % S]
                            /\ (i % WqWrap) % T = i % T
  <2> TAKE i \in p .. b - 1
  <2>1. i \in Nat /\ i \in Int
    OBVIOUS
  <2>2. Pop(wqCells, wqData, i % WqWrap) = wqCells[wqData][i % S]
    BY <1>1, <1>2, <2>1, WqCell
  <2>3. PICK m \in Nat : WqWrap = T * m
    BY <1>2, WqSizeDivides, Zenon
  <2>4. (i % WqWrap) % T = i % T
    BY <1>w, <2>1, <2>3, RemainderTwice, Zenon
  <2> QED
    BY <2>2, <2>4
<1>6. \A c \in 0 .. T - 1 :
         new[c] = IF \E i \in V : i % T = c
                  THEN Pop(wqCells, wqData, CHOOSE i \in V : i % T = c) ELSE WqNone
  BY <1>2, <1>d, Zenon
<1>7. \A i \in p .. b - 1 : new[i % T] = wqCells[wqData][i % S]
  <2> TAKE i \in p .. b - 1
  <2>1. i % T \in 0 .. T - 1
    BY CellRange
  <2>2. i % WqWrap \in V /\ (i % WqWrap) % T = i % T
    BY <1>4, <1>5
  <2>3. \A j \in V : j % T = i % T => j = i % WqWrap
    <3> TAKE j \in V
    <3> HAVE j % T = i % T
    <3>1. PICK h \in p .. b - 1 : j = h % WqWrap
      BY <1>4
    <3>2. h % T = i % T
      BY <1>5, <3>1
    <3>3. h \in Int /\ i \in Int /\ h < i + T /\ i < h + T
      BY <1>2
    <3> HIDE DEF new
    <3>4. ~(h < i)
      BY <3>2, <3>3, CellsDiffer
    <3>5. ~(i < h)
      BY <3>2, <3>3, CellsDiffer
    <3> QED
      BY <3>1, <3>3, <3>4, <3>5
  <2> DEFINE v == CHOOSE j \in V : j % T = i % T
  <2>4. v \in V /\ v % T = i % T
    <3> HIDE DEF new
    <3> QED
      BY <2>2, Zenon
  <2>5. v = i % WqWrap
    <3> HIDE DEF v, new
    <3> QED
      BY <2>3, <2>4
  <2>6. new[i % T] = Pop(wqCells, wqData, v)
    <3> HIDE DEF new
    <3> QED
      BY <1>6, <2>1, <2>2, Zenon
  <2> HIDE DEF v, new
  <2> QED
    BY <1>5, <2>5, <2>6
<1>8. new \in [0 .. T - 1 -> WqValues]
  <2>1. new = [c \in 0 .. T - 1 |-> new[c]]
    BY <1>d, Zenon
  <2>2. \A c \in 0 .. T - 1 : new[c] \in WqValues
    <3> TAKE c \in 0 .. T - 1
    <3>1. CASE \E i \in V : i % T = c
      <4> DEFINE v == CHOOSE j \in V : j % T = c
      <4> HIDE DEF new
      <4>1. v \in V
        BY <3>1, Zenon
      <4>2. new[c] = Pop(wqCells, wqData, v)
        BY <1>6, <3>1, Zenon
      <4> HIDE DEF v
      <4>3. PICK i \in p .. b - 1 : v = i % WqWrap
        BY <1>4, <4>1
      <4>4. new[c] = wqCells[wqData][i % S] /\ i % S \in 0 .. S - 1
        <5>1. Pop(wqCells, wqData, i % WqWrap) = wqCells[wqData][i % S]
          BY <1>5
        <5>2. i % S \in 0 .. S - 1
          BY CellRange
        <5> QED
          BY <4>2, <4>3, <5>1, <5>2
      <4> QED
        BY <1>1, <1>2, <4>4
    <3>2. CASE ~\E i \in V : i % T = c
      <4>1. new[c] = WqNone
        <5> HIDE DEF new
        <5> QED
          BY <1>6, <3>2, Zenon
      <4> HIDE DEF new
      <4> QED
        BY <4>1 DEF WqValues
    <3> QED
      BY <3>1, <3>2
  <2> HIDE DEF new
  <2> QED
    BY <2>1, <2>2
<1> HIDE DEF new
<1>9. \A a \in 1 .. WqArrays : R[a] = IF a = wqData + 1 THEN new ELSE wqCells[a]
  BY <1>1, <1>3
<1>10. R = [a \in 1 .. WqArrays |-> R[a]]
  BY <1>1, <1>3
<1>11. R[wqData + 1] = new
  BY <1>9
<1> QED
  BY <1>1, <1>2, <1>7, <1>8, <1>9, <1>10, <1>11 DEF WqCopied

(* enqueue() and bulk_enqueue() grow exactly when the array would overflow *)
(* as counted from the front they loaded.                                  *)
LEMMA WqFull ==
    ASSUME NEW S \in Nat \ {0}, S = Size(wqData), S < WqWrap, NEW p \in Nat, NEW b \in Nat, p <= b,
           b - p <= S, wqBack = b % WqWrap, NEW x \in 0 .. S - 1
    PROVE  Full(p % WqWrap, x) <=> (S - 1) - x < b - p
<1>w. WqWrap \in Nat \ {0}
  BY WqWrapFacts
<1>1. Distance(b % WqWrap, p % WqWrap) = b - p
  <2>1. b - p < WqWrap
    BY <1>w
  <2> QED
    BY <1>w, <2>1, WqDistance, Zenon
<1>2. PICK y \in 0 .. WqWrap - 1 : y = (S - 1) - x
  <2>1. (S - 1) - x \in 0 .. WqWrap - 1
    BY <1>w
  <2> QED
    BY <2>1
<1>3. y % WqWrap = y
  BY <1>w, RemainderSmall
<1> QED
  BY <1>1, <1>2, <1>3 DEF Full

(* n items were stored behind the b-th position of array a, which has room *)
(* for them and held what base has: the array itself or the resized one.   *)
WqPlaced(a, n, base, f, b, p) ==
    /\ n = wqProducer.items /\ wqData' = a /\ wqData <= a
    /\ (b + n) - p <= Size(a) /\ b - p <= Size(a)
    /\ base = [c \in 1 .. WqArrays |-> base[c]]
    /\ \A c \in 1 .. WqArrays : base[c] \in [0 .. Size(c) - 1 -> WqValues]
    /\ \A i \in f .. b - 1 : base[a][i % Size(a)] = i % WqWrap
    /\ \A c \in 1 .. WqArrays : c # a => base[c] = wqCells[c]
    /\ a = wqData => base = wqCells
    /\ wqCells' = [base EXCEPT ![a] = WqRow(Size(a), n, wqBack, base[a])]

(* What enqueue() and bulk_enqueue() store: n items behind the b-th        *)
(* position of array a, in which there is room for them.                   *)
LEMMA WqStored ==
    ASSUME WqTypeOK, NEW f \in Nat, NEW b \in Nat, NEW p \in Nat, WqReal(f, b, p), EnqueueStore
    PROVE  \E a \in 1 .. WqArrays : \E n \in Nat : \E base : WqPlaced(a, n, base, f, b, p)
<1>1. /\ p <= f /\ f <= b /\ b - p <= Size(wqData) /\ wqBack = b % WqWrap
      /\ wqProducer.at = "store" /\ wqProducer.front = p % WqWrap
  BY DEF WqReal, EnqueueStore
<1>t. /\ wqData \in 1 .. WqArrays /\ wqProducer.bulk \in BOOLEAN /\ wqProducer.items \in Nat
      /\ wqCells = [a \in 1 .. WqArrays |-> wqCells[a]]
      /\ \A a \in 1 .. WqArrays : wqCells[a] \in [0 .. Size(a) - 1 -> WqValues]
  BY DEF WqTypeOK
<1>c. \A i \in f .. b - 1 : wqCells[wqData][i % Size(wqData)] = i % WqWrap
  <2>1. WqAhead = 0
    BY <1>1 DEF WqAhead
  <2>2. b + 0 = b
    OBVIOUS
  <2> QED
    BY <2>1, <2>2 DEF WqReal
<1>2. PICK S \in Nat \ {0} : S = Size(wqData) /\ S < WqWrap /\ WqCapacity <= S
  BY <1>t, WqSizeRange
<1>3. PICK n \in Nat : /\ n = wqProducer.items
                       /\ n \in 1 .. WqCapacity - (IF wqProducer.bulk THEN 1 ELSE 0)
                       /\ ~wqProducer.bulk => n = 1
  BY <1>1, <1>t DEF WqReal
<1>4. PICK x \in Nat : /\ x = IF wqProducer.bulk THEN wqProducer.items ELSE 0
                       /\ x \in 0 .. S - 1 /\ n <= S /\ (x = n \/ (n = 1 /\ x = 0))
  <2>0. WqCapacity \in Nat
    BY WqAssumption
  <2>1. CASE wqProducer.bulk
    <3>1. n <= WqCapacity - 1
      BY <1>3, <2>0, <2>1
    <3>2. n \in 0 .. S - 1 /\ n <= S
      BY <1>2, <2>0, <3>1
    <3>3. n = IF wqProducer.bulk THEN wqProducer.items ELSE 0
      BY <1>3, <2>1
    <3> WITNESS n \in Nat
    <3> QED
      BY <3>2, <3>3, Zenon
  <2>2. CASE ~wqProducer.bulk
    BY <1>2, <1>3, <2>0, <2>2
  <2> QED
    BY <1>t, <2>1, <2>2
<1>5. PICK grow \in BOOLEAN : /\ grow = Full(wqProducer.front,
                                             IF wqProducer.bulk THEN wqProducer.items ELSE 0)
                              /\ grow <=> (S - 1) - x < b - p
  <2>1. Full(p % WqWrap, x) <=> (S - 1) - x < b - p
    <3>1. p <= b /\ b - p <= S
      BY <1>1, <1>2
    <3> QED
      BY <1>1, <1>2, <1>4, <3>1, WqFull
  <2>2. Full(p % WqWrap, x) \in BOOLEAN
    BY DEF Full
  <2> QED
    BY <1>1, <1>4, <2>1, <2>2
<1>6. PICK a : a = IF grow THEN wqData + 1 ELSE wqData
  OBVIOUS
<1>7. PICK base : base = IF grow THEN Resized(wqCells, p % WqWrap) ELSE wqCells
  OBVIOUS
<1>8. /\ a <= WqArrays /\ wqData' = a
      /\ wqCells' = [base EXCEPT ![a] =
            [c \in DOMAIN base[a] |->
               IF {k \in 0 .. n - 1 : (wqBack + k) % Size(a) = c} = {} THEN base[a][c]
               ELSE (wqBack + CHOOSE k \in {k \in 0 .. n - 1 :
                         (wqBack + k) % Size(a) = c} : TRUE) % WqWrap]]
  <2> DEFINE m    == wqProducer.items
             g    == Full(wqProducer.front, IF wqProducer.bulk THEN m ELSE 0)
             h    == IF g THEN wqData + 1 ELSE wqData
             from == IF g THEN Resized(wqCells, wqProducer.front) ELSE wqCells
             stored(l, d, e) ==
                [e EXCEPT ![d] = [c \in DOMAIN e[d] |->
                   IF {k \in 0 .. l - 1 : (wqBack + k) % Size(d) = c} = {} THEN e[d][c]
                   ELSE (wqBack + CHOOSE k \in {k \in 0 .. l - 1 :
                             (wqBack + k) % Size(d) = c} : TRUE) % WqWrap]]
  <2>1. h <= WqArrays /\ wqData' = h /\ wqCells' = stored(m, h, from)
    BY Zenon DEF EnqueueStore
  <2>2. m = n /\ h = a /\ from = base
    BY <1>1, <1>3, <1>5, <1>6, <1>7
  <2> HIDE DEF m, h, from, stored
  <2>3. a <= WqArrays /\ wqData' = a /\ wqCells' = stored(n, a, base)
    BY <2>1, <2>2
  <2> QED
    BY <2>3 DEF stored
<1>9. a \in 1 .. WqArrays /\ wqData <= a
  BY <1>t, <1>6, <1>8, WqAssumption
<1>10. (b + n) - p <= Size(a) /\ b - p <= Size(a)
  <2>1. b - p <= S
    BY <1>1, <1>2
  <2>2. CASE grow
    <3>1. a = wqData + 1 /\ wqData < WqArrays
      BY <1>t, <1>6, <1>9, <2>2, WqAssumption
    <3>2. Size(a) = 2 * S
      BY <1>t, <1>2, <3>1, WqSizeDoubles
    <3> QED
      BY <1>4, <2>1, <3>2
  <2>3. CASE ~grow
    <3>1. Size(a) = S /\ b - p <= (S - 1) - x
      BY <1>2, <1>4, <1>5, <1>6, <2>3
    <3> QED
      BY <1>4, <3>1
  <2> QED
    BY <2>2, <2>3
<1>11. /\ base = [c \in 1 .. WqArrays |-> base[c]]
       /\ \A c \in 1 .. WqArrays : base[c] \in [0 .. Size(c) - 1 -> WqValues]
       /\ \A i \in f .. b - 1 : base[a][i % Size(a)] = i % WqWrap
       /\ \A c \in 1 .. WqArrays : c # a => base[c] = wqCells[c]
       /\ a = wqData => base = wqCells
  <2>1. CASE grow
    <3>1. a = wqData + 1 /\ base = Resized(wqCells, p % WqWrap) /\ a # wqData
      BY <1>t, <1>6, <1>7, <2>1
    <3>2. p <= b /\ wqData + 1 \in 1 .. WqArrays
      BY <1>1, <1>9, <3>1
    <3>3. /\ base = [c \in 1 .. WqArrays |-> base[c]]
          /\ \A c \in 1 .. WqArrays : base[c] \in [0 .. Size(c) - 1 -> WqValues]
          /\ \A c \in 1 .. WqArrays : c # wqData + 1 => base[c] = wqCells[c]
          /\ \A i \in p .. b - 1 :
                base[wqData + 1][i % Size(wqData + 1)] = wqCells[wqData][i % Size(wqData)]
      <4>1. wqData + 1 \in 1 .. WqArrays
        BY <3>2
      <4>2. p <= b
        BY <3>2
      <4>3. b - p <= Size(wqData)
        BY <1>1
      <4>4. wqBack = b % WqWrap
        BY <1>1
      <4>5. base = Resized(wqCells, p % WqWrap)
        BY <3>1
      <4> QED
        <5>1. WqCopied(base, p, b)
          BY <4>1, <4>2, <4>3, <4>4, <4>5, WqResized
        <5> QED
          BY <5>1, Zenon DEF WqCopied
    <3>4. \A i \in f .. b - 1 : base[a][i % Size(a)] = i % WqWrap
      <4> TAKE i \in f .. b - 1
      <4>1. i \in p .. b - 1
        BY <1>1
      <4>2. base[a][i % Size(a)] = wqCells[wqData][i % Size(wqData)]
        BY <3>1, <3>3, <4>1, Zenon
      <4> QED
        BY <1>c, <4>2
    <3> QED
      BY <3>1, <3>3, <3>4, Zenon
  <2>2. CASE ~grow
    <3>1. a = wqData /\ base = wqCells
      BY <1>6, <1>7, <2>2
    <3> QED
      BY <1>t, <1>c, <3>1, Zenon
  <2> QED
    BY <2>1, <2>2
<1>12. DOMAIN base[a] = 0 .. Size(a) - 1
  BY <1>9, <1>11
<1>13. wqCells' = [base EXCEPT ![a] = WqRow(Size(a), n, wqBack, base[a])]
  BY <1>8, <1>12, Zenon DEF WqRow
<1>14. a \in 1 .. WqArrays
  BY <1>9
<1> WITNESS a \in 1 .. WqArrays
<1> WITNESS n \in Nat
<1> WITNESS base
<1> QED
  BY <1>3, <1>8, <1>9, <1>10, <1>11, <1>13, Zenon DEF WqPlaced

(* Storing items keeps the invariant: they go behind the published ones,   *)
(* in cells that no position from the front on uses.                       *)
LEMMA WqStoreStep == ASSUME WqInv, EnqueueStore PROVE WqInv'
<1>1. PICK f \in Nat, b \in Nat, p \in Nat : WqReal(f, b, p)
  BY DEF WqInv
<1>t. /\ WqTypeOK /\ wqProducer.items \in Nat /\ wqFront \in WqPositions /\ wqBack \in WqPositions
      /\ wqProducer \in [at : {"idle", "store", "publish"}, items : Nat, bulk : BOOLEAN,
                         front : WqPositions]
      /\ wqConsumer \in [at : {"idle", "read", "advance"}, data : 1 .. WqArrays, item : WqValues]
  BY DEF WqInv, WqTypeOK
<1>2. PICK a \in 1 .. WqArrays : \E n \in Nat : \E base : WqPlaced(a, n, base, f, b, p)
  BY <1>1, <1>t, WqStored
<1>n. PICK n \in Nat : \E base : WqPlaced(a, n, base, f, b, p)
  BY <1>2
<1>b. PICK base : WqPlaced(a, n, base, f, b, p)
  BY <1>n
<1>3. /\ wqProducer.at = "store" /\ wqProducer' = [wqProducer EXCEPT !.at = "publish"]
      /\ wqFront' = wqFront /\ wqBack' = wqBack /\ wqConsumer' = wqConsumer
  BY Zenon DEF EnqueueStore
<1>4. PICK S \in Nat \ {0}, m \in Nat : S = Size(a) /\ WqWrap = S * m
  <2>1. Size(a) \in Nat \ {0}
    BY WqSizeRange
  <2>2. \E m \in Nat : WqWrap = Size(a) * m
    BY WqSizeDivides, Zenon
  <2> QED
    BY <2>1, <2>2, Zenon
<1>w. WqWrap \in Nat \ {0} /\ \A i \in Int : i % WqWrap \in WqPositions
  BY WqWrapFacts
<1> DEFINE row == WqRow(S, n, wqBack, base[a])
<1>5. wqCells' = [base EXCEPT ![a] = row]
  BY <1>b, <1>4, Zenon DEF WqPlaced
<1>6. /\ \A i \in f .. b - 1 : row[i % S] = base[a][i % S]
      /\ \A i \in b .. (b + n) - 1 : row[i % S] = i % WqWrap
  <2>3. wqBack = b % WqWrap /\ f <= b /\ p <= f
    BY <1>1 DEF WqReal
  <2>4. (b + n) - f <= S
    <3>1. (b + n) - p <= S
      BY <1>b, <1>4 DEF WqPlaced
    <3> QED
      BY <2>3, <3>1
  <2>5. f <= b /\ wqBack = b % WqWrap
    BY <2>3
  <2>6. PICK bs, y : bs = base[a] /\ y = wqBack
    OBVIOUS
  <2>7. f <= b
    BY <2>5
  <2>8. y = b % WqWrap
    BY <2>5, <2>6
  <2>9. WqWrap = S * m
    BY <1>4
  <2>10. WqWrap \in Nat \ {0}
    BY <1>w
  <2>11. WqBehind(S, n, y, bs, f, b)
    BY ONLY S \in Nat \ {0}, n \in Nat, f \in Nat, b \in Nat, m \in Nat,
            <2>4, <2>7, <2>8, <2>9, <2>10, WqPushed
  <2> QED
    BY <2>6, <2>11, Zenon DEF WqBehind
<1>7. row \in [0 .. S - 1 -> WqValues]
  <2> DEFINE E(c) == IF {k \in 0 .. n - 1 : (wqBack + k) % S = c} = {} THEN base[a][c]
                     ELSE (wqBack + CHOOSE k \in {k \in 0 .. n - 1 : (wqBack + k) % S = c} :
                               TRUE) % WqWrap
  <2>1. row = [c \in 0 .. S - 1 |-> E(c)]
    BY DEF WqRow
  <2>2. \A c \in 0 .. S - 1 : E(c) \in WqValues
    <3> TAKE c \in 0 .. S - 1
    <3> DEFINE new == {k \in 0 .. n - 1 : (wqBack + k) % S = c}
    <3>0. E(c) = IF new = {} THEN base[a][c] ELSE (wqBack + CHOOSE k \in new : TRUE) % WqWrap
      BY Zenon
    <3>1. CASE new = {}
      <4> HIDE DEF new, row, E
      <4> QED
        BY <1>b, <1>4, <3>0, <3>1 DEF WqPlaced
    <3>2. CASE new # {}
      <4>1. (CHOOSE k \in new : TRUE) \in new
        <5> HIDE DEF new, row, E
        <5> QED
          BY <3>2
      <4>2. \A k \in new : k \in Int
        OBVIOUS
      <4> HIDE DEF new, row, E
      <4>3. PICK k \in Int : k = CHOOSE h \in new : TRUE
        BY <4>1, <4>2
      <4>4. wqBack \in Int
        BY <1>t, <1>w DEF WqPositions
      <4>5. E(c) = (wqBack + k) % WqWrap /\ wqBack + k \in Int
        BY <3>0, <3>2, <4>3, <4>4
      <4> QED
        BY <1>w, <4>5 DEF WqValues
    <3> QED
      BY <3>1, <3>2
  <2> HIDE DEF row, E
  <2> QED
    BY <2>1, <2>2
<1> HIDE DEF row
<1>8. /\ \A c \in 1 .. WqArrays : wqCells'[c] = IF c = a THEN row ELSE base[c]
      /\ wqCells' = [c \in 1 .. WqArrays |-> wqCells'[c]]
  <2>1. base = [c \in 1 .. WqArrays |-> base[c]]
    BY <1>b, Zenon DEF WqPlaced
  <2> QED
    BY <1>5, <2>1
<1>9. WqTypeOK'
  <2>1. \A c \in 1 .. WqArrays : wqCells'[c] \in [0 .. Size(c) - 1 -> WqValues]
    <3>1. \A c \in 1 .. WqArrays : base[c] \in [0 .. Size(c) - 1 -> WqValues]
      BY <1>b, Zenon DEF WqPlaced
    <3> QED
      BY <1>4, <1>7, <1>8, <3>1
  <2>2. wqProducer' \in [at : {"idle", "store", "publish"}, items : Nat, bulk : BOOLEAN,
                         front : WqPositions]
    BY <1>3, <1>t
  <2>3. wqData' \in 1 .. WqArrays
    BY <1>b, Zenon DEF WqPlaced
  <2> QED
    BY <1>3, <1>8, <1>t, <2>1, <2>2, <2>3 DEF WqTypeOK
<1>10. WqReal(f, b, p)'
  <2>1. wqProducer'.at = "publish" /\ wqProducer'.items = n /\ wqProducer'.bulk = wqProducer.bulk
    <3>1. wqProducer.items = n
      BY <1>b, Zenon DEF WqPlaced
    <3> QED
      BY <1>3, <1>t, <3>1
  <2>2. WqAhead' = n
    BY <2>1 DEF WqAhead
  <2>3. wqData' = a /\ wqData <= a
    BY <1>b, Zenon DEF WqPlaced
  <2>4. (b + n) - p <= S /\ b - p <= S
    <3>1. (b + n) - p <= Size(a) /\ b - p <= Size(a)
      BY <1>b, Zenon DEF WqPlaced
    <3> QED
      BY <1>4, <3>1
  <2>5. /\ p <= f /\ f <= b /\ wqFront = f % WqWrap /\ wqBack = b % WqWrap
        /\ (wqConsumer.at # "idle" => f < b)
        /\ (wqConsumer.at = "advance" => wqConsumer.item = wqFront)
    BY <1>1 DEF WqReal
  <2>6. (b + n) - f <= S
    BY <2>4, <2>5
  <2>7. \A i \in f .. b - 1 : row[i % S] = i % WqWrap
    <3>1. \A i \in f .. b - 1 : base[a][i % Size(a)] = i % WqWrap
      BY <1>b, Zenon DEF WqPlaced
    <3> QED
      BY <1>4, <1>6, <3>1, Zenon
  <2>8. \A i \in f .. (b + n) - 1 : row[i % S] = i % WqWrap
    <3> TAKE i \in f .. (b + n) - 1
    <3>1. i \in f .. b - 1 \/ i \in b .. (b + n) - 1
      OBVIOUS
    <3> QED
      BY <1>6, <2>7, <3>1, Zenon
  <2>9. wqCells'[a] = row
    BY <1>8
  <2>10. n \in 1 .. WqCapacity - (IF wqProducer.bulk THEN 1 ELSE 0) /\ (~wqProducer.bulk => n = 1)
    <3>1. wqProducer.items = n
      BY <1>b, Zenon DEF WqPlaced
    <3> QED
      BY <1>1, <1>3, <3>1 DEF WqReal
  <2>11. ASSUME wqConsumer.at = "read"
         PROVE  /\ wqConsumer.data <= a
                /\ wqCells'[wqConsumer.data][f % Size(wqConsumer.data)] = f % WqWrap
    <3>1. /\ wqConsumer.data <= wqData /\ wqConsumer.data \in 1 .. WqArrays
          /\ wqCells[wqConsumer.data][f % Size(wqConsumer.data)] = f % WqWrap
      BY <1>1, <1>t, <2>11 DEF WqReal
    <3>2. CASE wqConsumer.data = a
      <4>1. f \in f .. b - 1
        BY <2>5, <2>11
      <4> QED
        BY <1>4, <2>7, <2>9, <3>2, <4>1
    <3>3. CASE wqConsumer.data # a
      <4>1. base[wqConsumer.data] = wqCells[wqConsumer.data]
        BY <1>b, <3>1, <3>3, Zenon DEF WqPlaced
      <4>2. wqCells'[wqConsumer.data] = wqCells[wqConsumer.data]
        BY <1>8, <3>1, <3>3, <4>1
      <4>3. wqConsumer.data <= a
        <5>1. wqData \in Nat
          BY <1>t DEF WqTypeOK
        <5> QED
          BY <2>3, <3>1, <5>1
      <4> QED
        BY <3>1, <4>2, <4>3
    <3> QED
      BY <3>2, <3>3, <3>1, <2>3
  <2> QED
    BY <1>3, <1>4, <2>1, <2>2, <2>3, <2>4, <2>5, <2>6, <2>8, <2>9, <2>10, <2>11 DEF WqReal
<1> QED
  BY <1>9, <1>10 DEF WqInv

(* Loading M_front starts a new count from the front.                      *)
LEMMA WqLoadStep ==
    ASSUME WqInv, NEW n \in Nat, NEW bulk \in BOOLEAN, EnqueueLoad(n, bulk),
           n \in 1 .. WqCapacity - (IF bulk THEN 1 ELSE 0), ~bulk => n = 1
    PROVE  WqInv'
<1>1. PICK f \in Nat, b \in Nat, p \in Nat : WqReal(f, b, p)
  BY DEF WqInv
<1>2. /\ wqProducer.at = "idle"
      /\ wqProducer' = [at |-> "store", items |-> n, bulk |-> bulk, front |-> wqFront]
      /\ wqFront' = wqFront /\ wqBack' = wqBack /\ wqData' = wqData /\ wqCells' = wqCells
      /\ wqConsumer' = wqConsumer
  BY Zenon DEF EnqueueLoad
<1>3. WqTypeOK /\ wqFront \in WqPositions /\ wqData \in 1 .. WqArrays
  BY DEF WqInv, WqTypeOK
<1>4. WqTypeOK'
  <2>1. wqProducer' \in [at : {"idle", "store", "publish"}, items : Nat, bulk : BOOLEAN,
                         front : WqPositions]
    BY <1>2, <1>3
  <2> QED
    BY <1>2, <1>3, <2>1 DEF WqTypeOK
<1>5. WqReal(f, b, f)'
  <2>1. /\ wqProducer'.at = "store" /\ wqProducer'.items = n /\ wqProducer'.bulk = bulk
        /\ wqProducer'.front = wqFront
    BY <1>2
  <2>2. WqAhead = 0 /\ WqAhead' = 0
    BY <1>2, <2>1 DEF WqAhead
  <2>3. Size(wqData) \in Nat
    BY <1>3, WqSizeRange
  <2>4. /\ p <= f /\ f <= b /\ b - p <= Size(wqData)
        /\ wqFront = f % WqWrap /\ wqBack = b % WqWrap
        /\ \A i \in f .. (b + 0) - 1 : wqCells[wqData][i % Size(wqData)] = i % WqWrap
        /\ wqConsumer.at # "idle" => f < b
        /\ wqConsumer.at = "read" =>
              /\ wqConsumer.data <= wqData
              /\ wqCells[wqConsumer.data][f % Size(wqConsumer.data)] = f % WqWrap
        /\ wqConsumer.at = "advance" => wqConsumer.item = wqFront
    BY <1>1, <2>2 DEF WqReal
  <2>5. f <= f /\ b - f <= Size(wqData) /\ (b + 0) - f <= Size(wqData)
    BY <2>3, <2>4
  <2> QED
    BY <1>2, <2>1, <2>2, <2>4, <2>5 DEF WqReal
<1> QED
  BY <1>4, <1>5 DEF WqInv

(* Publishing makes the stored items part of the window.                   *)
LEMMA WqPublishStep == ASSUME WqInv, EnqueuePublish PROVE WqInv'
<1>1. PICK f \in Nat, b \in Nat, p \in Nat : WqReal(f, b, p)
  BY DEF WqInv
<1>t. /\ WqTypeOK /\ wqFront \in WqPositions /\ wqData \in 1 .. WqArrays /\ wqProducer.items \in Nat
  BY DEF WqInv, WqTypeOK
<1>2. /\ wqProducer.at = "publish" /\ wqBack' = (wqBack + wqProducer.items) % WqWrap
      /\ wqProducer' = [at |-> "idle", items |-> 0, bulk |-> FALSE, front |-> 0]
      /\ wqFront' = wqFront /\ wqData' = wqData /\ wqCells' = wqCells /\ wqConsumer' = wqConsumer
  BY Zenon DEF EnqueuePublish
<1>n. PICK n \in Nat : n = wqProducer.items
  BY <1>t
<1>w. WqWrap \in Nat \ {0} /\ \A i \in Int : i % WqWrap \in WqPositions
  BY WqWrapFacts
<1>3. PICK e \in Nat : e = b + n
  OBVIOUS
<1>4. wqBack' = e % WqWrap
  <2>1. wqBack = b % WqWrap
    BY <1>1 DEF WqReal
  <2>2. b \in Int /\ n \in Int
    OBVIOUS
  <2>3. ((b % WqWrap) + n) % WqWrap = (b + n) % WqWrap
    BY <1>w, <2>2, RemainderSum
  <2> QED
    BY <1>2, <1>n, <1>3, <2>1, <2>3
<1>5. WqTypeOK'
  <2>1. wqBack' \in WqPositions
    BY <1>w, <1>4
  <2>2. wqProducer' \in [at : {"idle", "store", "publish"}, items : Nat, bulk : BOOLEAN,
                         front : WqPositions]
    <3>1. 0 \in WqPositions
      BY <1>w DEF WqPositions
    <3> QED
      BY <1>2, <3>1
  <2> QED
    BY <1>2, <1>t, <2>1, <2>2 DEF WqTypeOK
<1>6. WqReal(f, e, f)'
  <2>1. WqAhead = n /\ WqAhead' = 0 /\ wqProducer'.at = "idle"
    BY <1>2, <1>n DEF WqAhead
  <2>2. Size(wqData) \in Nat
    BY <1>t, WqSizeRange
  <2>3. /\ f <= b /\ (b + n) - f <= Size(wqData)
        /\ wqFront = f % WqWrap
        /\ \A i \in f .. (b + n) - 1 : wqCells[wqData][i % Size(wqData)] = i % WqWrap
        /\ wqConsumer.at # "idle" => f < b
        /\ wqConsumer.at = "read" =>
              /\ wqConsumer.data <= wqData
              /\ wqCells[wqConsumer.data][f % Size(wqConsumer.data)] = f % WqWrap
        /\ wqConsumer.at = "advance" => wqConsumer.item = wqFront
    BY <1>1, <2>1 DEF WqReal
  <2>4. f <= f /\ f <= e /\ e - f <= Size(wqData) /\ (e + 0) - f <= Size(wqData)
    BY <1>3, <2>2, <2>3
  <2>5. \A i \in f .. (e + 0) - 1 : wqCells[wqData][i % Size(wqData)] = i % WqWrap
    <3>1. (e + 0) - 1 = (b + n) - 1
      BY <1>3
    <3> QED
      BY <2>3, <3>1
  <2>6. wqConsumer.at # "idle" => f < e
    BY <1>3, <2>3
  <2> QED
    BY <1>2, <1>4, <2>1, <2>3, <2>4, <2>5, <2>6 DEF WqReal
<1> QED
  BY <1>5, <1>6 DEF WqInv

(* dequeue() loads the array that holds the front, ...                     *)
LEMMA WqDequeueLoadStep == ASSUME WqInv, DequeueLoad PROVE WqInv'
<1>1. PICK f \in Nat, b \in Nat, p \in Nat : WqReal(f, b, p)
  BY DEF WqInv
<1>t. WqTypeOK /\ wqData \in 1 .. WqArrays /\ WqNone \in WqValues
  BY DEF WqInv, WqTypeOK, WqValues
<1>2. /\ wqConsumer.at = "idle" /\ wqBack # wqFront
      /\ wqConsumer' = [at |-> "read", data |-> wqData, item |-> WqNone]
      /\ wqFront' = wqFront /\ wqData' = wqData /\ wqCells' = wqCells /\ wqProducer' = wqProducer
      /\ wqBack' = wqBack
  BY Zenon DEF DequeueLoad
<1>3. WqTypeOK'
  <2>1. wqConsumer' \in [at : {"idle", "read", "advance"}, data : 1 .. WqArrays, item : WqValues]
    BY <1>2, <1>t
  <2> QED
    BY <1>2, <1>t, <2>1 DEF WqTypeOK
<1>4. WqReal(f, b, p)'
  <2>1. wqConsumer'.at = "read" /\ wqConsumer'.data = wqData
    BY <1>2
  <2>2. WqAhead' = WqAhead
    BY <1>2 DEF WqAhead
  <2>3. f < b
    <3>1. wqFront = f % WqWrap /\ wqBack = b % WqWrap /\ f <= b
      BY <1>1 DEF WqReal
    <3>2. f # b
      BY <1>2, <3>1
    <3> QED
      BY <3>1, <3>2
  <2>4. wqCells[wqData][f % Size(wqData)] = f % WqWrap
    <3>1. WqAhead \in Nat
      BY <1>t DEF WqTypeOK, WqAhead
    <3>2. f \in f .. (b + WqAhead) - 1
      BY <2>3, <3>1
    <3> QED
      BY <1>1, <3>2 DEF WqReal
  <2>5. wqData <= wqData
    BY <1>t
  <2> QED
    BY <1>1, <1>2, <2>1, <2>2, <2>3, <2>4, <2>5 DEF WqReal
<1> QED
  BY <1>3, <1>4 DEF WqInv

(* ... reads the front from it, grown or not since, ...                    *)
LEMMA WqDequeueReadStep == ASSUME WqInv, DequeueRead PROVE WqInv'
<1>1. PICK f \in Nat, b \in Nat, p \in Nat : WqReal(f, b, p)
  BY DEF WqInv
<1>t. /\ WqTypeOK /\ wqFront \in WqPositions
      /\ wqConsumer \in [at : {"idle", "read", "advance"}, data : 1 .. WqArrays, item : WqValues]
  BY DEF WqInv, WqTypeOK
<1>2. /\ wqConsumer.at = "read"
      /\ wqConsumer' = [wqConsumer EXCEPT !.at = "advance",
                          !.item = Pop(wqCells, wqConsumer.data, wqFront)]
      /\ wqFront' = wqFront /\ wqData' = wqData /\ wqCells' = wqCells /\ wqProducer' = wqProducer
      /\ wqBack' = wqBack
  BY Zenon DEF DequeueRead
<1>3. Pop(wqCells, wqConsumer.data, wqFront) = wqFront
  BY <1>2, WqSafe DEF WindowIntact
<1>4. /\ wqConsumer'.at = "advance" /\ wqConsumer'.item = wqFront
      /\ wqConsumer' \in [at : {"idle", "read", "advance"}, data : 1 .. WqArrays, item : WqValues]
  <2>1. wqFront \in WqValues
    BY <1>t DEF WqValues
  <2> QED
    BY <1>2, <1>3, <1>t, <2>1
<1>5. WqTypeOK'
  BY <1>2, <1>t, <1>4 DEF WqTypeOK
<1>6. WqReal(f, b, p)'
  <2>1. WqAhead' = WqAhead
    BY <1>2 DEF WqAhead
  <2> QED
    BY <1>1, <1>2, <1>4, <2>1 DEF WqReal
<1> QED
  BY <1>5, <1>6 DEF WqInv

(* ... and moves the front on.                                             *)
LEMMA WqDequeueAdvanceStep == ASSUME WqInv, DequeueAdvance PROVE WqInv'
<1>1. PICK f \in Nat, b \in Nat, p \in Nat : WqReal(f, b, p)
  BY DEF WqInv
<1>t. WqTypeOK /\ wqData \in 1 .. WqArrays /\ WqNone \in WqValues
  BY DEF WqInv, WqTypeOK, WqValues
<1>2. /\ wqConsumer.at = "advance" /\ wqFront' = (wqFront + 1) % WqWrap
      /\ wqConsumer' = [at |-> "idle", data |-> 1, item |-> WqNone]
      /\ wqData' = wqData /\ wqCells' = wqCells /\ wqProducer' = wqProducer
      /\ wqBack' = wqBack
  BY Zenon DEF DequeueAdvance
<1>w. WqWrap \in Nat \ {0} /\ \A i \in Int : i % WqWrap \in WqPositions
  BY WqWrapFacts
<1>3. PICK e \in Nat : e = f + 1
  OBVIOUS
<1>4. wqFront' = e % WqWrap
  <2>1. wqFront = f % WqWrap
    BY <1>1 DEF WqReal
  <2>2. f \in Int /\ 1 \in Int
    OBVIOUS
  <2>3. ((f % WqWrap) + 1) % WqWrap = (f + 1) % WqWrap
    BY <1>w, <2>2, RemainderSum
  <2> QED
    BY <1>2, <1>3, <2>1, <2>3
<1>5. WqTypeOK'
  <2>1. wqFront' \in WqPositions
    BY <1>w, <1>4
  <2>2. wqConsumer' \in [at : {"idle", "read", "advance"}, data : 1 .. WqArrays, item : WqValues]
    <3>1. 1 \in 1 .. WqArrays
      BY WqAssumption
    <3> QED
      BY <1>2, <1>t, <3>1
  <2> QED
    BY <1>2, <1>t, <2>1, <2>2 DEF WqTypeOK
<1>6. WqReal(e, b, p)'
  <2>1. WqAhead' = WqAhead /\ wqConsumer'.at = "idle"
    BY <1>2 DEF WqAhead
  <2>2. WqAhead \in Nat
    BY <1>t DEF WqTypeOK, WqAhead
  <2>3. Size(wqData) \in Nat
    BY <1>t, WqSizeRange
  <2>4. /\ p <= f /\ f < b /\ b - p <= Size(wqData) /\ wqBack = b % WqWrap
        /\ (b + WqAhead) - f <= Size(wqData)
        /\ \A i \in f .. (b + WqAhead) - 1 : wqCells[wqData][i % Size(wqData)] = i % WqWrap
        /\ wqProducer.at # "idle" =>
              wqProducer.items \in 1 .. WqCapacity - (IF wqProducer.bulk THEN 1 ELSE 0)
        /\ wqProducer.at # "idle" /\ ~wqProducer.bulk => wqProducer.items = 1
        /\ wqProducer.at = "store" => wqProducer.front = p % WqWrap
    BY <1>1, <1>2 DEF WqReal
  <2>5. p <= e /\ e <= b /\ (b + WqAhead) - e <= Size(wqData)
    BY <1>3, <2>2, <2>3, <2>4
  <2>6. \A i \in e .. (b + WqAhead) - 1 : wqCells[wqData][i % Size(wqData)] = i % WqWrap
    <3> TAKE i \in e .. (b + WqAhead) - 1
    <3>1. i \in f .. (b + WqAhead) - 1
      BY <1>3, <2>2
    <3> QED
      BY <2>4, <3>1
  <2> QED
    BY <1>2, <1>4, <2>1, <2>4, <2>5, <2>6 DEF WqReal
<1> QED
  BY <1>5, <1>6 DEF WqInv

(* Every step of the two threads keeps the invariant.                      *)
LEMMA WqInvStep == ASSUME WqInv, [WqNext]_wqVars PROVE WqInv'
<1>1. CASE EnqueueLoad(1, FALSE)
  <2>1. 1 \in Nat /\ FALSE \in BOOLEAN /\ 1 \in 1 .. WqCapacity - (IF FALSE THEN 1 ELSE 0)
    BY WqAssumption
  <2> QED
    BY <1>1, <2>1, WqLoadStep
<1>2. ASSUME NEW n \in WqBulk, EnqueueLoad(n, TRUE)
      PROVE  WqInv'
  <2>1. n \in Nat /\ n \in 1 .. WqCapacity - (IF TRUE THEN 1 ELSE 0)
    BY WqAssumption
  <2> QED
    BY <1>2, <2>1, WqLoadStep
<1>3. CASE EnqueueStore
  BY <1>3, WqStoreStep
<1>4. CASE EnqueuePublish
  BY <1>4, WqPublishStep
<1>5. CASE DequeueLoad
  BY <1>5, WqDequeueLoadStep
<1>6. CASE DequeueRead
  BY <1>6, WqDequeueReadStep
<1>7. CASE DequeueAdvance
  BY <1>7, WqDequeueAdvanceStep
<1>8. CASE UNCHANGED wqVars
  <2>1. /\ wqFront' = wqFront /\ wqData' = wqData /\ wqCells' = wqCells /\ wqProducer' = wqProducer
        /\ wqBack' = wqBack /\ wqConsumer' = wqConsumer
    BY <1>8, Zenon DEF wqVars
  <2>2. WqTypeOK'
    BY <2>1 DEF WqInv, WqTypeOK
  <2>3. PICK f \in Nat, b \in Nat, p \in Nat : WqReal(f, b, p)
    BY DEF WqInv
  <2>4. WqAhead' = WqAhead
    BY <2>1 DEF WqAhead
  <2>5. WqReal(f, b, p)'
    BY <2>1, <2>3, <2>4 DEF WqReal
  <2> QED
    BY <2>2, <2>5 DEF WqInv
<1> QED
  BY <1>1, <1>2, <1>3, <1>4, <1>5, <1>6, <1>7, <1>8 DEF WqNext

-----------------------------------------------------------------------------
(* Task queue.                                                             *)
TqRecords == [at : {"idle", "publish", "shrink", "restore", "claim", "back", "read", "cas"},
              front : Nat, back : Nat, item : 0 .. TqItems]

TqTypeOK ==
    /\ tqFront \in Nat /\ tqBack \in Nat /\ tqSize \in Nat \ {0}
    /\ tqCells \in [0 .. tqSize - 1 -> 0 .. TqItems] /\ tqCount \in 0 .. TqItems
    /\ tqOwner \in TqRecords /\ tqOwner.at \in {"idle", "publish", "shrink", "restore", "claim"}
    /\ tqThief \in [TqThieves -> TqRecords] /\ tqTaken \in [1 .. TqItems -> Nat]
    /\ tqRaced \in BOOLEAN

(* What the owner knows of the positions, raced or not.                    *)
TqOwnerKnows ==
    /\ tqFront <= tqBack + 1
    /\ tqOwner.at = "shrink" => /\ tqBack = tqOwner.back + 1 /\ tqFront <= tqBack
                                /\ tqOwner.front <= tqOwner.back /\ tqOwner.front <= tqFront
    /\ tqOwner.at = "restore" => /\ tqBack = tqOwner.back /\ tqOwner.front = tqOwner.back
                                 /\ tqOwner.front <= tqFront
    /\ tqOwner.at = "claim" => /\ tqBack = tqOwner.back + 1 /\ tqOwner.front = tqOwner.back
                               /\ tqOwner.front <= tqFront /\ tqFront <= tqBack

(* A thief whose M_front is still the current one saw an item in front     *)
(* of it; only dequeue() can have taken that since.                        *)
TqThiefKnows(t) ==
    LET me == tqThief[t]
    IN  /\ me.at \in {"back", "read", "cas"} => me.front <= tqFront
        /\ me.at \in {"read", "cas"} /\ me.front = tqFront =>
              /\ tqFront <= tqBack
              /\ tqOwner.at \in {"shrink", "claim"} => tqFront < tqBack

(* The end of the items that were enqueued and not handed out.             *)
TqTop == IF tqOwner.at \in {"publish", "restore"} THEN tqBack + 1 ELSE tqBack

(* The cells from front to top hold each item that was not handed out      *)
(* once.                                                                   *)
TqHolds(front, top, size, cells, taken, count) ==
    /\ front <= top /\ top - front <= size
    /\ \A i \in front .. top - 1 : cells[i % size] \in 1 .. count /\ taken[cells[i % size]] = 0
    /\ \A i, j \in front .. top - 1 : cells[i % size] = cells[j % size] => i = j
    /\ \A x \in 1 .. count :
          taken[x] = 1 \/ \E i \in front .. top - 1 : cells[i % size] = x
    /\ \A x \in 1 .. TqItems : x > count => taken[x] = 0

(* Without a race they do, and the owner's and the thieves' items are      *)
(* theirs while M_front is what they loaded.                               *)
TqMine ==
    /\ tqOwner.at = "shrink" => tqFront = tqOwner.front
    /\ tqOwner.at \in {"restore", "claim"} /\ tqFront = tqOwner.front =>
          tqOwner.item = tqCells[tqFront % tqSize]

TqTheirs(t) ==
    tqThief[t].at \in {"read", "cas"} /\ tqThief[t].front = tqFront =>
       /\ tqFront < TqTop
       /\ tqThief[t].at = "cas" => tqThief[t].item = tqCells[tqFront % tqSize]

TqWindow ==
    /\ TqHolds(tqFront, TqTop, tqSize, tqCells, tqTaken, tqCount)
    /\ TqMine /\ \A t \in TqThieves : TqTheirs(t)

TqInv ==
    /\ TqTypeOK /\ TqOwnerKnows /\ \A t \in TqThieves : TqThiefKnows(t)
    /\ tqRaced \/ TqWindow

(* The first item is handed out.                                           *)
LEMMA TqDropFront ==
    ASSUME NEW f \in Nat, NEW top \in Nat, NEW size \in Nat \ {0}, NEW cells,
           NEW taken \in [1 .. TqItems -> Nat], NEW count \in 0 .. TqItems,
           TqHolds(f, top, size, cells, taken, count), f < top,
           NEW x, x = cells[f % size], NEW taken2, taken2 = [taken EXCEPT ![x] = @ + 1]
    PROVE  TqHolds(f + 1, top, size, cells, taken2, count)
<1>0. TqItems \in Nat
  BY TqAssumption
<1>1. f \in f .. top - 1 /\ \A i \in f + 1 .. top - 1 : i \in f .. top - 1 /\ i # f
  OBVIOUS
<1>s. 1 .. count \subseteq 1 .. TqItems
  BY <1>0
<1>2. x \in 1 .. count /\ x \in 1 .. TqItems /\ taken[x] = 0
  <2>1. x \in 1 .. count /\ taken[x] = 0
    BY <1>1 DEF TqHolds
  <2> QED
    BY <1>s, <2>1
<1>3. taken2[x] = 1 /\ \A y \in 1 .. TqItems : y # x => taken2[y] = taken[y]
  BY <1>2
<1>4. \A i \in f + 1 .. top - 1 : cells[i % size] \in 1 .. count /\ cells[i % size] # x
  BY <1>1 DEF TqHolds
<1>5. \A i \in f + 1 .. top - 1 : taken2[cells[i % size]] = 0
  <2> TAKE i \in f + 1 .. top - 1
  <2>1. cells[i % size] \in 1 .. TqItems /\ cells[i % size] # x
    <3>1. cells[i % size] \in 1 .. count /\ cells[i % size] # x
      BY <1>4
    <3> QED
      BY <1>s, <3>1
  <2>2. taken[cells[i % size]] = 0
    BY <1>1 DEF TqHolds
  <2> QED
    BY <1>3, <2>1, <2>2
<1>6. ASSUME NEW y \in 1 .. count
      PROVE  taken2[y] = 1 \/ \E i \in f + 1 .. top - 1 : cells[i % size] = y
  <2>1. CASE y = x
    BY <1>3, <2>1
  <2>2. CASE y # x
    <3>1. taken2[y] = taken[y]
      BY <1>0, <1>3, <2>2
    <3>2. taken[y] = 1 \/ \E i \in f .. top - 1 : cells[i % size] = y
      BY DEF TqHolds
    <3>3. ASSUME NEW i \in f .. top - 1, cells[i % size] = y
          PROVE  i \in f + 1 .. top - 1
      BY <2>2, <3>3
    <3> QED
      BY <3>1, <3>2, <3>3
  <2> QED
    BY <2>1, <2>2
<1>7. \A y \in 1 .. TqItems : y > count => taken2[y] = 0
  BY <1>0, <1>2, <1>3 DEF TqHolds
<1>8. f + 1 <= top /\ top - (f + 1) <= size
  BY DEF TqHolds
<1>9. \A i, j \in f + 1 .. top - 1 : cells[i % size] = cells[j % size] => i = j
  BY <1>1 DEF TqHolds
<1> QED
  BY <1>4, <1>5, <1>6, <1>7, <1>8, <1>9 DEF TqHolds

(* The last item is handed out.                                            *)
LEMMA TqDropBack ==
    ASSUME NEW f \in Nat, NEW top \in Nat, NEW size \in Nat \ {0}, NEW cells,
           NEW taken \in [1 .. TqItems -> Nat], NEW count \in 0 .. TqItems,
           TqHolds(f, top + 1, size, cells, taken, count), f <= top,
           NEW x, x = cells[top % size], NEW taken2, taken2 = [taken EXCEPT ![x] = @ + 1]
    PROVE  TqHolds(f, top, size, cells, taken2, count)
<1>0. TqItems \in Nat
  BY TqAssumption
<1>1. top \in f .. (top + 1) - 1 /\ \A i \in f .. top - 1 : i \in f .. (top + 1) - 1 /\ i # top
  OBVIOUS
<1>s. 1 .. count \subseteq 1 .. TqItems
  BY <1>0
<1>2. x \in 1 .. count /\ x \in 1 .. TqItems /\ taken[x] = 0
  <2>1. x \in 1 .. count /\ taken[x] = 0
    BY <1>1 DEF TqHolds
  <2> QED
    BY <1>s, <2>1
<1>3. taken2[x] = 1 /\ \A y \in 1 .. TqItems : y # x => taken2[y] = taken[y]
  BY <1>2
<1>4. \A i \in f .. top - 1 : cells[i % size] \in 1 .. count /\ cells[i % size] # x
  BY <1>1 DEF TqHolds
<1>5. \A i \in f .. top - 1 : taken2[cells[i % size]] = 0
  <2> TAKE i \in f .. top - 1
  <2>1. cells[i % size] \in 1 .. TqItems /\ cells[i % size] # x
    <3>1. cells[i % size] \in 1 .. count /\ cells[i % size] # x
      BY <1>4
    <3> QED
      BY <1>s, <3>1
  <2>2. taken[cells[i % size]] = 0
    BY <1>1 DEF TqHolds
  <2> QED
    BY <1>3, <2>1, <2>2
<1>6. ASSUME NEW y \in 1 .. count
      PROVE  taken2[y] = 1 \/ \E i \in f .. top - 1 : cells[i % size] = y
  <2>1. CASE y = x
    BY <1>3, <2>1
  <2>2. CASE y # x
    <3>1. taken2[y] = taken[y]
      BY <1>0, <1>3, <2>2
    <3>2. taken[y] = 1 \/ \E i \in f .. (top + 1) - 1 : cells[i % size] = y
      BY DEF TqHolds
    <3>3. ASSUME NEW i \in f .. (top + 1) - 1, cells[i % size] = y
          PROVE  i \in f .. top - 1
      BY <2>2, <3>3
    <3> QED
      BY <3>1, <3>2, <3>3
  <2> QED
    BY <2>1, <2>2
<1>7. \A y \in 1 .. TqItems : y > count => taken2[y] = 0
  BY <1>0, <1>2, <1>3 DEF TqHolds
<1>8. f <= top /\ top - f <= size
  BY DEF TqHolds
<1>9. \A i, j \in f .. top - 1 : cells[i % size] = cells[j % size] => i = j
  BY <1>1 DEF TqHolds
<1> QED
  BY <1>4, <1>5, <1>6, <1>7, <1>8, <1>9 DEF TqHolds

(* An item is stored behind the last one.                                  *)
LEMMA TqAdd ==
    ASSUME NEW f \in Nat, NEW top \in Nat, NEW size \in Nat \ {0}, NEW cells,
           NEW taken \in [1 .. TqItems -> Nat], NEW count \in 0 .. TqItems, count < TqItems,
           TqHolds(f, top, size, cells, taken, count), top - f < size,
           NEW cells2, cells2[top % size] = count + 1,
           \A c \in 0 .. size - 1 : c # top % size => cells2[c] = cells[c],
           NEW top2, top2 = top + 1, NEW count2, count2 = count + 1
    PROVE  TqHolds(f, top2, size, cells2, taken, count2)
<1>0. TqItems \in Nat /\ f <= top
  BY TqAssumption DEF TqHolds
<1>1. top % size \in 0 .. size - 1 /\ cells2[top % size] = count + 1
  BY CellRange
<1>2. ASSUME NEW i \in f .. top - 1
      PROVE  cells2[i % size] = cells[i % size]
  <2>1. i \in Int /\ top \in Int /\ i < top /\ top < i + size
    BY <1>0
  <2>2. i % size # top % size
    BY <2>1, CellsDiffer
  <2>3. i % size \in 0 .. size - 1
    BY <2>1, CellRange
  <2> QED
    BY <2>2, <2>3
<1>3. \A i \in f .. (top + 1) - 1 : i = top \/ i \in f .. top - 1
  OBVIOUS
<1>4. \A i \in f .. (top + 1) - 1 :
          cells2[i % size] \in 1 .. count + 1 /\ taken[cells2[i % size]] = 0
  <2> TAKE i \in f .. (top + 1) - 1
  <2>1. CASE i = top
    BY <1>0, <1>1, <2>1 DEF TqHolds
  <2>2. CASE i \in f .. top - 1
    <3>1. cells[i % size] \in 1 .. count /\ taken[cells[i % size]] = 0
      BY <2>2 DEF TqHolds
    <3>2. 1 .. count \subseteq 1 .. count + 1
      OBVIOUS
    <3>3. cells2[i % size] = cells[i % size]
      BY <1>2, <2>2
    <3> QED
      BY <3>1, <3>2, <3>3
  <2> QED
    BY <1>3, <2>1, <2>2
<1>5. ASSUME NEW i \in f .. (top + 1) - 1, NEW j \in f .. (top + 1) - 1,
             cells2[i % size] = cells2[j % size]
      PROVE  i = j
  <2>1. ASSUME NEW k \in f .. top - 1 PROVE cells2[k % size] # count + 1
    <3>1. cells2[k % size] \in 1 .. count
      BY <1>2 DEF TqHolds
    <3>2. count + 1 \notin 1 .. count
      OBVIOUS
    <3> QED
      BY <3>1, <3>2
  <2>2. CASE i = top \/ j = top
    <3>1. cells2[i % size] = count + 1 /\ cells2[j % size] = count + 1
      BY <1>1, <1>5, <2>2
    <3> QED
      BY <1>3, <2>1, <3>1
  <2>3. CASE i \in f .. top - 1 /\ j \in f .. top - 1
    BY <1>2, <1>5, <2>3 DEF TqHolds
  <2> QED
    BY <1>3, <2>2, <2>3
<1>6. ASSUME NEW y \in 1 .. count + 1
      PROVE  taken[y] = 1 \/ \E i \in f .. (top + 1) - 1 : cells2[i % size] = y
  <2>1. CASE y = count + 1
    <3>1. top \in f .. (top + 1) - 1
      BY <1>0
    <3> QED
      BY <1>1, <2>1, <3>1
  <2>2. CASE y \in 1 .. count
    <3>1. taken[y] = 1 \/ \E i \in f .. top - 1 : cells[i % size] = y
      BY <2>2 DEF TqHolds
    <3>2. \A i \in f .. top - 1 : i \in f .. (top + 1) - 1
      OBVIOUS
    <3> QED
      BY <1>2, <3>1, <3>2
  <2> QED
    BY <2>1, <2>2
<1>7. \A y \in 1 .. TqItems : y > count + 1 => taken[y] = 0
  BY <1>0 DEF TqHolds
<1>8. f <= top + 1 /\ (top + 1) - f <= size
  BY <1>0
<1> QED
  BY <1>4, <1>5, <1>6, <1>7, <1>8 DEF TqHolds

(* resize() keeps the items.                                               *)
LEMMA TqGrow ==
    ASSUME TqTypeOK, TqHolds(tqFront, tqBack, tqSize, tqCells, tqTaken, tqCount),
           NEW size \in Nat \ {0}, tqSize <= size
    PROVE  /\ TqHolds(tqFront, tqBack, size, TaskResize(size), tqTaken, tqCount)
           /\ tqFront < tqBack => TaskResize(size)[tqFront % size] = tqCells[tqFront % tqSize]
<1>0. tqFront \in Nat /\ tqBack \in Nat /\ tqSize \in Nat \ {0}
  BY DEF TqTypeOK
<1>1. ASSUME NEW i \in tqFront .. tqBack - 1
      PROVE  TaskResize(size)[i % size] = tqCells[i % tqSize]
  <2>1. i \in Int /\ i % size \in 0 .. size - 1
    BY <1>0, CellRange
  <2>2. ASSUME NEW j \in tqFront .. tqBack - 1, j % size = i % size
        PROVE  j = i
    <3>1. j \in Int /\ j < i + size /\ i < j + size
      BY <1>0 DEF TqHolds
    <3> QED
      BY <2>1, <2>2, <3>1, CellsDiffer
  <2>3. PICK c : c = i % size
    OBVIOUS
  <2>4. c \in 0 .. size - 1 /\ \E k \in tqFront .. tqBack - 1 : k % size = c
    BY <2>1, <2>3
  <2>5. (CHOOSE k \in tqFront .. tqBack - 1 : k % size = c) = i
    BY <2>2, <2>3
  <2>6. TaskResize(size)[c] = tqCells[(CHOOSE k \in tqFront .. tqBack - 1 : k % size = c) % tqSize]
    BY <2>4 DEF TaskResize
  <2> QED
    BY <2>3, <2>5, <2>6
<1>2. \A x : (\E i \in tqFront .. tqBack - 1 : TaskResize(size)[i % size] = x) <=>
             \E i \in tqFront .. tqBack - 1 : tqCells[i % tqSize] = x
  BY <1>1
<1>3. tqFront < tqBack => tqFront \in tqFront .. tqBack - 1
  BY <1>0
<1>4. tqBack - tqFront <= size
  BY <1>0 DEF TqHolds
<1> QED
  BY <1>1, <1>2, <1>3, <1>4 DEF TqHolds

(* The invariant's types, spelled out.                                     *)
LEMMA TqTypes ==
    ASSUME TqTypeOK
    PROVE  /\ tqFront \in Nat /\ tqBack \in Nat /\ tqSize \in Nat \ {0}
           /\ tqCells \in [0 .. tqSize - 1 -> 0 .. TqItems] /\ tqCount \in 0 .. TqItems
           /\ tqOwner \in TqRecords /\ tqOwner.front \in Nat /\ tqOwner.back \in Nat
           /\ tqOwner.item \in 0 .. TqItems /\ tqTaken \in [1 .. TqItems -> Nat]
           /\ \A t \in TqThieves : /\ tqThief[t] \in TqRecords /\ tqThief[t].front \in Nat
                                   /\ tqThief[t].item \in 0 .. TqItems
           /\ \A i \in Nat : tqCells[i % tqSize] \in 0 .. TqItems
           /\ TqIdle \in TqRecords /\ TqIdle.at = "idle"
<1>1. /\ tqOwner \in TqRecords /\ \A t \in TqThieves : tqThief[t] \in TqRecords
      /\ tqSize \in Nat \ {0} /\ tqCells \in [0 .. tqSize - 1 -> 0 .. TqItems]
  BY DEF TqTypeOK
<1>2. \A i \in Nat : tqCells[i % tqSize] \in 0 .. TqItems
  <2> TAKE i \in Nat
  <2>1. i % tqSize \in 0 .. tqSize - 1
    BY <1>1, CellRange
  <2> QED
    BY <1>1, <2>1
<1>3. TqIdle \in TqRecords /\ TqIdle.at = "idle"
  BY TqAssumption DEF TqIdle, TqRecords
<1> QED
  BY <1>1, <1>2, <1>3 DEF TqTypeOK, TqRecords

(* Handing out counts.                                                     *)
LEMMA TqTakeType ==
    ASSUME NEW taken \in [1 .. TqItems -> Nat], NEW x
    PROVE  [taken EXCEPT ![x] = @ + 1] \in [1 .. TqItems -> Nat]
<1>1. CASE x \in 1 .. TqItems
  BY <1>1
<1>2. CASE x \notin 1 .. TqItems
  <2>1. [taken EXCEPT ![x] = @ + 1] = taken
    BY <1>2
  <2> QED
    BY <2>1
<1> QED
  BY <1>1, <1>2

(* The queue starts empty.                                                 *)
LEMMA TqInitial == TqInit => TqInv
<1> HAVE TqInit
<1>1. /\ tqFront = 0 /\ tqBack = 0 /\ tqSize = TqCapacity /\ tqCount = 0
      /\ tqCells = [c \in 0 .. TqCapacity - 1 |-> 0]
      /\ tqOwner = TqIdle /\ tqThief = [t \in TqThieves |-> TqIdle]
      /\ tqTaken = [x \in 1 .. TqItems |-> 0]
  BY DEF TqInit
<1>2. TqIdle \in TqRecords /\ TqIdle.at = "idle" /\ TqItems \in Nat /\ TqCapacity \in Nat \ {0}
  BY TqAssumption DEF TqIdle, TqRecords
<1>r. tqRaced \in BOOLEAN
  BY Zenon DEF TqInit
<1>3. TqTypeOK
  <2>1. tqCells \in [0 .. tqSize - 1 -> 0 .. TqItems] /\ tqTaken \in [1 .. TqItems -> Nat]
    BY <1>1, <1>2
  <2>2. tqThief \in [TqThieves -> TqRecords]
    BY <1>1, <1>2
  <2>3. tqFront \in Nat /\ tqBack \in Nat /\ tqSize \in Nat \ {0} /\ tqCount \in 0 .. TqItems
    BY <1>1, <1>2
  <2> QED
    BY <1>1, <1>2, <1>r, <2>1, <2>2, <2>3 DEF TqTypeOK
<1>4. TqOwnerKnows /\ (\A t \in TqThieves : TqThiefKnows(t)) /\ TqTop = 0 /\ TqMine
      /\ \A t \in TqThieves : TqTheirs(t)
  BY <1>1, <1>2 DEF TqOwnerKnows, TqThiefKnows, TqTop, TqMine, TqTheirs
<1>5. TqHolds(0, 0, tqSize, tqCells, tqTaken, 0)
  BY <1>1, <1>2 DEF TqHolds
<1> QED
  BY <1>1, <1>3, <1>4, <1>5 DEF TqInv, TqWindow

(* In a good state nothing is handed out twice or lost.                    *)
LEMMA TqSafe == TqInv => HandedOutOnce /\ OverrunByOne
<1> HAVE TqInv
<1>1. OverrunByOne
  BY DEF TqInv, TqOwnerKnows, OverrunByOne
<1>2. ASSUME ~tqRaced
      PROVE  /\ \A x \in 1 .. TqItems : tqTaken[x] \leq 1
             /\ tqOwner.at = "idle" => \A x \in 1 .. tqCount :
                   tqTaken[x] = 1 \/ \E i \in tqFront .. tqBack - 1 : tqCells[i % tqSize] = x
  <2>1. TqHolds(tqFront, TqTop, tqSize, tqCells, tqTaken, tqCount)
    BY <1>2 DEF TqInv, TqWindow
  <2>2. tqOwner.at = "idle" => TqTop = tqBack
    BY DEF TqTop
  <2>3. ASSUME NEW x \in 1 .. TqItems
        PROVE  tqTaken[x] \leq 1
    <3>0. tqCount \in 0 .. TqItems /\ TqItems \in Nat
      BY TqAssumption DEF TqInv, TqTypeOK
    <3>1. CASE x > tqCount
      BY <2>1, <3>1 DEF TqHolds
    <3>2. CASE x \in 1 .. tqCount
      <4>1. tqTaken[x] = 1 \/ \E i \in tqFront .. TqTop - 1 : tqCells[i % tqSize] = x
        BY <2>1, <3>2 DEF TqHolds
      <4>2. ASSUME NEW i \in tqFront .. TqTop - 1, tqCells[i % tqSize] = x
            PROVE  tqTaken[x] = 0
        BY <2>1, <4>2 DEF TqHolds
      <4> QED
        BY <4>1, <4>2
    <3> QED
      BY <3>0, <3>1, <3>2
  <2>4. ASSUME NEW x \in 1 .. tqCount
        PROVE  tqTaken[x] = 1 \/ \E i \in tqFront .. TqTop - 1 : tqCells[i % tqSize] = x
    BY <2>1 DEF TqHolds
  <2> QED
    BY <2>2, <2>3, <2>4
<1> QED
  BY <1>1, <1>2 DEF HandedOutOnce

(* steal() up to its compare-exchange.                                     *)
LEMMA TqThiefQuiet ==
    ASSUME TqInv, NEW t \in TqThieves, NEW r \in TqRecords, tqThief' = [tqThief EXCEPT ![t] = r],
           UNCHANGED <<tqFront, tqBack, tqSize, tqCells, tqCount, tqOwner, tqTaken, tqRaced>>,
           r.at \in {"back", "read", "cas"} => r.front <= tqFront,
           r.at \in {"read", "cas"} /\ r.front = tqFront =>
              \/ tqFront < tqBack
              \/ tqThief[t].at \in {"read", "cas"} /\ tqThief[t].front = tqFront,
           r.at = "cas" => r.item = tqCells[r.front % tqSize]
    PROVE  TqInv'
<1>0. /\ tqThief' \in [TqThieves -> TqRecords] /\ tqThief'[t] = r
      /\ \A u \in TqThieves \ {t} : tqThief'[u] = tqThief[u]
      /\ tqFront \in Nat /\ tqBack \in Nat
  BY DEF TqInv, TqTypeOK
<1>1. TqTypeOK'
  <2>1. TqTypeOK
    BY DEF TqInv
  <2> QED
    BY <1>0, <2>1 DEF TqTypeOK
<1>2. TqOwnerKnows' /\ TqTop' = TqTop /\ tqBack <= TqTop
  BY <1>0 DEF TqInv, TqOwnerKnows, TqTop
<1>3. ASSUME NEW u \in TqThieves
      PROVE  TqThiefKnows(u)'
  BY <1>0 DEF TqInv, TqThiefKnows
<1>4. ASSUME TqWindow
      PROVE  TqWindow'
  <2>1. TqHolds(tqFront, TqTop, tqSize, tqCells, tqTaken, tqCount)'
    BY <1>2, <1>4 DEF TqWindow, TqHolds
  <2>2. TqMine'
    BY <1>4 DEF TqWindow, TqMine
  <2>3. ASSUME NEW u \in TqThieves
        PROVE  TqTheirs(u)'
    <3>0. TqTheirs(u) /\ TqTheirs(t)
      BY <1>4 DEF TqWindow
    <3>t. TqTop \in Nat
      BY <1>0 DEF TqTop
    <3> QED
      BY <1>0, <1>2, <3>0, <3>t DEF TqTheirs
  <2> QED
    BY <2>1, <2>2, <2>3 DEF TqWindow
<1> QED
  BY <1>1, <1>2, <1>3, <1>4 DEF TqInv

(* The three first steps of steal().                                       *)
LEMMA TqThiefLoads ==
    ASSUME TqInv, NEW t \in TqThieves, StealLoadFront(t) \/ StealLoadBack(t) \/ StealRead(t)
    PROVE  TqInv'
<1> DEFINE me == tqThief[t]
<1>t. TqTypeOK
  BY DEF TqInv
<1>0. /\ me \in TqRecords /\ me.front \in Nat /\ tqFront \in Nat /\ tqBack \in Nat
      /\ TqIdle \in TqRecords /\ TqIdle.at = "idle"
      /\ tqCells[me.front % tqSize] \in 0 .. TqItems
  BY <1>t, TqTypes
<1>k. TqThiefKnows(t) /\ TqOwnerKnows
  BY DEF TqInv
<1>1. CASE StealLoadFront(t)
  <2> DEFINE r == [TqIdle EXCEPT !.at = "back", !.front = tqFront]
  <2>1. /\ tqThief' = [tqThief EXCEPT ![t] = r]
        /\ UNCHANGED <<tqFront, tqBack, tqSize, tqCells, tqCount, tqOwner, tqTaken, tqRaced>>
    BY <1>1, Zenon DEF StealLoadFront
  <2>2. r \in TqRecords /\ r.at = "back" /\ r.front = tqFront
    BY <1>0 DEF TqRecords, TqIdle
  <2> HIDE DEF r
  <2>3. r.at \notin {"read", "cas"} /\ r.front <= tqFront
    BY <1>0, <2>2
  <2> QED
    BY <2>1, <2>2, <2>3, TqThiefQuiet
<1>2. CASE StealLoadBack(t)
  <2>1. /\ tqThief' = [tqThief EXCEPT ![t] = IF TaskEmpty(me.front, tqBack) THEN TqIdle
                                             ELSE [me EXCEPT !.at = "read"]]
        /\ UNCHANGED <<tqFront, tqBack, tqSize, tqCells, tqCount, tqOwner, tqTaken, tqRaced>>
        /\ me.at = "back"
    BY <1>2 DEF StealLoadBack
  <2>2. CASE TaskEmpty(me.front, tqBack)
    <3>1. tqThief' = [tqThief EXCEPT ![t] = TqIdle]
      BY <2>1, <2>2
    <3> QED
      BY <1>0, <2>1, <3>1, TqThiefQuiet
  <2>3. CASE ~TaskEmpty(me.front, tqBack)
    <3> DEFINE r == [me EXCEPT !.at = "read"]
    <3>1. tqThief' = [tqThief EXCEPT ![t] = r]
      BY <2>1, <2>3
    <3>2. r \in TqRecords /\ r.at = "read" /\ r.front = me.front
      BY <1>0 DEF TqRecords
    <3> HIDE DEF r
    <3>3. me.front <= tqFront /\ (me.front = tqFront => tqFront < tqBack)
      BY <1>0, <1>k, <2>1, <2>3 DEF TqThiefKnows, TqOwnerKnows, TaskEmpty
    <3> QED
      BY <2>1, <3>1, <3>2, <3>3, TqThiefQuiet
  <2> QED
    BY <2>2, <2>3
<1>3. CASE StealRead(t)
  <2> DEFINE r == [me EXCEPT !.at = "cas", !.item = tqCells[me.front % tqSize]]
  <2>1. /\ tqThief' = [tqThief EXCEPT ![t] = r] /\ me.at = "read"
        /\ UNCHANGED <<tqFront, tqBack, tqSize, tqCells, tqCount, tqOwner, tqTaken, tqRaced>>
    BY <1>3 DEF StealRead
  <2>2. r \in TqRecords /\ r.at = "cas" /\ r.front = me.front
        /\ r.item = tqCells[r.front % tqSize]
    BY <1>0 DEF TqRecords
  <2> HIDE DEF r
  <2> QED
    BY <1>k, <2>1, <2>2, TqThiefQuiet DEF TqThiefKnows
<1> QED
  BY <1>1, <1>2, <1>3

(* steal(): the compare-exchange.                                          *)
LEMMA TqSteal ==
    ASSUME TqInv, NEW t \in TqThieves, StealCas(t)
    PROVE  TqInv'
<1> DEFINE me == tqThief[t]
<1>t. TqTypeOK
  BY DEF TqInv
<1>0. /\ me \in TqRecords /\ me.front \in Nat /\ tqFront \in Nat /\ tqBack \in Nat
      /\ TqIdle \in TqRecords /\ TqIdle.at = "idle" /\ tqOwner.back \in Nat /\ tqOwner.front \in Nat
      /\ tqTaken \in [1 .. TqItems -> Nat] /\ tqSize \in Nat \ {0} /\ tqCount \in 0 .. TqItems
  BY <1>t, TqTypes
<1>k. TqThiefKnows(t) /\ TqOwnerKnows
  BY DEF TqInv
<1>1. CASE tqFront # me.front
  <2>1. /\ tqThief' = [tqThief EXCEPT ![t] = TqIdle]
        /\ UNCHANGED <<tqFront, tqBack, tqSize, tqCells, tqCount, tqOwner, tqTaken, tqRaced>>
    BY <1>1, Zenon DEF StealCas
  <2> QED
    BY <1>0, <2>1, TqThiefQuiet
<1>2. CASE tqFront = me.front
  <2>1. /\ tqThief' = [tqThief EXCEPT ![t] = TqIdle] /\ tqFront' = tqFront + 1
        /\ tqTaken' = [tqTaken EXCEPT ![me.item] = @ + 1]
        /\ UNCHANGED <<tqBack, tqSize, tqCells, tqCount, tqOwner>> /\ me.at = "cas"
    BY <1>2 DEF StealCas, Take
  <2>2. tqRaced' = (tqRaced \/ tqOwner.at = "shrink")
    BY <1>2, Zenon DEF StealCas
  <2>3. /\ tqThief' \in [TqThieves -> TqRecords] /\ tqThief'[t] = TqIdle
        /\ \A u \in TqThieves \ {t} : tqThief'[u] = tqThief[u]
    BY <1>0, <1>t, <2>1 DEF TqTypeOK
  <2>4. TqTypeOK'
    <3>0. tqTaken' \in [1 .. TqItems -> Nat]
      BY <1>0, <2>1, TqTakeType, Zenon
    <3>1. tqTaken' \in [1 .. TqItems -> Nat] /\ tqFront' \in Nat
      BY <1>0, <2>1, <3>0
    <3>2. tqRaced' \in BOOLEAN
      BY <2>2, Zenon
    <3> QED
      BY <1>t, <2>1, <2>3, <3>1, <3>2 DEF TqTypeOK
  <2>5. tqFront <= tqBack /\ (tqOwner.at \in {"shrink", "claim"} => tqFront < tqBack)
    BY <1>2, <1>k, <2>1 DEF TqThiefKnows
  <2>6. TqOwnerKnows' /\ TqTop' = TqTop
    BY <1>0, <1>k, <2>1, <2>5 DEF TqOwnerKnows, TqTop
  <2>7. ASSUME NEW u \in TqThieves
        PROVE  TqThiefKnows(u)' /\ TqTheirs(u)'
    <3>1. tqThief[u].front \in Nat /\ TqThiefKnows(u)
      BY <1>t, TqTypes DEF TqInv
    <3>2. u = t => tqThief'[u].at = "idle"
      BY <1>0, <2>3
    <3>3. u # t => tqThief'[u] = tqThief[u]
      BY <2>3
    <3> QED
      BY <1>0, <2>1, <3>1, <3>2, <3>3 DEF TqThiefKnows, TqTheirs
  <2>8. ASSUME TqWindow, tqOwner.at # "shrink"
        PROVE  TqWindow'
    <3>1. tqFront < TqTop /\ me.item = tqCells[tqFront % tqSize]
      BY <1>2, <2>1, <2>8 DEF TqWindow, TqTheirs
    <3>2. TqTop \in Nat
      BY <1>0 DEF TqTop
    <3>3. TqHolds(tqFront + 1, TqTop, tqSize, tqCells, tqTaken', tqCount)
      BY <1>0, <2>1, <2>8, <3>1, <3>2, TqDropFront DEF TqWindow
    <3>4. TqHolds(tqFront, TqTop, tqSize, tqCells, tqTaken, tqCount)'
      BY <2>1, <2>6, <3>3 DEF TqHolds
    <3>5. TqMine'
      BY <1>0, <1>k, <2>1, <2>8 DEF TqMine, TqOwnerKnows
    <3> QED
      BY <2>7, <3>4, <3>5 DEF TqWindow
  <2>9. tqRaced' \/ TqWindow'
    BY <2>2, <2>8 DEF TqInv
  <2> QED
    BY <2>4, <2>6, <2>7, <2>9 DEF TqInv
<1> QED
  BY <1>1, <1>2

(* The thieves do not notice what leaves M_front, its cell and the end of  *)
(* the items alone.                                                        *)
LEMMA TqThievesKept ==
    ASSUME TqInv, UNCHANGED <<tqFront, tqThief>>, NEW t \in TqThieves, tqBack' \in Nat,
           tqFront <= tqBack => tqFront <= tqBack',
           tqOwner'.at \in {"shrink", "claim"} /\ tqFront <= tqBack => tqFront < tqBack',
           ~tqRaced /\ tqFront < TqTop =>
              tqFront < TqTop' /\ tqCells'[tqFront % tqSize'] = tqCells[tqFront % tqSize]
    PROVE  TqThiefKnows(t)' /\ (~tqRaced => TqTheirs(t)')
<1>1. TqThiefKnows(t)
  BY DEF TqInv
<1>2. TqThiefKnows(t)'
  BY <1>1 DEF TqThiefKnows
<1>3. ASSUME ~tqRaced
      PROVE  TqTheirs(t)'
  <2>1. TqTheirs(t)
    BY <1>3 DEF TqInv, TqWindow
  <2> QED
    BY <1>3, <2>1 DEF TqTheirs
<1> QED
  BY <1>2, <1>3

(* enqueue(), up to the publication.                                       *)
LEMMA TqEnqueue ==
    ASSUME TqInv, TaskEnqueue
    PROVE  TqInv'
<1> DEFINE full == tqBack \geq tqFront /\ tqSize - 1 < tqBack - tqFront
           size == IF full THEN 2 * tqSize ELSE tqSize
           base == IF full THEN TaskResize(size) ELSE tqCells
           r == [tqOwner EXCEPT !.at = "publish"]
<1>t. TqTypeOK
  BY DEF TqInv
<1>0. /\ tqFront \in Nat /\ tqBack \in Nat /\ tqOwner \in TqRecords
      /\ tqTaken \in [1 .. TqItems -> Nat] /\ tqSize \in Nat \ {0} /\ tqCount \in 0 .. TqItems
      /\ tqCells \in [0 .. tqSize - 1 -> 0 .. TqItems] /\ TqItems \in Nat
      /\ \A i \in Nat : tqCells[i % tqSize] \in 0 .. TqItems
  BY <1>t, TqTypes, TqAssumption
<1>1. /\ tqOwner.at = "idle" /\ tqCount < TqItems /\ tqSize' = size
      /\ tqCells' = [base EXCEPT ![tqBack % size] = tqCount + 1] /\ tqCount' = tqCount + 1
      /\ tqOwner' = r /\ UNCHANGED <<tqFront, tqBack, tqThief, tqTaken>>
  BY DEF TaskEnqueue
<1>u. tqRaced' = tqRaced
  BY Zenon DEF TaskEnqueue
<1>r. r \in TqRecords /\ r.at = "publish"
  BY <1>0 DEF TqRecords
<1>s. size \in Nat \ {0} /\ tqSize <= size
  BY <1>0
<1>b. base \in [0 .. size - 1 -> 0 .. TqItems]
  <2>1. CASE full
    <3>1. TaskResize(size) \in [0 .. size - 1 -> 0 .. TqItems]
      <4>1. ASSUME NEW c \in 0 .. size - 1, \E i \in tqFront .. tqBack - 1 : i % size = c
            PROVE  tqCells[(CHOOSE i \in tqFront .. tqBack - 1 : i % size = c) % tqSize]
                      \in 0 .. TqItems
        <5>1. (CHOOSE i \in tqFront .. tqBack - 1 : i % size = c) \in tqFront .. tqBack - 1
          BY <4>1
        <5>2. PICK k \in Nat : k = CHOOSE i \in tqFront .. tqBack - 1 : i % size = c
          BY <1>0, <5>1
        <5> QED
          BY <1>0, <5>2
      <4>2. 0 \in 0 .. TqItems
        BY <1>0
      <4> HIDE DEF size, full
      <4> QED
        BY <4>1, <4>2 DEF TaskResize
    <3> QED
      BY <2>1, <3>1
  <2>2. CASE ~full
    BY <1>0, <2>2
  <2> QED
    BY <2>1, <2>2
<1>2. ASSUME ~tqRaced
      PROVE  /\ TqHolds(tqFront, tqBack + 1, size, tqCells', tqTaken, tqCount + 1)
             /\ tqFront < tqBack => tqCells'[tqFront % size] = tqCells[tqFront % tqSize]
  <2>1. TqHolds(tqFront, tqBack, tqSize, tqCells, tqTaken, tqCount)
    BY <1>1, <1>2 DEF TqInv, TqWindow, TqTop
  <2>2. /\ TqHolds(tqFront, tqBack, size, base, tqTaken, tqCount)
        /\ tqFront < tqBack => base[tqFront % size] = tqCells[tqFront % tqSize]
    <3>1. CASE full
      BY <1>t, <1>s, <2>1, <3>1, TqGrow
    <3>2. CASE ~full
      BY <2>1, <3>2
    <3> QED
      BY <3>1, <3>2
  <2>3. tqBack - tqFront < size
    BY <1>0, <2>1 DEF TqHolds
  <2> HIDE DEF size, base, full
  <2>4. PICK n \in Nat \ {0} : n = size
    BY <1>s
  <2>5. PICK c \in [0 .. n - 1 -> 0 .. TqItems] : c = base
    BY <1>b, <2>4
  <2>6. PICK d : d = [c EXCEPT ![tqBack % n] = tqCount + 1]
    OBVIOUS
  <2>7. TqHolds(tqFront, tqBack, n, c, tqTaken, tqCount) /\ tqBack - tqFront < n
        /\ (tqFront < tqBack => c[tqFront % n] = tqCells[tqFront % tqSize])
    BY <2>2, <2>3, <2>4, <2>5
  <2>8. /\ TqHolds(tqFront, tqBack + 1, n, d, tqTaken, tqCount + 1)
        /\ tqFront < tqBack => d[tqFront % n] = c[tqFront % n]
    <3>1. /\ tqFront \in Nat /\ tqBack \in Nat /\ tqTaken \in [1 .. TqItems -> Nat]
          /\ tqCount \in 0 .. TqItems /\ tqCount < TqItems
      BY <1>0, <1>1
    <3>2. tqBack % n \in 0 .. n - 1
      BY <3>1, CellRange
    <3>3. d[tqBack % n] = tqCount + 1 /\ \A k \in 0 .. n - 1 : k # tqBack % n => d[k] = c[k]
      BY <2>6, <3>2
    <3>4. PICK f \in Nat, b \in Nat, taken \in [1 .. TqItems -> Nat], count \in 0 .. TqItems :
             f = tqFront /\ b = tqBack /\ taken = tqTaken /\ count = tqCount
      BY <3>1
    <3>5. /\ TqHolds(f, b, n, c, taken, count) /\ b - f < n /\ count < TqItems
          /\ d[b % n] = count + 1 /\ \A k \in 0 .. n - 1 : k # b % n => d[k] = c[k]
      BY <2>7, <3>1, <3>3, <3>4
    <3>6. PICK top2, count2 : top2 = b + 1 /\ count2 = count + 1
      OBVIOUS
    <3>7. TqHolds(f, top2, n, d, taken, count2)
      BY <3>5, <3>6, TqAdd
    <3>8. f < b => d[f % n] = c[f % n]
      <4>1. f < b => f % n # b % n
        BY <3>5, CellsDiffer
      <4>2. f % n \in 0 .. n - 1
        BY CellRange
      <4> QED
        BY <3>5, <4>1, <4>2
    <3> QED
      BY <3>4, <3>6, <3>7, <3>8
  <2>9. tqCells' = d
    BY <1>1, <2>4, <2>5, <2>6
  <2> QED
    BY <2>4, <2>7, <2>8, <2>9
<1>3. TqTop = tqBack /\ TqTop' = tqBack + 1
  BY <1>1, <1>r DEF TqTop
<1>4. TqTypeOK'
  <2>1. tqBack % size \in 0 .. size - 1
    BY <1>0, <1>s, CellRange
  <2>2. tqCount + 1 \in 0 .. TqItems
    BY <1>0, <1>1
  <2>3. tqCells' \in [0 .. size - 1 -> 0 .. TqItems]
    <3> HIDE DEF size, base, full
    <3> QED
      BY <1>1, <1>b, <2>1, <2>2
  <2>4. tqRaced' \in BOOLEAN
    BY <1>t, <1>u DEF TqTypeOK
  <2> HIDE DEF size, base, full
  <2> QED
    BY <1>t, <1>1, <1>r, <1>s, <2>2, <2>3, <2>4 DEF TqTypeOK
<1> HIDE DEF size, base, full, r
<1>5. TqOwnerKnows' /\ TqMine'
  BY <1>1, <1>r DEF TqInv, TqOwnerKnows, TqMine
<1>6. ASSUME NEW t \in TqThieves
      PROVE  TqThiefKnows(t)' /\ (~tqRaced => TqTheirs(t)')
  <2>1. tqBack' \in Nat /\ (tqFront <= tqBack => tqFront <= tqBack')
    BY <1>0, <1>1
  <2>2. tqOwner'.at \notin {"shrink", "claim"}
    BY <1>1, <1>r
  <2>3. ~tqRaced /\ tqFront < TqTop =>
              tqFront < TqTop' /\ tqCells'[tqFront % tqSize'] = tqCells[tqFront % tqSize]
    BY <1>0, <1>1, <1>2, <1>3
  <2> QED
    BY <1>1, <2>1, <2>2, <2>3, TqThievesKept
<1>7. ASSUME ~tqRaced
      PROVE  TqHolds(tqFront, TqTop, tqSize, tqCells, tqTaken, tqCount)'
  BY <1>1, <1>2, <1>3, <1>7 DEF TqHolds
<1> QED
  BY <1>4, <1>5, <1>6, <1>7, <1>u DEF TqInv, TqWindow

(* enqueue(): the item becomes visible.                                    *)
LEMMA TqPublish ==
    ASSUME TqInv, TaskPublish
    PROVE  TqInv'
<1>t. TqTypeOK
  BY DEF TqInv
<1>0. tqFront \in Nat /\ tqBack \in Nat /\ TqIdle \in TqRecords /\ TqIdle.at = "idle"
  BY <1>t, TqTypes
<1>1. /\ tqOwner.at = "publish" /\ tqBack' = tqBack + 1 /\ tqOwner' = TqIdle
      /\ UNCHANGED <<tqFront, tqSize, tqCells, tqCount, tqThief, tqTaken, tqRaced>>
  BY DEF TaskPublish
<1>2. TqTop' = TqTop
  BY <1>0, <1>1 DEF TqTop
<1>3. TqTypeOK'
  BY <1>t, <1>0, <1>1 DEF TqTypeOK
<1>4. TqOwnerKnows' /\ TqMine'
  BY <1>0, <1>1 DEF TqInv, TqOwnerKnows, TqMine
<1>5. ASSUME NEW t \in TqThieves
      PROVE  TqThiefKnows(t)' /\ (~tqRaced => TqTheirs(t)')
  <2>1. tqBack' \in Nat /\ (tqFront <= tqBack => tqFront <= tqBack')
        /\ tqOwner'.at \notin {"shrink", "claim"}
    BY <1>0, <1>1
  <2> QED
    BY <1>1, <1>2, <2>1, TqThievesKept
<1>6. ASSUME ~tqRaced
      PROVE  TqHolds(tqFront, TqTop, tqSize, tqCells, tqTaken, tqCount)'
  BY <1>1, <1>2, <1>6 DEF TqInv, TqWindow, TqHolds
<1>u. tqRaced' = tqRaced
  BY <1>1, Zenon
<1> QED
  BY <1>3, <1>4, <1>5, <1>6, <1>u DEF TqInv, TqWindow

(* dequeue(): the positions are loaded.                                    *)
LEMMA TqLoad ==
    ASSUME TqInv, TaskDequeueLoad
    PROVE  TqInv'
<1> DEFINE r == [at |-> "shrink", front |-> tqFront, back |-> tqBack - 1, item |-> 0]
<1>t. TqTypeOK
  BY DEF TqInv
<1>0. tqFront \in Nat /\ tqBack \in Nat /\ TqItems \in Nat
  BY <1>t, TqTypes, TqAssumption
<1>1. /\ tqOwner.at = "idle" /\ tqOwner' = r /\ ~TaskEmpty(tqFront, tqBack)
      /\ UNCHANGED <<tqFront, tqBack, tqSize, tqCells, tqCount, tqThief, tqTaken, tqRaced>>
  BY DEF TaskDequeueLoad
<1>2. tqFront < tqBack /\ tqBack - 1 \in Nat
  BY <1>0, <1>1 DEF TqInv, TqOwnerKnows, TaskEmpty
<1>r. r \in TqRecords /\ r.at = "shrink" /\ r.front = tqFront /\ r.back = tqBack - 1
  BY <1>0, <1>2 DEF TqRecords
<1> HIDE DEF r
<1>3. TqTop' = TqTop /\ tqBack = (tqBack - 1) + 1
  BY <1>0, <1>1, <1>r DEF TqTop
<1>4. TqTypeOK'
  BY <1>t, <1>1, <1>r DEF TqTypeOK
<1>5. TqOwnerKnows' /\ TqMine'
  BY <1>0, <1>1, <1>2, <1>3, <1>r DEF TqInv, TqOwnerKnows, TqMine
<1>6. ASSUME NEW t \in TqThieves
      PROVE  TqThiefKnows(t)' /\ (~tqRaced => TqTheirs(t)')
  BY <1>0, <1>1, <1>2, <1>3, TqThievesKept
<1>7. ASSUME ~tqRaced
      PROVE  TqHolds(tqFront, TqTop, tqSize, tqCells, tqTaken, tqCount)'
  BY <1>1, <1>3, <1>7 DEF TqInv, TqWindow, TqHolds
<1>u. tqRaced' = tqRaced
  BY <1>1, Zenon
<1> QED
  BY <1>4, <1>5, <1>6, <1>7, <1>u DEF TqInv, TqWindow

(* dequeue(): M_back is stored, and the item read.                         *)
LEMMA TqShrink ==
    ASSUME TqInv, TaskDequeueShrink
    PROVE  TqInv'
<1> DEFINE x == tqCells[tqOwner.back % tqSize]
<1>t. TqTypeOK
  BY DEF TqInv
<1>0. /\ tqFront \in Nat /\ tqBack \in Nat /\ tqOwner.front \in Nat /\ tqOwner.back \in Nat
      /\ TqIdle \in TqRecords /\ TqIdle.at = "idle" /\ tqOwner \in TqRecords
      /\ x \in 0 .. TqItems /\ tqTaken \in [1 .. TqItems -> Nat] /\ tqSize \in Nat \ {0}
      /\ tqCount \in 0 .. TqItems
  BY <1>t, TqTypes
<1>1. /\ tqOwner.at = "shrink" /\ tqBack' = tqOwner.back
      /\ UNCHANGED <<tqFront, tqSize, tqCells, tqCount, tqThief>>
      /\ LastItem => /\ tqOwner' = [tqOwner EXCEPT !.at = "restore", !.item = x]
                     /\ UNCHANGED tqTaken
      /\ ~LastItem => tqOwner' = TqIdle /\ tqTaken' = [tqTaken EXCEPT ![x] = @ + 1]
  BY DEF TaskDequeueShrink, Take
<1>u. tqRaced' = tqRaced
  BY Zenon DEF TaskDequeueShrink
<1>2. /\ tqBack = tqOwner.back + 1 /\ tqFront <= tqBack /\ TqTop = tqOwner.back + 1
      /\ tqOwner.front <= tqOwner.back /\ tqOwner.front <= tqFront
  BY <1>1 DEF TqInv, TqOwnerKnows, TqTop
<1>3. ~tqRaced => tqFront = tqOwner.front
  BY <1>1 DEF TqInv, TqWindow, TqMine
<1>k. ASSUME NEW t \in TqThieves, tqThief[t].at \in {"read", "cas"}, tqThief[t].front = tqFront
      PROVE  tqFront <= tqOwner.back
  BY <1>0, <1>1, <1>2, <1>k DEF TqInv, TqThiefKnows
<1>4. CASE LastItem
  <2> DEFINE r == [tqOwner EXCEPT !.at = "restore", !.item = x]
  <2>r. /\ r \in TqRecords /\ r.at = "restore" /\ r.front = tqOwner.front /\ r.back = tqOwner.back
        /\ r.item = x
    BY <1>0 DEF TqRecords
  <2>1. tqOwner' = r /\ tqTaken' = tqTaken
    BY <1>1, <1>4
  <2> HIDE DEF r
  <2>2. TqTop' = TqTop /\ tqOwner.front = tqOwner.back
    BY <1>0, <1>1, <1>2, <1>4, <2>1, <2>r DEF TqTop, LastItem
  <2>3. TqTypeOK'
    BY <1>t, <1>0, <1>1, <1>u, <2>1, <2>r DEF TqTypeOK
  <2>4. TqOwnerKnows'
    BY <1>0, <1>1, <1>2, <2>1, <2>2, <2>r DEF TqOwnerKnows
  <2>5. TqMine'
    BY <1>1, <2>1, <2>2, <2>r DEF TqMine
  <2>6. ASSUME NEW t \in TqThieves
        PROVE  TqThiefKnows(t)' /\ (~tqRaced => TqTheirs(t)')
    <3>1. TqThiefKnows(t)'
      <4>1. TqThiefKnows(t)
        BY DEF TqInv
      <4> QED
        BY <1>1, <1>k, <2>1, <2>r, <4>1 DEF TqThiefKnows
    <3>2. ~tqRaced => TqTheirs(t)'
      <4>1. ~tqRaced => TqTheirs(t)
        BY DEF TqInv, TqWindow
      <4> QED
        BY <1>1, <2>2, <4>1 DEF TqTheirs
    <3> QED
      BY <3>1, <3>2
  <2>7. ASSUME ~tqRaced
        PROVE  TqHolds(tqFront, TqTop, tqSize, tqCells, tqTaken, tqCount)'
    BY <1>1, <2>1, <2>2, <2>7 DEF TqInv, TqWindow, TqHolds
  <2> QED
    BY <1>u, <2>3, <2>4, <2>5, <2>6, <2>7 DEF TqInv, TqWindow
<1>5. CASE ~LastItem
  <2>1. /\ tqOwner' = TqIdle /\ tqTaken' = [tqTaken EXCEPT ![x] = @ + 1]
        /\ tqOwner.front < tqOwner.back
    BY <1>0, <1>1, <1>2, <1>5 DEF LastItem
  <2>2. TqTop' = tqOwner.back
    BY <1>0, <1>1, <2>1 DEF TqTop
  <2>3. TqTypeOK'
    <3>1. tqTaken' \in [1 .. TqItems -> Nat]
      BY <1>0, <2>1, TqTakeType, Zenon
    <3> QED
      BY <1>t, <1>0, <1>1, <1>u, <2>1, <3>1 DEF TqTypeOK
  <2>4. TqOwnerKnows' /\ TqMine'
    BY <1>0, <1>1, <1>2, <2>1 DEF TqOwnerKnows, TqMine
  <2>6. ASSUME NEW t \in TqThieves
        PROVE  TqThiefKnows(t)' /\ (~tqRaced => TqTheirs(t)')
    <3>1. TqThiefKnows(t)'
      <4>1. TqThiefKnows(t)
        BY DEF TqInv
      <4> QED
        BY <1>0, <1>1, <1>k, <2>1, <4>1 DEF TqThiefKnows
    <3>2. ~tqRaced => TqTheirs(t)'
      <4>1. ~tqRaced => TqTheirs(t)
        BY DEF TqInv, TqWindow
      <4> QED
        BY <1>1, <1>3, <2>1, <2>2, <4>1 DEF TqTheirs
    <3> QED
      BY <3>1, <3>2
  <2>7. ASSUME ~tqRaced
        PROVE  TqHolds(tqFront, TqTop, tqSize, tqCells, tqTaken, tqCount)'
    <3>1. TqHolds(tqFront, tqOwner.back + 1, tqSize, tqCells, tqTaken, tqCount)
      BY <1>2, <2>7 DEF TqInv, TqWindow
    <3>2. tqFront <= tqOwner.back
      BY <1>2, <1>3, <2>7
    <3>3. TqHolds(tqFront, tqOwner.back, tqSize, tqCells, tqTaken', tqCount)
      BY <1>0, <2>1, <3>1, <3>2, TqDropBack
    <3> QED
      BY <1>1, <2>2, <3>3 DEF TqHolds
  <2> QED
    BY <1>u, <2>3, <2>4, <2>6, <2>7 DEF TqInv, TqWindow
<1> QED
  BY <1>4, <1>5

(* dequeue(), last item: M_back is stored back.                            *)
LEMMA TqRestore ==
    ASSUME TqInv, TaskDequeueRestore
    PROVE  TqInv'
<1> DEFINE r == [tqOwner EXCEPT !.at = "claim"]
<1>t. TqTypeOK
  BY DEF TqInv
<1>0. /\ tqFront \in Nat /\ tqBack \in Nat /\ tqOwner.front \in Nat /\ tqOwner.back \in Nat
      /\ tqOwner \in TqRecords
  BY <1>t, TqTypes
<1>1. /\ tqOwner.at = "restore" /\ tqBack' = tqOwner.back + 1 /\ tqOwner' = r
      /\ UNCHANGED <<tqFront, tqSize, tqCells, tqCount, tqThief, tqTaken, tqRaced>>
  BY DEF TaskDequeueRestore
<1>r. /\ r \in TqRecords /\ r.at = "claim" /\ r.front = tqOwner.front /\ r.back = tqOwner.back
      /\ r.item = tqOwner.item
  BY <1>0 DEF TqRecords
<1> HIDE DEF r
<1>2. /\ tqBack = tqOwner.back /\ tqOwner.front = tqOwner.back /\ tqOwner.front <= tqFront
      /\ tqFront <= tqBack + 1
  BY <1>1 DEF TqInv, TqOwnerKnows
<1>3. TqTop' = TqTop
  BY <1>0, <1>1, <1>2, <1>r DEF TqTop
<1>4. TqTypeOK'
  BY <1>t, <1>0, <1>1, <1>r DEF TqTypeOK
<1>5. TqOwnerKnows'
  BY <1>0, <1>1, <1>2, <1>r DEF TqOwnerKnows
<1>6. ~tqRaced => TqMine'
  BY <1>1, <1>r DEF TqInv, TqWindow, TqMine
<1>7. ASSUME NEW t \in TqThieves
      PROVE  TqThiefKnows(t)' /\ (~tqRaced => TqTheirs(t)')
  BY <1>0, <1>1, <1>2, <1>3, TqThievesKept
<1>8. ASSUME ~tqRaced
      PROVE  TqHolds(tqFront, TqTop, tqSize, tqCells, tqTaken, tqCount)'
  BY <1>1, <1>3, <1>8 DEF TqInv, TqWindow, TqHolds
<1>u. tqRaced' = tqRaced
  BY <1>1, Zenon
<1> QED
  BY <1>4, <1>5, <1>6, <1>7, <1>8, <1>u DEF TqInv, TqWindow

(* dequeue(), last item: M_front decides.                                  *)
LEMMA TqClaim ==
    ASSUME TqInv, TaskDequeueClaim
    PROVE  TqInv'
<1>t. TqTypeOK
  BY DEF TqInv
<1>0. /\ tqFront \in Nat /\ tqBack \in Nat /\ tqOwner.front \in Nat /\ tqOwner.back \in Nat
      /\ TqIdle \in TqRecords /\ TqIdle.at = "idle" /\ tqSize \in Nat \ {0}
      /\ tqTaken \in [1 .. TqItems -> Nat] /\ tqCount \in 0 .. TqItems
  BY <1>t, TqTypes
<1>1. /\ tqOwner.at = "claim" /\ tqOwner' = TqIdle
      /\ UNCHANGED <<tqBack, tqSize, tqCells, tqCount, tqThief>>
      /\ tqFront = tqOwner.front => /\ tqFront' = tqFront + 1
                                    /\ tqTaken' = [tqTaken EXCEPT ![tqOwner.item] = @ + 1]
      /\ tqFront # tqOwner.front => UNCHANGED <<tqFront, tqTaken>>
  BY DEF TaskDequeueClaim, Take
<1>u. tqRaced' = tqRaced
  BY Zenon DEF TaskDequeueClaim
<1>2. /\ tqBack = tqOwner.back + 1 /\ tqOwner.front = tqOwner.back /\ tqOwner.front <= tqFront
      /\ tqFront <= tqBack
  BY <1>1 DEF TqInv, TqOwnerKnows
<1>3. TqTop' = tqBack /\ TqTop = tqBack
  BY <1>0, <1>1 DEF TqTop
<1>4. CASE tqFront # tqOwner.front
  <2>1. TqTypeOK'
    BY <1>t, <1>0, <1>1, <1>4, <1>u DEF TqTypeOK
  <2>2. TqOwnerKnows' /\ TqMine'
    BY <1>0, <1>1, <1>2, <1>4 DEF TqOwnerKnows, TqMine
  <2>3. ASSUME NEW t \in TqThieves
        PROVE  TqThiefKnows(t)' /\ (~tqRaced => TqTheirs(t)')
    BY <1>0, <1>1, <1>3, <1>4, TqThievesKept
  <2>4. ASSUME ~tqRaced
        PROVE  TqHolds(tqFront, TqTop, tqSize, tqCells, tqTaken, tqCount)'
    BY <1>1, <1>3, <1>4, <2>4 DEF TqInv, TqWindow, TqHolds
  <2> QED
    BY <1>u, <2>1, <2>2, <2>3, <2>4 DEF TqInv, TqWindow
<1>5. CASE tqFront = tqOwner.front
  <2>1. tqFront' = tqFront + 1 /\ tqTaken' = [tqTaken EXCEPT ![tqOwner.item] = @ + 1]
    BY <1>1, <1>5
  <2>2. TqTypeOK'
    <3>1. tqTaken' \in [1 .. TqItems -> Nat]
      BY <1>0, <2>1, TqTakeType, Zenon
    <3>2. tqFront' \in Nat
      BY <1>0, <2>1
    <3> QED
      BY <1>t, <1>0, <1>1, <1>u, <3>1, <3>2 DEF TqTypeOK
  <2>3. TqOwnerKnows' /\ TqMine'
    BY <1>0, <1>1, <1>2, <1>5, <2>1 DEF TqOwnerKnows, TqMine
  <2>4. ASSUME NEW t \in TqThieves
        PROVE  TqThiefKnows(t)' /\ TqTheirs(t)'
    <3>1. tqThief[t].front \in Nat /\ TqThiefKnows(t)
      BY <1>t, TqTypes DEF TqInv
    <3> QED
      BY <1>0, <1>1, <2>1, <3>1 DEF TqThiefKnows, TqTheirs
  <2>5. ASSUME ~tqRaced
        PROVE  TqHolds(tqFront, TqTop, tqSize, tqCells, tqTaken, tqCount)'
    <3>1. TqHolds(tqFront, tqBack, tqSize, tqCells, tqTaken, tqCount)
      BY <1>3, <2>5 DEF TqInv, TqWindow
    <3>2. tqFront < tqBack /\ tqOwner.item = tqCells[tqFront % tqSize]
      BY <1>0, <1>1, <1>2, <1>5, <2>5 DEF TqInv, TqWindow, TqMine
    <3>3. TqHolds(tqFront + 1, tqBack, tqSize, tqCells, tqTaken', tqCount)
      BY <1>0, <2>1, <3>1, <3>2, TqDropFront
    <3> QED
      BY <1>1, <1>3, <2>1, <3>3 DEF TqHolds
  <2> QED
    BY <1>u, <2>2, <2>3, <2>4, <2>5 DEF TqInv, TqWindow
<1> QED
  BY <1>4, <1>5

(* Every step of the queue.                                                *)
LEMMA TqInvStep ==
    ASSUME TqInv, [TqNext]_tqVars
    PROVE  TqInv'
<1>1. CASE UNCHANGED tqVars
  <2>1. UNCHANGED <<tqFront, tqBack, tqSize, tqCells, tqCount, tqOwner, tqThief, tqTaken>>
    BY <1>1 DEF tqVars
  <2>u. tqRaced' = tqRaced
    BY <1>1, Zenon DEF tqVars
  <2>2. TqTypeOK' /\ TqOwnerKnows' /\ TqTop' = TqTop
    BY <2>1, <2>u DEF TqInv, TqTypeOK, TqOwnerKnows, TqTop
  <2>3. \A t \in TqThieves : TqThiefKnows(t)'
    BY <2>1 DEF TqInv, TqThiefKnows
  <2>4. ASSUME TqWindow PROVE TqWindow'
    <3>1. TqHolds(tqFront, TqTop, tqSize, tqCells, tqTaken, tqCount)'
      BY <2>1, <2>2, <2>4 DEF TqWindow, TqHolds
    <3>2. TqMine' /\ \A t \in TqThieves : TqTheirs(t)'
      BY <2>1, <2>2, <2>4 DEF TqWindow, TqMine, TqTheirs
    <3> QED
      BY <3>1, <3>2 DEF TqWindow
  <2> QED
    BY <2>2, <2>3, <2>4, <2>u DEF TqInv
<1> QED
  BY <1>1, TqEnqueue, TqPublish, TqLoad, TqShrink, TqRestore, TqClaim, TqThiefLoads, TqSteal
  DEF TqNext

-----------------------------------------------------------------------------
(* Pool allocator: the free list, written out as L[1], ..., L[n].          *)
PaChain(n, L) ==
    /\ paHead.ptr = IF n = 0 THEN PaNull ELSE L[1]
    /\ \A i \in 1 .. n : paNext[L[i]] = IF i = n THEN PaNull ELSE L[i + 1]
    /\ \A i, j \in 1 .. n : L[i] = L[j] => i = j

(* The chunks in F are nobody's, and with F they are all there are.        *)
PaApart(F) ==
    /\ \A t \in PaThreads :
          /\ (paOwned[t] \cup Carried(t)) \cap F = {}
          /\ paOwned[t] \cap Carried(t) = {}
          /\ \A u \in PaThreads \ {t} :
                (paOwned[t] \cup Carried(t)) \cap (paOwned[u] \cup Carried(u)) = {}
    /\ F \cup UNION {paOwned[t] \cup Carried(t) : t \in PaThreads}
         = 1 .. paBlocks * PaBlockSize

PaHeads == [ptr : PaChunks \union {PaNull}, tag : Nat]

PaTypeOK ==
    /\ paHead \in PaHeads /\ paHead.tag # 0
    /\ paNext \in [PaChunks -> PaChunks \union {PaNull, PaJunk}]
    /\ paBlocks \in 1 .. PaBlocks /\ paAllocating \in BOOLEAN
    /\ paOwned \in [PaThreads -> SUBSET PaChunks]
    /\ paThread \in [PaThreads -> [at : {"idle", "reload", "refill", "next", "take", "link",
                                         "linked", "put"},
                                   head : PaHeads, chunk : Nat,
                                   next : PaChunks \union {PaNull, PaJunk}]]

(* What a thread knows of the head: a head with the current tag is the     *)
(* current head, and M_next was read from it.                              *)
PaKnows(t) ==
    LET me == paThread[t]
    IN  /\ me.head.tag <= paHead.tag /\ (me.head.tag = paHead.tag => me.head = paHead)
        /\ me.at \in {"next", "take"} => me.head.ptr \in PaChunks
        /\ me.at = "take" /\ me.head = paHead => me.next = paNext[paHead.ptr]
        /\ me.at = "link" => me.chunk \in 1 .. paBlocks
        /\ me.at = "put" => me.chunk \in PaChunks
        /\ me.at \in {"link", "linked"} => paAllocating

(* One thread makes a block.                                               *)
PaOneLinks ==
    \A t, u \in PaThreads :
       paThread[t].at \in {"link", "linked"} /\ paThread[u].at \in {"link", "linked"} => t = u

PaListed == \E n \in Nat : \E L \in [1 .. n -> PaChunks] :
               PaChain(n, L) /\ PaApart({L[i] : i \in 1 .. n})

PaInv == PaTypeOK /\ (\A t \in PaThreads : PaKnows(t)) /\ PaOneLinks /\ PaListed

(* The walk from the head meets the chunks of the list and no others.      *)
LEMMA PaWalk ==
    ASSUME NEW n \in Nat, NEW L \in [1 .. n -> PaChunks], PaChain(n, L), NEW N \in Nat, n <= N + 1
    PROVE  ListPrefix(N) = {L[i] : i \in 1 .. n}
<1> DEFINE at == CHOOSE f : f = [k \in 0 .. N |->
                    IF k = 0 THEN paHead.ptr
                    ELSE IF f[k - 1] \in PaChunks THEN paNext[f[k - 1]] ELSE PaNull]
           w == [k \in 0 .. N |-> IF k < n THEN L[k + 1] ELSE PaNull]
<1>1. PaNull \notin PaChunks
  BY DEF PaNull, PaChunks
<1>2. w = [k \in 0 .. N |-> IF k = 0 THEN paHead.ptr
                    ELSE IF w[k - 1] \in PaChunks THEN paNext[w[k - 1]] ELSE PaNull]
  <2>1. ASSUME NEW k \in 0 .. N
        PROVE  w[k] = IF k = 0 THEN paHead.ptr
                      ELSE IF w[k - 1] \in PaChunks THEN paNext[w[k - 1]] ELSE PaNull
    <3>1. CASE k = 0
      BY <3>1 DEF PaChain
    <3>2. CASE k # 0 /\ k - 1 < n
      <4>1. w[k - 1] = L[k] /\ k \in 1 .. n /\ L[k] \in PaChunks
        BY <3>2
      <4>2. paNext[L[k]] = IF k = n THEN PaNull ELSE L[k + 1]
        BY <4>1 DEF PaChain
      <4> QED
        BY <3>2, <4>1, <4>2
    <3>3. CASE k # 0 /\ ~(k - 1 < n)
      BY <1>1, <3>3, SMTT(60)
    <3> QED
      BY <3>1, <3>2, <3>3
  <2> QED
    BY <2>1
<1>3. at = [k \in 0 .. N |-> IF k = 0 THEN paHead.ptr
                    ELSE IF at[k - 1] \in PaChunks THEN paNext[at[k - 1]] ELSE PaNull]
  <2> HIDE DEF w
  <2> QED
    BY <1>2
<1>4. ListPrefix(N) = {at[k] : k \in 0 .. N} \ {PaNull}
  BY DEF ListPrefix
<1> HIDE DEF at
<1>5. \A k \in 0 .. N : at[k] = w[k]
  <2> DEFINE S == {k \in 0 .. N : at[k] = w[k]}
  <2>1. 0 \in S
    BY <1>3 DEF PaChain
  <2>2. ASSUME NEW k \in 0 .. N - 1, k \in S
        PROVE  k + 1 \in S
    <3>1. at[k + 1] = IF at[k] \in PaChunks THEN paNext[at[k]] ELSE PaNull
      BY <1>3
    <3>2. w[k + 1] = IF w[k] \in PaChunks THEN paNext[w[k]] ELSE PaNull
      <4> HIDE DEF w
      <4>1. k + 1 \in 0 .. N /\ k + 1 # 0 /\ (k + 1) - 1 = k
        OBVIOUS
      <4> QED
        BY <1>2, <4>1
    <3> QED
      BY <2>2, <3>1, <3>2
  <2> HIDE DEF S
  <2>3. \A k \in 0 .. N : k \in S
    BY <2>1, <2>2, UpTo
  <2> QED
    BY <2>3 DEF S
<1>6. ASSUME NEW i \in 1 .. n
      PROVE  L[i] \in ListPrefix(N)
  <2>1. i - 1 \in 0 .. N /\ at[i - 1] = L[i]
    BY <1>5
  <2> QED
    BY <1>1, <1>4, <2>1
<1>7. ASSUME NEW x \in ListPrefix(N)
      PROVE  \E i \in 1 .. n : x = L[i]
  <2>1. PICK k \in 0 .. N : x = at[k] /\ x # PaNull
    BY <1>4, <1>7
  <2>2. k < n /\ x = L[k + 1] /\ k + 1 \in 1 .. n
    BY <1>5, <2>1
  <2> QED
    BY <2>2
<1> QED
  BY <1>6, <1>7

(* The blocks follow each other.                                           *)
LEMMA PaBlockFacts ==
    ASSUME NEW b \in 0 .. PaBlocks - 1
    PROVE  /\ PaBlock(b + 1) \subseteq PaChunks
           /\ 1 .. b * PaBlockSize \subseteq PaChunks
           /\ PaBlock(b + 1) \cap (1 .. b * PaBlockSize) = {}
           /\ 1 .. (b + 1) * PaBlockSize = (1 .. b * PaBlockSize) \union PaBlock(b + 1)
           /\ PaBlock(b + 1) = b * PaBlockSize + 1 .. b * PaBlockSize + PaBlockSize
           /\ (b + 1) * PaBlockSize = b * PaBlockSize + PaBlockSize /\ b * PaBlockSize \in Nat
<1>1. PaBlockSize \in Nat \ {0} /\ PaBlocks \in Nat \ {0}
  BY PaAssumption
<1>2. b * PaBlockSize \in Nat /\ (b + 1) * PaBlockSize = b * PaBlockSize + PaBlockSize
  BY <1>1
<1>3. (b + 1) * PaBlockSize <= PaBlocks * PaBlockSize
  <2>1. PICK d \in Nat : PaBlocks = (b + 1) + d
    <3>1. PaBlocks - (b + 1) \in Nat /\ PaBlocks = (b + 1) + (PaBlocks - (b + 1))
      BY <1>1
    <3> QED
      BY <3>1
  <2>2. PaBlocks * PaBlockSize = (b + 1) * PaBlockSize + d * PaBlockSize
    BY <1>1, <2>1
  <2>3. d * PaBlockSize \in Nat /\ (b + 1) * PaBlockSize \in Nat
    BY <1>1, <2>1
  <2> QED
    BY <2>2, <2>3
<1>4. PaBlocks * PaBlockSize = PaBlockSize * PaBlocks /\ PaBlockSize * PaBlocks \in Nat
  BY <1>1
<1>5. PaBlock(b + 1) = b * PaBlockSize + 1 .. b * PaBlockSize + PaBlockSize
  BY <1>1, <1>2 DEF PaBlock
<1> QED
  BY <1>1, <1>2, <1>3, <1>4, <1>5 DEF PaChunks

(* Carried(), case by case.                                                *)
LEMMA PaCarried ==
    ASSUME NEW t
    PROVE  /\ paThread[t].at = "put" => Carried(t) = {paThread[t].chunk}
           /\ paThread[t].at = "link" => Carried(t) = PaBlock(paThread[t].chunk)
           /\ paThread[t].at \notin {"put", "link"} => Carried(t) = {}
  BY DEF Carried

(* A list of distinct chunks is no longer than there are chunks.           *)
LEMMA PaShort ==
    ASSUME NEW n \in Nat, NEW L \in [1 .. n -> PaChunks], \A i, j \in 1 .. n : L[i] = L[j] => i = j
    PROVE  n <= Cardinality(PaChunks) /\ Cardinality(PaChunks) \in Nat
<1>1. PaBlockSize * PaBlocks \in Nat
  BY PaAssumption
<1>2. IsFiniteSet(PaChunks) /\ Cardinality(PaChunks) \in Nat
  BY <1>1, FS_Interval, FS_CardinalityType DEF PaChunks
<1>3. Cardinality(1 .. n) = n /\ IsFiniteSet(1 .. n)
  BY FS_Interval
<1>4. L \in Injection(1 .. n, PaChunks)
  BY DEF Injection, IsInjective
<1> QED
  BY <1>2, <1>3, <1>4, FS_Injection

(* A thread moves chunks between the list, itself and the unused ones.     *)
LEMMA PaMove ==
    ASSUME PaTypeOK, PaTypeOK', NEW t \in PaThreads, NEW F, NEW G, NEW X, PaApart(F),
           X \cap (1 .. paBlocks * PaBlockSize) = {},
           (1 .. paBlocks * PaBlockSize)' = (1 .. paBlocks * PaBlockSize) \union X,
           G \union (paOwned'[t] \union Carried(t)')
             = F \union (paOwned[t] \union Carried(t)) \union X,
           G \cap (paOwned'[t] \union Carried(t)') = {}, paOwned'[t] \cap Carried(t)' = {},
           \A u \in PaThreads \ {t} : paOwned'[u] = paOwned[u] /\ paThread'[u] = paThread[u]
    PROVE  PaApart(G)'
<1> DEFINE H(u) == paOwned[u] \union Carried(u)
           Hn(u) == paOwned'[u] \union Carried(u)'
           W == 1 .. paBlocks * PaBlockSize
<1>1. \A u \in PaThreads \ {t} : Carried(u)' = Carried(u)
  BY DEF Carried, PaBlock
<1>2. \A u \in PaThreads \ {t} : Hn(u) = H(u) /\ paOwned'[u] \cap Carried(u)' = {}
  BY <1>1 DEF PaApart
<1>3. /\ \A u \in PaThreads : H(u) \cap F = {}
      /\ \A u, v \in PaThreads : u # v => H(u) \cap H(v) = {}
      /\ \A u \in PaThreads : H(u) \subseteq W
      /\ F \subseteq W
      /\ \A x \in W : x \in F \/ \E u \in PaThreads : x \in H(u)
  BY DEF PaApart
<1>4. G \union Hn(t) = F \union H(t) \union X /\ G \cap Hn(t) = {} /\ X \cap W = {}
  OBVIOUS
<1>5. W' = W \union X
  OBVIOUS
<1> HIDE DEF H, Hn, W
<1>6. \A u \in PaThreads : Hn(u) \cap G = {}
  BY <1>2, <1>3, <1>4
<1>7. \A u, v \in PaThreads : u # v => Hn(u) \cap Hn(v) = {}
  BY <1>2, <1>3, <1>4
<1>8. \A x \in W \union X : x \in G \/ \E u \in PaThreads : x \in Hn(u)
  <2> SUFFICES ASSUME NEW x \in W \union X, x \notin G
               PROVE  \E u \in PaThreads : x \in Hn(u)
    OBVIOUS
  <2>1. CASE x \in F \union H(t) \union X
    BY <1>4, <2>1
  <2>2. CASE x \notin F \union H(t) \union X
    <3>1. PICK u \in PaThreads : x \in H(u)
      BY <1>3, <2>2
    <3> QED
      BY <1>2, <2>2, <3>1
  <2> QED
    BY <2>1, <2>2
<1>9. G \subseteq W \union X /\ \A u \in PaThreads : Hn(u) \subseteq W \union X
  BY <1>2, <1>3, <1>4
<1>10. \A u \in PaThreads : paOwned'[u] \cap Carried(u)' = {}
  BY <1>2
<1>11. G \union UNION {Hn(u) : u \in PaThreads} = W \union X
  BY <1>8, <1>9
<1>12. G \union UNION {Hn(u) : u \in PaThreads} = (1 .. paBlocks * PaBlockSize)'
  BY <1>5, <1>11 DEF W
<1> QED
  BY <1>6, <1>7, <1>10, <1>12 DEF PaApart, Hn

(* The list stands when no chunk on it is written.                         *)
LEMMA PaChainKept ==
    ASSUME NEW n \in Nat, NEW L \in [1 .. n -> PaChunks], PaChain(n, L), paHead' = paHead,
           \A i \in 1 .. n : paNext'[L[i]] = paNext[L[i]]
    PROVE  PaChain(n, L)'
  BY DEF PaChain

(* The other threads: a head that changes gets a tag of its own.           *)
LEMMA PaOthersKnow ==
    ASSUME PaTypeOK, PaTypeOK', NEW u \in PaThreads, PaKnows(u), paThread'[u] = paThread[u],
           paBlocks <= paBlocks', paThread[u].at \in {"link", "linked"} => paAllocating',
           \/ paHead'.tag = paHead.tag + 1
           \/ paHead' = paHead /\ (paHead.ptr \in PaChunks =>
                                     paNext'[paHead.ptr] = paNext[paHead.ptr])
    PROVE  PaKnows(u)'
<1> DEFINE me == paThread[u]
<1>1. /\ me.head \in PaHeads /\ paHead \in PaHeads /\ paHead' \in PaHeads
      /\ paBlocks \in Nat /\ paBlocks' \in Nat
  BY DEF PaTypeOK
<1>2. me.head.tag \in Nat /\ paHead.tag \in Nat /\ paHead'.tag \in Nat
  BY <1>1 DEF PaHeads
<1>3. CASE paHead'.tag = paHead.tag + 1
  <2>1. me.head.tag <= paHead'.tag /\ me.head.tag # paHead'.tag /\ me.head # paHead'
    BY <1>2, <1>3 DEF PaKnows
  <2> QED
    BY <1>1, <2>1 DEF PaKnows
<1>4. CASE paHead' = paHead /\ (paHead.ptr \in PaChunks =>
                                     paNext'[paHead.ptr] = paNext[paHead.ptr])
  BY <1>1, <1>4 DEF PaKnows
<1> QED
  BY <1>3, <1>4

(* A thread's own step changes its own record.                             *)
LEMMA PaGoStep ==
    ASSUME PaTypeOK, NEW t \in PaThreads, NEW r, PaGo(t, r)
    PROVE  paThread'[t] = r /\ \A u \in PaThreads \ {t} : paThread'[u] = paThread[u]
  BY DEF PaTypeOK, PaGo

PaRecords == [at : {"idle", "reload", "refill", "next", "take", "link", "linked", "put"},
              head : PaHeads, chunk : Nat, next : PaChunks \union {PaNull, PaJunk}]

(* Steps that move no chunk and write no link.                             *)
LEMMA PaQuiet ==
    ASSUME PaInv, NEW t \in PaThreads, NEW r \in PaRecords, PaGo(t, r),
           UNCHANGED <<paHead, paNext, paBlocks, paOwned>>, paAllocating' \in BOOLEAN,
           paThread[t].at \notin {"link", "put"}, r.at \notin {"link", "linked", "put"},
           paThread[t].at = "linked" \/ paAllocating' = paAllocating \/ paAllocating',
           r.head.tag <= paHead.tag, r.head.tag = paHead.tag => r.head = paHead,
           r.at \in {"next", "take"} => r.head.ptr \in PaChunks,
           r.at = "take" /\ r.head = paHead => r.next = paNext[paHead.ptr]
    PROVE  PaInv'
<1>1. paThread'[t] = r /\ \A u \in PaThreads \ {t} : paThread'[u] = paThread[u]
  BY PaGoStep DEF PaInv
<1>2. PaTypeOK'
  BY DEF PaInv, PaTypeOK, PaGo, PaRecords
<1>3. PaOneLinks'
  BY <1>1 DEF PaInv, PaOneLinks
<1>4. ASSUME NEW u \in PaThreads
      PROVE  PaKnows(u)'
  <2>1. CASE u = t
    BY <1>1, <2>1 DEF PaKnows
  <2>2. CASE u # t
    <3>1. paThread[u].at \in {"link", "linked"} => paAllocating /\ paThread[t].at # "linked"
      BY <2>2 DEF PaInv, PaOneLinks, PaKnows
    <3>2. paThread[u].at \in {"link", "linked"} => paAllocating'
      BY <3>1
    <3>3. paBlocks <= paBlocks'
      BY DEF PaInv, PaTypeOK
    <3> QED
      BY <1>1, <1>2, <2>2, <3>2, <3>3, PaOthersKnow DEF PaInv
  <2> QED
    BY <2>1, <2>2
<1>5. PaListed'
  <2>0. PICK n \in Nat : \E L \in [1 .. n -> PaChunks] :
          PaChain(n, L) /\ PaApart({L[i] : i \in 1 .. n})
    BY DEF PaInv, PaListed
  <2>1. PICK L \in [1 .. n -> PaChunks] : PaChain(n, L) /\ PaApart({L[i] : i \in 1 .. n})
    BY <2>0
  <2>2. PaChain(n, L)'
    BY <2>1, PaChainKept
  <2>3. Carried(t) = {} /\ Carried(t)' = {}
    BY <1>1, PaCarried DEF Carried
  <2>4. PICK F : F = {L[i] : i \in 1 .. n}
    OBVIOUS
  <2>5. PaApart(F) /\ paOwned[t] \cap F = {}
    BY <2>1, <2>4 DEF PaApart
  <2>6. PaApart(F)'
    <3>0. PICK X : X = {}
      OBVIOUS
    <3>1. (1 .. paBlocks * PaBlockSize)' = (1 .. paBlocks * PaBlockSize) \union X
      BY <3>0
    <3>2. /\ F \union (paOwned'[t] \union Carried(t)')
               = F \union (paOwned[t] \union Carried(t)) \union X
          /\ F \cap (paOwned'[t] \union Carried(t)') = {} /\ paOwned'[t] \cap Carried(t)' = {}
          /\ X \cap (1 .. paBlocks * PaBlockSize) = {}
      BY <2>3, <2>5, <3>0
    <3>3. \A u \in PaThreads \ {t} : paOwned'[u] = paOwned[u] /\ paThread'[u] = paThread[u]
      BY <1>1
    <3>4. PaTypeOK
      BY DEF PaInv
    <3> QED
      BY <1>2, <2>5, <3>1, <3>2, <3>3, <3>4, PaMove
  <2> QED
    BY <2>2, <2>4, <2>6 DEF PaListed
<1> QED
  BY <1>2, <1>3, <1>4, <1>5 DEF PaInv

(* Loading the head, reading M_next, and finding that a block is being     *)
(* made.                                                                   *)
LEMMA PaQuietSteps ==
    ASSUME PaInv, NEW t \in PaThreads,
           \/ AllocateLoad(t) \/ AllocateNext(t) \/ BlockEnd(t)
           \/ (AllocateTake(t) /\ ~SameHead(paThread[t].head))
           \/ (BlockBegin(t) /\ paAllocating)
    PROVE  PaInv'
<1> DEFINE me == paThread[t]
<1>t. /\ me \in PaRecords /\ paHead \in PaHeads /\ paHead.tag # 0
      /\ paNext \in [PaChunks -> PaChunks \union {PaNull, PaJunk}] /\ paAllocating \in BOOLEAN
  BY DEF PaInv, PaTypeOK, PaRecords
<1>h. paHead.tag \in Nat /\ paHead.ptr \in PaChunks \union {PaNull}
  BY <1>t DEF PaHeads
<1>1. CASE AllocateLoad(t) \/ (AllocateTake(t) /\ ~SameHead(paThread[t].head))
  <2> DEFINE r == [PaIdle EXCEPT !.at = IF paHead.ptr = PaNull THEN "refill" ELSE "next",
                                 !.head = paHead]
  <2>1. /\ PaGo(t, r) /\ UNCHANGED <<paHead, paNext, paBlocks, paOwned, paAllocating>>
        /\ me.at \in {"idle", "reload", "take"}
    BY <1>1, Zenon DEF AllocateLoad, AllocateTake
  <2>2. r \in PaRecords /\ r.head = paHead
        /\ r.at = IF paHead.ptr = PaNull THEN "refill" ELSE "next"
    BY <1>t DEF PaIdle, PaRecords, PaHeads, PaNull
  <2> HIDE DEF r
  <2>3. r.at \in {"next", "take"} => r.head.ptr \in PaChunks
    BY <1>h, <2>2
  <2> QED
    BY <1>t, <1>h, <2>1, <2>2, <2>3, PaQuiet
<1>2. CASE AllocateNext(t)
  <2> DEFINE r == [me EXCEPT !.at = "take", !.next = paNext[me.head.ptr]]
  <2>1. /\ PaGo(t, r) /\ UNCHANGED <<paHead, paNext, paBlocks, paOwned, paAllocating>>
        /\ me.at = "next"
    BY <1>2, Zenon DEF AllocateNext
  <2>2. me.head.ptr \in PaChunks /\ me.head.tag <= paHead.tag
        /\ (me.head.tag = paHead.tag => me.head = paHead)
    BY <2>1 DEF PaInv, PaKnows
  <2>3. r \in PaRecords /\ r.head = me.head /\ r.at = "take" /\ r.next = paNext[me.head.ptr]
    BY <1>t, <2>2 DEF PaRecords
  <2> HIDE DEF r
  <2> QED
    BY <1>t, <2>1, <2>2, <2>3, PaQuiet
<1>3. CASE BlockEnd(t) \/ (BlockBegin(t) /\ paAllocating)
  <2> DEFINE r == [PaIdle EXCEPT !.at = "reload"]
  <2>1. /\ PaGo(t, r) /\ UNCHANGED <<paHead, paNext, paBlocks, paOwned>>
        /\ paAllocating' \in BOOLEAN /\ me.at \in {"linked", "refill"}
        /\ me.at = "linked" \/ paAllocating'
    BY <1>3, Zenon DEF BlockEnd, BlockBegin
  <2>2. r \in PaRecords /\ r.head.tag = 0 /\ r.at = "reload"
    BY DEF PaIdle, PaRecords, PaHeads, PaNull
  <2> HIDE DEF r
  <2> QED
    BY <1>t, <1>h, <2>1, <2>2, PaQuiet
<1> QED
  BY <1>1, <1>2, <1>3

(* A step of thread t that moves chunks: what is left to show is the new   *)
(* list and what t holds.                                                  *)
LEMMA PaStep ==
    ASSUME PaInv, PaTypeOK', NEW t \in PaThreads, NEW r, PaGo(t, r),
           paBlocks <= paBlocks',
           \/ paHead'.tag = paHead.tag + 1
           \/ paHead' = paHead /\ (paHead.ptr \in PaChunks =>
                                     paNext'[paHead.ptr] = paNext[paHead.ptr]),
           PaKnows(t)', paAllocating => paAllocating',
           r.at \in {"link", "linked"} => paThread[t].at \in {"link", "linked"} \/ ~paAllocating,
           PaListed'
    PROVE  PaInv'
<1>1. paThread'[t] = r /\ \A u \in PaThreads \ {t} : paThread'[u] = paThread[u]
  BY PaGoStep DEF PaInv
<1>2. \A u \in PaThreads : PaKnows(u)
  BY DEF PaInv
<1>3. ASSUME NEW u \in PaThreads
      PROVE  PaKnows(u)'
  <2>1. CASE u # t
    <3>1. paThread[u].at \in {"link", "linked"} => paAllocating'
      BY <1>2 DEF PaKnows
    <3> QED
      BY <1>1, <1>2, <2>1, <3>1, PaOthersKnow DEF PaInv
  <2> QED
    BY <2>1
<1>4. PaOneLinks'
  BY <1>1, <1>2 DEF PaInv, PaOneLinks, PaKnows
<1> QED
  BY <1>3, <1>4 DEF PaInv

(* allocate() takes the head of the list.                                  *)
LEMMA PaTake ==
    ASSUME PaInv, NEW t \in PaThreads, AllocateTake(t), SameHead(paThread[t].head)
    PROVE  PaInv'
<1> DEFINE me == paThread[t]
           x == paHead.ptr
<1>t. /\ me \in PaRecords /\ paHead \in PaHeads /\ paHead.tag # 0
      /\ paNext \in [PaChunks -> PaChunks \union {PaNull, PaJunk}]
      /\ paOwned \in [PaThreads -> SUBSET PaChunks] /\ PaTypeOK /\ paBlocks \in Nat
  BY DEF PaInv, PaTypeOK, PaRecords
<1>h. paHead.tag \in Nat
  BY <1>t DEF PaHeads
<1>1. /\ me.at = "take" /\ paHead = me.head /\ PaGo(t, PaIdle)
      /\ paHead' = [ptr |-> me.next, tag |-> me.head.tag + 1]
      /\ paOwned' = [paOwned EXCEPT ![t] = @ \cup {me.head.ptr}]
      /\ paNext' = [paNext EXCEPT ![me.head.ptr] = PaJunk]
      /\ UNCHANGED <<paBlocks, paAllocating>>
  BY Zenon DEF AllocateTake, SameHead
<1>2. x \in PaChunks /\ me.next = paNext[x]
  BY <1>1 DEF PaInv, PaKnows
<1>3. PICK n \in Nat : \E L \in [1 .. n -> PaChunks] :
          PaChain(n, L) /\ PaApart({L[i] : i \in 1 .. n})
  BY DEF PaInv, PaListed
<1>4. PICK L \in [1 .. n -> PaChunks] : PaChain(n, L) /\ PaApart({L[i] : i \in 1 .. n})
  BY <1>3
<1>5. n # 0 /\ L[1] = x /\ me.next = IF n = 1 THEN PaNull ELSE L[2]
  BY <1>2, <1>4 DEF PaChain, PaNull, PaChunks
<1>6. me.next \in PaChunks \union {PaNull}
  BY <1>5
<1>i. PaIdle \in PaRecords /\ PaIdle.head.tag = 0 /\ PaIdle.at = "idle"
  BY DEF PaIdle, PaRecords, PaHeads, PaNull
<1>7. PaTypeOK'
  <2>1. paHead' \in PaHeads /\ paHead'.tag = paHead.tag + 1 /\ paHead'.tag # 0
    BY <1>t, <1>h, <1>1, <1>6 DEF PaHeads
  <2>2. paNext' \in [PaChunks -> PaChunks \union {PaNull, PaJunk}]
    BY <1>t, <1>1
  <2>3. paOwned' \in [PaThreads -> SUBSET PaChunks]
    BY <1>t, <1>1, <1>2
  <2>4. paThread' \in [PaThreads -> PaRecords]
    BY <1>t, <1>1, <1>i DEF PaGo, PaTypeOK, PaRecords
  <2> QED
    BY <1>t, <1>1, <2>1, <2>2, <2>3, <2>4 DEF PaTypeOK, PaRecords
<1>8. paThread'[t] = PaIdle /\ \A u \in PaThreads \ {t} : paThread'[u] = paThread[u]
  BY <1>t, <1>1, PaGoStep
<1>9. PICK M : M = [i \in 1 .. n - 1 |-> L[i + 1]]
  OBVIOUS
<1>10. n - 1 \in Nat /\ M \in [1 .. n - 1 -> PaChunks]
  BY <1>5, <1>9
<1>11. PaChain(n - 1, M)'
  <2>1. paHead'.ptr = IF n - 1 = 0 THEN PaNull ELSE M[1]
    BY <1>1, <1>5, <1>9
  <2>2. ASSUME NEW i \in 1 .. n - 1
        PROVE  paNext'[M[i]] = IF i = n - 1 THEN PaNull ELSE M[i + 1]
    <3>1. M[i] = L[i + 1] /\ i + 1 \in 1 .. n /\ 1 \in 1 .. n /\ L[i + 1] # x
      BY <1>4, <1>5, <1>9 DEF PaChain
    <3>2. paNext'[M[i]] = paNext[L[i + 1]]
      BY <1>t, <1>1, <3>1
    <3> QED
      BY <1>4, <1>9, <3>1, <3>2 DEF PaChain
  <2>3. \A i, j \in 1 .. n - 1 : M[i] = M[j] => i = j
    BY <1>4, <1>9 DEF PaChain
  <2> QED
    BY <2>1, <2>2, <2>3 DEF PaChain
<1>12. PICK F : F = {L[i] : i \in 1 .. n}
  OBVIOUS
<1>13. PICK G : G = {M[i] : i \in 1 .. n - 1}
  OBVIOUS
<1>14. F = G \union {x} /\ x \notin G
  <2>1. \A i \in 1 .. n - 1 : M[i] = L[i + 1] /\ i + 1 \in 1 .. n /\ M[i] # x
    BY <1>4, <1>5, <1>9 DEF PaChain
  <2>2. \A i \in 1 .. n : i = 1 \/ (i - 1 \in 1 .. n - 1 /\ M[i - 1] = L[i])
    BY <1>9
  <2>3. 1 \in 1 .. n
    BY <1>5
  <2>4. x \in F /\ x \notin G /\ G \subseteq F
    BY <1>5, <1>12, <1>13, <2>1, <2>3
  <2>5. ASSUME NEW y \in F, y # x
        PROVE  y \in G
    <3>1. PICK i \in 1 .. n : y = L[i]
      BY <1>12
    <3> QED
      BY <1>5, <1>13, <2>2, <2>5, <3>1
  <2> QED
    BY <2>4, <2>5
<1>15. PaApart(G)'
  <2>0. PICK X : X = {}
    OBVIOUS
  <2>1. (1 .. paBlocks * PaBlockSize)' = (1 .. paBlocks * PaBlockSize) \union X
        /\ X \cap (1 .. paBlocks * PaBlockSize) = {}
    BY <1>1, <2>0
  <2>2. Carried(t) = {} /\ Carried(t)' = {}
    BY <1>1, <1>8, <1>i, PaCarried DEF Carried
  <2>3. PaApart(F) /\ paOwned[t] \cap F = {}
    BY <1>4, <1>12 DEF PaApart
  <2>4. paOwned'[t] = paOwned[t] \union {x} /\ \A u \in PaThreads \ {t} : paOwned'[u] = paOwned[u]
    BY <1>t, <1>1
  <2>5. /\ G \union (paOwned'[t] \union Carried(t)')
             = F \union (paOwned[t] \union Carried(t)) \union X
        /\ G \cap (paOwned'[t] \union Carried(t)') = {} /\ paOwned'[t] \cap Carried(t)' = {}
    BY <1>14, <2>0, <2>2, <2>3, <2>4
  <2> QED
    BY <1>t, <1>7, <1>8, <2>1, <2>3, <2>4, <2>5, PaMove, ZenonT(60)
<1>16. PaListed'
  BY <1>10, <1>11, <1>13, <1>15 DEF PaListed
<1>17. PaKnows(t)'
  BY <1>h, <1>1, <1>8, <1>i DEF PaKnows
<1> QED
  BY <1>t, <1>1, <1>7, <1>16, <1>17, <1>i, PaStep

(* deallocate() takes the chunk from its owner.                            *)
LEMMA PaGiveUp ==
    ASSUME PaInv, NEW t \in PaThreads, NEW c \in PaChunks, DeallocateLoad(t, c)
    PROVE  PaInv'
<1> DEFINE me == paThread[t]
           r == [PaIdle EXCEPT !.at = "put", !.head = paHead, !.chunk = c]
<1>t. /\ paHead \in PaHeads /\ paOwned \in [PaThreads -> SUBSET PaChunks] /\ PaTypeOK
      /\ paBlocks \in Nat /\ paThread \in [PaThreads -> PaRecords] /\ c \in Nat
  BY DEF PaInv, PaTypeOK, PaRecords, PaChunks
<1>h. paHead.tag \in Nat
  BY <1>t DEF PaHeads
<1>1. /\ me.at = "idle" /\ c \in paOwned[t] /\ PaGo(t, r)
      /\ paOwned' = [paOwned EXCEPT ![t] = @ \ {c}]
      /\ UNCHANGED <<paHead, paNext, paBlocks, paAllocating>>
  BY Zenon DEF DeallocateLoad
<1>2. r \in PaRecords /\ r.at = "put" /\ r.head = paHead /\ r.chunk = c
  BY <1>t DEF PaIdle, PaRecords, PaHeads, PaNull
<1> HIDE DEF r
<1>3. paThread'[t] = r /\ \A u \in PaThreads \ {t} : paThread'[u] = paThread[u]
  BY <1>t, <1>1, PaGoStep
<1>4. PaTypeOK'
  BY <1>t, <1>1, <1>2 DEF PaGo, PaTypeOK, PaRecords
<1>5. PICK n \in Nat : \E L \in [1 .. n -> PaChunks] :
          PaChain(n, L) /\ PaApart({L[i] : i \in 1 .. n})
  BY DEF PaInv, PaListed
<1>6. PICK L \in [1 .. n -> PaChunks] : PaChain(n, L) /\ PaApart({L[i] : i \in 1 .. n})
  BY <1>5
<1>7. PICK F : F = {L[i] : i \in 1 .. n}
  OBVIOUS
<1>8. PaApart(F)'
  <2>0. PICK X : X = {}
    OBVIOUS
  <2>1. (1 .. paBlocks * PaBlockSize)' = (1 .. paBlocks * PaBlockSize) \union X
        /\ X \cap (1 .. paBlocks * PaBlockSize) = {}
    BY <1>1, <2>0
  <2>2. Carried(t) = {}
    BY <1>1, PaCarried
  <2>3. Carried(t)' = {c}
    BY <1>2, <1>3 DEF Carried
  <2>4. PaApart(F) /\ paOwned[t] \cap F = {}
    BY <1>6, <1>7 DEF PaApart
  <2>5. paOwned'[t] = paOwned[t] \ {c} /\ \A u \in PaThreads \ {t} : paOwned'[u] = paOwned[u]
    BY <1>t, <1>1
  <2>6. /\ F \union (paOwned'[t] \union Carried(t)')
             = F \union (paOwned[t] \union Carried(t)) \union X
        /\ F \cap (paOwned'[t] \union Carried(t)') = {} /\ paOwned'[t] \cap Carried(t)' = {}
    BY <1>1, <2>0, <2>2, <2>3, <2>4, <2>5
  <2> QED
    BY <1>t, <1>3, <1>4, <2>1, <2>4, <2>5, <2>6, PaMove
<1>9. PaListed'
  <2>1. PaChain(n, L)'
    BY <1>1, <1>6, PaChainKept
  <2> QED
    BY <1>7, <1>8, <2>1 DEF PaListed
<1>10. PaKnows(t)'
  BY <1>h, <1>1, <1>2, <1>3 DEF PaKnows
<1> QED
  BY <1>t, <1>1, <1>2, <1>4, <1>9, <1>10, PaStep

(* allocate_block() takes a block nobody has seen.                         *)
LEMMA PaNewBlock ==
    ASSUME PaInv, NEW t \in PaThreads, BlockBegin(t), ~paAllocating
    PROVE  PaInv'
<1> DEFINE me == paThread[t]
           r == [PaIdle EXCEPT !.at = "link", !.head = paHead, !.chunk = paBlocks + 1]
<1>t. /\ paHead \in PaHeads /\ paOwned \in [PaThreads -> SUBSET PaChunks] /\ PaTypeOK
      /\ paBlocks \in 1 .. PaBlocks /\ paThread \in [PaThreads -> PaRecords]
      /\ PaBlocks \in Nat
  BY PaAssumption DEF PaInv, PaTypeOK, PaRecords
<1>h. paHead.tag \in Nat
  BY <1>t DEF PaHeads
<1>1. /\ me.at = "refill" /\ PaGo(t, r) /\ paBlocks' = paBlocks + 1 /\ paBlocks < PaBlocks
      /\ paAllocating' = TRUE /\ UNCHANGED <<paHead, paNext, paOwned>>
  BY Zenon DEF BlockBegin
<1>2. r \in PaRecords /\ r.at = "link" /\ r.head = paHead /\ r.chunk = paBlocks + 1
  <2>1. PICK b \in Nat : b = paBlocks + 1
    BY <1>t
  <2>2. [PaIdle EXCEPT !.at = "link", !.head = paHead, !.chunk = b] \in PaRecords
    BY <1>t DEF PaIdle, PaRecords, PaHeads, PaNull
  <2> QED
    BY <2>1, <2>2 DEF PaIdle
<1> HIDE DEF r
<1>3. paThread'[t] = r /\ \A u \in PaThreads \ {t} : paThread'[u] = paThread[u]
  BY <1>t, <1>1, PaGoStep
<1>4. PaTypeOK'
  BY <1>t, <1>1, <1>2 DEF PaGo, PaTypeOK, PaRecords
<1>5. PICK n \in Nat : \E L \in [1 .. n -> PaChunks] :
          PaChain(n, L) /\ PaApart({L[i] : i \in 1 .. n})
  BY DEF PaInv, PaListed
<1>6. PICK L \in [1 .. n -> PaChunks] : PaChain(n, L) /\ PaApart({L[i] : i \in 1 .. n})
  BY <1>5
<1>7. PICK F : F = {L[i] : i \in 1 .. n}
  OBVIOUS
<1>8. PaApart(F)'
  <2>0. PICK X : X = PaBlock(paBlocks + 1)
    OBVIOUS
  <2>1. (1 .. paBlocks * PaBlockSize)' = (1 .. paBlocks * PaBlockSize) \union X
        /\ X \cap (1 .. paBlocks * PaBlockSize) = {}
    <3>1. paBlocks \in 0 .. PaBlocks - 1
      BY <1>t, <1>1
    <3> QED
      BY <1>1, <2>0, <3>1, PaBlockFacts
  <2>2. Carried(t) = {}
    BY <1>1, PaCarried
  <2>3. Carried(t)' = X
    BY <1>2, <1>3, <2>0 DEF Carried
  <2>4. /\ PaApart(F) /\ paOwned[t] \cap F = {}
        /\ F \union paOwned[t] \subseteq 1 .. paBlocks * PaBlockSize
    BY <1>6, <1>7 DEF PaApart
  <2>5. \A u \in PaThreads : paOwned'[u] = paOwned[u]
    BY <1>1
  <2>6. /\ F \union (paOwned'[t] \union Carried(t)')
             = F \union (paOwned[t] \union Carried(t)) \union X
        /\ F \cap (paOwned'[t] \union Carried(t)') = {} /\ paOwned'[t] \cap Carried(t)' = {}
    BY <2>1, <2>2, <2>3, <2>4, <2>5
  <2> QED
    BY <1>t, <1>3, <1>4, <2>1, <2>4, <2>5, <2>6, PaMove
<1>9. PaListed'
  <2>1. PaChain(n, L)'
    BY <1>1, <1>6, PaChainKept
  <2> QED
    BY <1>7, <1>8, <2>1 DEF PaListed
<1>10. PaKnows(t)'
  BY <1>h, <1>t, <1>1, <1>2, <1>3 DEF PaKnows
<1>11. paBlocks <= paBlocks'
  BY <1>t, <1>1
<1> QED
  BY <1>1, <1>2, <1>4, <1>9, <1>10, <1>11, PaStep

(* A thread that writes the links of the chunks it carries, Q[1], ...,     *)
(* Q[k], and fails to exchange the head.                                   *)
LEMMA PaPushFails ==
    ASSUME PaInv, PaTypeOK', NEW t \in PaThreads, NEW r, PaGo(t, r),
           paHead' = paHead, UNCHANGED <<paBlocks, paOwned>>,
           r.at = paThread[t].at, r.chunk = paThread[t].chunk,
           \A y \in PaChunks \ Carried(t) : paNext'[y] = paNext[y]
    PROVE  /\ PaListed'
           /\ paHead.ptr \in PaChunks => paNext'[paHead.ptr] = paNext[paHead.ptr]
<1>1. paThread'[t] = r /\ \A u \in PaThreads \ {t} : paThread'[u] = paThread[u]
  BY PaGoStep DEF PaInv
<1>2. PICK n \in Nat : \E L \in [1 .. n -> PaChunks] :
          PaChain(n, L) /\ PaApart({L[i] : i \in 1 .. n})
  BY DEF PaInv, PaListed
<1>3. PICK L \in [1 .. n -> PaChunks] : PaChain(n, L) /\ PaApart({L[i] : i \in 1 .. n})
  BY <1>2
<1>4. PICK F : F = {L[i] : i \in 1 .. n}
  OBVIOUS
<1>5. PaApart(F) /\ (paOwned[t] \union Carried(t)) \cap F = {} /\ paOwned[t] \cap Carried(t) = {}
  BY <1>3, <1>4 DEF PaApart
<1>6. \A i \in 1 .. n : paNext'[L[i]] = paNext[L[i]]
  BY <1>4, <1>5
<1>7. PaChain(n, L)'
  BY <1>3, <1>6, PaChainKept
<1>8. Carried(t)' = Carried(t)
  BY <1>1 DEF Carried
<1>9. PaApart(F)'
  <2>0. PICK X : X = {}
    OBVIOUS
  <2>1. (1 .. paBlocks * PaBlockSize)' = (1 .. paBlocks * PaBlockSize) \union X
        /\ X \cap (1 .. paBlocks * PaBlockSize) = {}
    BY <2>0
  <2>2. /\ F \union (paOwned'[t] \union Carried(t)')
             = F \union (paOwned[t] \union Carried(t)) \union X
        /\ F \cap (paOwned'[t] \union Carried(t)') = {} /\ paOwned'[t] \cap Carried(t)' = {}
    BY <1>5, <1>8, <2>0
  <2>3. PaTypeOK
    BY DEF PaInv
  <2>4. \A u \in PaThreads \ {t} : paOwned'[u] = paOwned[u] /\ paThread'[u] = paThread[u]
    BY <1>1
  <2> QED
    BY <1>5, <2>1, <2>2, <2>3, <2>4, PaMove
<1>10. paHead.ptr \in PaChunks => 1 \in 1 .. n /\ paHead.ptr = L[1]
  BY <1>3 DEF PaChain, PaNull, PaChunks
<1>11. PaListed'
  BY <1>4, <1>7, <1>9 DEF PaListed
<1> QED
  BY <1>6, <1>10, <1>11

(* ... and one that succeeds: the chunks are before the list.              *)
LEMMA PaPushes ==
    ASSUME PaInv, PaTypeOK', NEW t \in PaThreads, NEW r, PaGo(t, r),
           NEW k \in Nat \ {0}, NEW Q \in [1 .. k -> PaChunks],
           Carried(t) = {Q[i] : i \in 1 .. k}, \A i, j \in 1 .. k : Q[i] = Q[j] => i = j,
           \A i \in 1 .. k : paNext'[Q[i]] = IF i = k THEN paHead.ptr ELSE Q[i + 1],
           \A y \in PaChunks \ Carried(t) : paNext'[y] = paNext[y],
           paHead'.ptr = Q[1], UNCHANGED <<paBlocks, paOwned>>, r.at \notin {"put", "link"}
    PROVE  PaListed'
<1>1. paThread'[t] = r /\ \A u \in PaThreads \ {t} : paThread'[u] = paThread[u]
  BY PaGoStep DEF PaInv
<1>2. PICK n \in Nat : \E L \in [1 .. n -> PaChunks] :
          PaChain(n, L) /\ PaApart({L[i] : i \in 1 .. n})
  BY DEF PaInv, PaListed
<1>3. PICK L \in [1 .. n -> PaChunks] : PaChain(n, L) /\ PaApart({L[i] : i \in 1 .. n})
  BY <1>2
<1>4. PICK F : F = {L[i] : i \in 1 .. n}
  OBVIOUS
<1>5. PaApart(F) /\ (paOwned[t] \union Carried(t)) \cap F = {} /\ paOwned[t] \cap Carried(t) = {}
  BY <1>3, <1>4 DEF PaApart
<1>f. \A i \in 1 .. n : L[i] \in PaChunks \ Carried(t)
  <2>1. \A i \in 1 .. n : L[i] \in F
    BY <1>4
  <2> QED
    BY <1>5, <2>1
<1>6. \A i \in 1 .. n : paNext'[L[i]] = paNext[L[i]]
  BY <1>f
<1>7. \A i \in 1 .. k, j \in 1 .. n : Q[i] # L[j]
  BY <1>f
<1>8. PICK M : M = [i \in 1 .. n + k |-> IF i <= k THEN Q[i] ELSE L[i - k]]
  OBVIOUS
<1>9. /\ \A i \in 1 .. k : i \in 1 .. n + k /\ M[i] = Q[i]
      /\ \A i \in 1 .. n : i + k \in 1 .. n + k /\ M[i + k] = L[i]
      /\ \A i \in 1 .. n + k : i \in 1 .. k \/ (i - k \in 1 .. n /\ M[i] = L[i - k])
  BY <1>8
<1>10. M \in [1 .. n + k -> PaChunks] /\ n + k \in Nat
  BY <1>8, <1>9
<1>11. PaChain(n + k, M)'
  <2>1. paHead'.ptr = IF n + k = 0 THEN PaNull ELSE M[1]
    BY <1>9
  <2>2. ASSUME NEW i \in 1 .. n + k
        PROVE  paNext'[M[i]] = IF i = n + k THEN PaNull ELSE M[i + 1]
    <3>1. CASE i \in 1 .. k /\ i # k
      BY <1>9, <3>1
    <3>2. CASE i = k
      <4>1. M[i] = Q[k] /\ paNext'[M[i]] = paHead.ptr
        BY <1>9, <3>2
      <4>2. CASE n = 0
        BY <1>3, <3>2, <4>1, <4>2 DEF PaChain
      <4>3. CASE n # 0
        <5>1. paHead.ptr = L[1] /\ M[k + 1] = L[1]
          BY <1>3, <1>9, <4>3 DEF PaChain
        <5> QED
          BY <3>2, <4>1, <4>3, <5>1
      <4> QED
        BY <4>2, <4>3
    <3>3. CASE i \notin 1 .. k
      <4>1. i - k \in 1 .. n /\ M[i] = L[i - k]
        BY <1>9, <3>3
      <4>2. paNext'[M[i]] = IF i - k = n THEN PaNull ELSE L[(i - k) + 1]
        BY <1>3, <1>6, <4>1 DEF PaChain
      <4>3. i # n + k => M[i + 1] = L[(i - k) + 1]
        BY <1>9, <4>1
      <4> QED
        BY <4>1, <4>2, <4>3
    <3> QED
      BY <3>1, <3>2, <3>3
  <2>3. ASSUME NEW i \in 1 .. n + k, NEW j \in 1 .. n + k, M[i] = M[j]
        PROVE  i = j
    <3>1. CASE i \in 1 .. k /\ j \in 1 .. k
      BY <1>9, <2>3, <3>1
    <3>2. CASE i \notin 1 .. k /\ j \notin 1 .. k
      <4>1. i - k = j - k
        BY <1>3, <1>9, <2>3, <3>2 DEF PaChain
      <4> QED
        BY <4>1
    <3>3. CASE (i \in 1 .. k /\ j \notin 1 .. k) \/ (i \notin 1 .. k /\ j \in 1 .. k)
      BY <1>7, <1>9, <2>3, <3>3
    <3> QED
      BY <3>1, <3>2, <3>3
  <2> QED
    BY <2>1, <2>2, <2>3 DEF PaChain
<1>12. PICK G : G = {M[i] : i \in 1 .. n + k}
  OBVIOUS
<1>13. G = F \union Carried(t)
  <2>1. \A y \in F : y \in G
    BY <1>4, <1>9, <1>12
  <2>2. \A y \in Carried(t) : y \in G
    BY <1>9, <1>12
  <2>3. ASSUME NEW y \in G
        PROVE  y \in F \union Carried(t)
    <3>1. PICK i \in 1 .. n + k : y = M[i]
      BY <1>12
    <3> QED
      BY <1>4, <1>9, <3>1
  <2> QED
    BY <2>1, <2>2, <2>3
<1>14. PaApart(G)'
  <2>0. PICK X : X = {}
    OBVIOUS
  <2>1. (1 .. paBlocks * PaBlockSize)' = (1 .. paBlocks * PaBlockSize) \union X
        /\ X \cap (1 .. paBlocks * PaBlockSize) = {}
    BY <2>0
  <2>2. Carried(t)' = {}
    BY <1>1 DEF Carried
  <2>3. /\ G \union (paOwned'[t] \union Carried(t)')
             = F \union (paOwned[t] \union Carried(t)) \union X
        /\ G \cap (paOwned'[t] \union Carried(t)') = {} /\ paOwned'[t] \cap Carried(t)' = {}
        /\ \A u \in PaThreads : paOwned'[u] = paOwned[u]
    BY <1>5, <1>13, <2>0, <2>2
  <2>4. PaTypeOK
    BY DEF PaInv
  <2> QED
    BY <1>1, <1>5, <2>1, <2>3, <2>4, PaMove
<1>15. PICK m \in Nat : m = n + k
  OBVIOUS
<1>16. M \in [1 .. m -> PaChunks] /\ PaChain(m, M)' /\ PaApart({M[i] : i \in 1 .. m})'
  BY <1>10, <1>11, <1>12, <1>14, <1>15
<1> QED
  BY <1>16, ZenonT(60) DEF PaListed

(* deallocate() links the chunk to the head it knows and exchanges it.     *)
LEMMA PaPut ==
    ASSUME PaInv, NEW t \in PaThreads, DeallocatePut(t)
    PROVE  PaInv'
<1> DEFINE me == paThread[t]
<1>t. /\ paHead \in PaHeads /\ me \in PaRecords /\ PaTypeOK /\ paHead.tag \in Nat
      /\ paNext \in [PaChunks -> PaChunks \union {PaNull, PaJunk}]
      /\ paThread \in [PaThreads -> PaRecords] /\ paBlocks \in Nat
  BY DEF PaInv, PaTypeOK, PaRecords, PaHeads
<1>1. /\ me.at = "put" /\ paNext' = [paNext EXCEPT ![me.chunk] = me.head.ptr]
      /\ UNCHANGED <<paBlocks, paAllocating, paOwned>>
  BY Zenon DEF DeallocatePut
<1>2. me.chunk \in PaChunks /\ me.head.ptr \in PaChunks \union {PaNull} /\ me.head.tag \in Nat
  BY <1>t, <1>1 DEF PaInv, PaKnows, PaRecords, PaHeads
<1>3. /\ paNext' \in [PaChunks -> PaChunks \union {PaNull, PaJunk}]
      /\ paNext'[me.chunk] = me.head.ptr
      /\ \A y \in PaChunks \ {me.chunk} : paNext'[y] = paNext[y]
  BY <1>t, <1>1, <1>2
<1>4. Carried(t) = {me.chunk}
  BY <1>1, PaCarried
<1>5. CASE ~SameHead(me.head)
  <2> DEFINE r == [me EXCEPT !.head = paHead]
  <2>1. PaGo(t, r) /\ paHead' = paHead
    BY <1>5, Zenon DEF DeallocatePut
  <2>2. r \in PaRecords /\ r.at = "put" /\ r.chunk = me.chunk /\ r.head = paHead
    BY <1>t, <1>1 DEF PaRecords
  <2> HIDE DEF r
  <2>3. paThread'[t] = r /\ \A u \in PaThreads \ {t} : paThread'[u] = paThread[u]
    BY <1>t, <2>1, PaGoStep
  <2>4. PaTypeOK'
    BY <1>t, <1>1, <1>3, <2>1, <2>2 DEF PaTypeOK, PaGo, PaRecords
  <2>5. PaListed' /\ (paHead.ptr \in PaChunks => paNext'[paHead.ptr] = paNext[paHead.ptr])
    BY <1>1, <1>3, <1>4, <2>1, <2>2, <2>4, PaPushFails
  <2>6. PaKnows(t)'
    BY <1>t, <1>2, <2>1, <2>2, <2>3 DEF PaKnows
  <2> QED
    BY <1>t, <1>1, <2>1, <2>2, <2>4, <2>5, <2>6, PaStep
<1>6. CASE SameHead(me.head)
  <2>1. /\ PaGo(t, PaIdle) /\ paHead' = [ptr |-> me.chunk, tag |-> me.head.tag + 1]
        /\ paHead = me.head
    BY <1>6, Zenon DEF DeallocatePut, SameHead
  <2>2. PaIdle \in PaRecords /\ PaIdle.head.tag = 0 /\ PaIdle.at = "idle"
    BY DEF PaIdle, PaRecords, PaHeads, PaNull
  <2>3. paThread'[t] = PaIdle /\ \A u \in PaThreads \ {t} : paThread'[u] = paThread[u]
    BY <1>t, <2>1, PaGoStep
  <2>4. paHead' \in PaHeads /\ paHead'.tag = paHead.tag + 1 /\ paHead'.tag # 0
        /\ paHead'.ptr = me.chunk
    BY <1>t, <1>2, <2>1 DEF PaHeads
  <2>5. PaTypeOK'
    BY <1>t, <1>1, <1>3, <2>1, <2>2, <2>4 DEF PaTypeOK, PaGo, PaRecords
  <2>6. PaListed'
    <3>1. PICK Q : Q = [i \in 1 .. 1 |-> me.chunk]
      OBVIOUS
    <3>2. Q \in [1 .. 1 -> PaChunks] /\ Q[1] = me.chunk
      BY <1>2, <3>1
    <3>3. /\ Carried(t) = {Q[i] : i \in 1 .. 1} /\ \A i, j \in 1 .. 1 : Q[i] = Q[j] => i = j
          /\ \A i \in 1 .. 1 : paNext'[Q[i]] = IF i = 1 THEN paHead.ptr ELSE Q[i + 1]
      BY <1>3, <1>4, <2>1, <3>2
    <3>4. \A y \in PaChunks \ Carried(t) : paNext'[y] = paNext[y]
      BY <1>3, <1>4
    <3>5. PaIdle.at \notin {"put", "link"} /\ 1 \in Nat \ {0}
      BY <2>2
    <3> HIDE DEF me
    <3> QED
      BY <1>1, <2>1, <2>4, <2>5, <3>2, <3>3, <3>4, <3>5, PaPushes
  <2>7. PaKnows(t)'
    BY <1>t, <2>2, <2>3, <2>4 DEF PaKnows
  <2> QED
    BY <1>t, <1>1, <2>1, <2>2, <2>4, <2>5, <2>6, <2>7, PaStep
<1> QED
  BY <1>5, <1>6

(* allocate_block() links the chunks of the block and exchanges the head.  *)
LEMMA PaLink ==
    ASSUME PaInv, NEW t \in PaThreads, BlockLink(t)
    PROVE  PaInv'
<1> DEFINE me == paThread[t]
           base == (me.chunk - 1) * PaBlockSize
<1>t. /\ paHead \in PaHeads /\ me \in PaRecords /\ PaTypeOK /\ paHead.tag \in Nat
      /\ paNext \in [PaChunks -> PaChunks \union {PaNull, PaJunk}]
      /\ paThread \in [PaThreads -> PaRecords] /\ paBlocks \in 1 .. PaBlocks
      /\ PaBlocks \in Nat /\ PaBlockSize \in Nat \ {0}
  BY PaAssumption DEF PaInv, PaTypeOK, PaRecords, PaHeads
<1>1. /\ me.at = "link" /\ paNext' = Linked(me.chunk, me.head.ptr)
      /\ UNCHANGED <<paBlocks, paAllocating, paOwned>>
  BY Zenon DEF BlockLink
<1>2. /\ me.chunk \in 1 .. paBlocks /\ paAllocating
      /\ me.head.ptr \in PaChunks \union {PaNull} /\ me.head.tag \in Nat
  BY <1>t, <1>1 DEF PaInv, PaKnows, PaRecords, PaHeads
<1>b. PICK b : b = me.chunk - 1
  OBVIOUS
<1>3. /\ b \in 0 .. PaBlocks - 1 /\ b + 1 = me.chunk /\ base = b * PaBlockSize
  BY <1>t, <1>2, <1>b
<1>4. /\ PaBlock(me.chunk) \subseteq PaChunks
      /\ PaBlock(me.chunk) = base + 1 .. base + PaBlockSize
      /\ me.chunk * PaBlockSize = base + PaBlockSize /\ base \in Nat
  <2> HIDE DEF me
  <2> QED
    BY <1>3, PaBlockFacts
<1> HIDE DEF base
<1>5. /\ \A y \in PaChunks \ PaBlock(me.chunk) : paNext'[y] = paNext[y]
      /\ \A i \in 1 .. PaBlockSize : /\ base + i \in PaChunks
            /\ paNext'[base + i] = IF i = PaBlockSize THEN me.head.ptr ELSE base + (i + 1)
  <2>1. \A y \in PaChunks \ PaBlock(me.chunk) : paNext'[y] = paNext[y]
    BY <1>1 DEF Linked
  <2>2. ASSUME NEW i \in 1 .. PaBlockSize
        PROVE  /\ base + i \in PaChunks
               /\ paNext'[base + i] = IF i = PaBlockSize THEN me.head.ptr ELSE base + (i + 1)
    <3>1. base + i \in PaBlock(me.chunk)
      BY <1>t, <1>4
    <3>2. paNext'[base + i] = IF base + i = me.chunk * PaBlockSize THEN me.head.ptr
                              ELSE (base + i) + 1
      BY <1>1, <1>4, <3>1 DEF Linked
    <3> QED
      BY <1>t, <1>4, <3>1, <3>2
  <2> QED
    BY <2>1, <2>2
<1>6. paNext' \in [PaChunks -> PaChunks \union {PaNull, PaJunk}]
  <2>1. paNext' = [c \in PaChunks |-> paNext'[c]]
    BY <1>1 DEF Linked
  <2>2. ASSUME NEW c \in PaChunks
        PROVE  paNext'[c] \in PaChunks \union {PaNull, PaJunk}
    <3>1. CASE c \notin PaBlock(me.chunk)
      BY <1>t, <1>5, <3>1
    <3>2. CASE c \in PaBlock(me.chunk)
      <4>1. PICK i \in 1 .. PaBlockSize : c = base + i
        <5>1. c - base \in 1 .. PaBlockSize /\ c = base + (c - base)
          BY <1>t, <1>4, <3>2
        <5> QED
          BY <5>1
      <4>2. i # PaBlockSize => i + 1 \in 1 .. PaBlockSize
        BY <1>t
      <4> QED
        BY <1>2, <1>5, <4>1, <4>2
    <3> QED
      BY <3>1, <3>2
  <2> QED
    BY <2>1, <2>2
<1>7. Carried(t) = PaBlock(me.chunk)
  BY <1>1, PaCarried
<1>8. CASE ~SameHead(me.head)
  <2> DEFINE r == [me EXCEPT !.head = paHead]
  <2>1. PaGo(t, r) /\ paHead' = paHead
    BY <1>8, Zenon DEF BlockLink
  <2>2. r \in PaRecords /\ r.at = "link" /\ r.chunk = me.chunk /\ r.head = paHead
    BY <1>t, <1>1 DEF PaRecords
  <2> HIDE DEF r
  <2>3. paThread'[t] = r /\ \A u \in PaThreads \ {t} : paThread'[u] = paThread[u]
    BY <1>t, <2>1, PaGoStep
  <2>4. PaTypeOK'
    BY <1>t, <1>1, <1>6, <2>1, <2>2 DEF PaTypeOK, PaGo, PaRecords
  <2>5. PaListed' /\ (paHead.ptr \in PaChunks => paNext'[paHead.ptr] = paNext[paHead.ptr])
    BY <1>1, <1>5, <1>7, <2>1, <2>2, <2>4, PaPushFails
  <2>6. PaKnows(t)'
    BY <1>t, <1>1, <1>2, <2>1, <2>2, <2>3 DEF PaKnows
  <2>7. paBlocks <= paBlocks'
    BY <1>t, <1>1
  <2> QED
    BY <1>1, <2>1, <2>2, <2>4, <2>5, <2>6, <2>7, PaStep
<1>9. CASE SameHead(me.head)
  <2> DEFINE r == [PaIdle EXCEPT !.at = "linked"]
  <2>1. /\ PaGo(t, r) /\ paHead' = [ptr |-> base + 1, tag |-> me.head.tag + 1]
        /\ paHead = me.head
    BY <1>9, Zenon DEF BlockLink, SameHead, base
  <2>2. r \in PaRecords /\ r.head.tag = 0 /\ r.at = "linked"
    BY DEF PaIdle, PaRecords, PaHeads, PaNull
  <2> HIDE DEF r
  <2>3. paThread'[t] = r /\ \A u \in PaThreads \ {t} : paThread'[u] = paThread[u]
    BY <1>t, <2>1, PaGoStep
  <2>0. 1 \in 1 .. PaBlockSize
    BY <1>t
  <2>4. paHead' \in PaHeads /\ paHead'.tag = paHead.tag + 1 /\ paHead'.tag # 0
        /\ paHead'.ptr = base + 1
    BY <1>t, <1>5, <2>0, <2>1 DEF PaHeads
  <2>5. PaTypeOK'
    BY <1>t, <1>1, <1>6, <2>1, <2>2, <2>4 DEF PaTypeOK, PaGo, PaRecords
  <2>6. PaListed'
    <3>1. PICK Q : Q = [i \in 1 .. PaBlockSize |-> base + i]
      OBVIOUS
    <3>2. Q \in [1 .. PaBlockSize -> PaChunks] /\ Q[1] = base + 1
      BY <1>5, <2>0, <3>1
    <3>3. \A y \in PaBlock(me.chunk) : \E i \in 1 .. PaBlockSize : y = Q[i]
      <4> SUFFICES ASSUME NEW y \in PaBlock(me.chunk)
                   PROVE  \E i \in 1 .. PaBlockSize : y = Q[i]
        OBVIOUS
      <4>1. y - base \in 1 .. PaBlockSize /\ y = base + (y - base)
        BY <1>t, <1>4
      <4> QED
        BY <3>1, <4>1
    <3>4. Carried(t) = {Q[i] : i \in 1 .. PaBlockSize}
      <4>1. \A i \in 1 .. PaBlockSize : Q[i] \in PaBlock(me.chunk)
        BY <1>t, <1>4, <3>1
      <4> QED
        BY <1>7, <3>3, <4>1
    <3>5. \A i, j \in 1 .. PaBlockSize : Q[i] = Q[j] => i = j
      BY <1>t, <1>4, <3>1
    <3>6. \A i \in 1 .. PaBlockSize :
             paNext'[Q[i]] = IF i = PaBlockSize THEN paHead.ptr ELSE Q[i + 1]
      BY <1>t, <1>5, <2>1, <3>1
    <3>7. \A y \in PaChunks \ Carried(t) : paNext'[y] = paNext[y]
      BY <1>5, <1>7
    <3>8. r.at \notin {"put", "link"} /\ PaBlockSize \in Nat \ {0}
      BY <1>t, <2>2
    <3> HIDE DEF me
    <3> QED
      BY <1>1, <2>1, <2>4, <2>5, <3>2, <3>4, <3>5, <3>6, <3>7, <3>8, PaPushes
  <2>7. PaKnows(t)'
    BY <1>t, <1>1, <1>2, <2>2, <2>3, <2>4 DEF PaKnows
  <2>8. paBlocks <= paBlocks'
    BY <1>t, <1>1
  <2> QED
    BY <1>1, <2>1, <2>2, <2>4, <2>5, <2>6, <2>7, <2>8, PaStep
<1> QED
  BY <1>8, <1>9

(* The constructor puts the first block on the list.                       *)
LEMMA PaInitial == PaInit => PaInv
<1> HAVE PaInit
<1>1. PaBlockSize \in Nat \ {0} /\ PaBlocks \in Nat \ {0}
  BY PaAssumption
<1>2. 0 \in 0 .. PaBlocks - 1
  BY <1>1
<1>3. 1 .. PaBlockSize \subseteq PaChunks
  <2>1. (0 + 1) * PaBlockSize = PaBlockSize /\ 0 * PaBlockSize = 0
    BY <1>1
  <2>2. /\ PaBlock(0 + 1) \subseteq PaChunks
        /\ PaBlock(0 + 1) = 0 * PaBlockSize + 1 .. 0 * PaBlockSize + PaBlockSize
    BY <1>2, PaBlockFacts
  <2> QED
    BY <1>1, <2>1, <2>2
<1>i. PaIdle \in PaRecords /\ PaIdle.head.tag = 0 /\ PaIdle.at = "idle"
  BY DEF PaIdle, PaRecords, PaHeads, PaNull
<1>4. /\ paHead = [ptr |-> 1, tag |-> 1] /\ paBlocks = 1 /\ paAllocating = FALSE
      /\ paOwned = [t \in PaThreads |-> {}] /\ paThread = [t \in PaThreads |-> PaIdle]
      /\ paNext = [c \in PaChunks |-> IF c < PaBlockSize THEN c + 1 ELSE PaNull]
  BY DEF PaInit
<1>5. \A t \in PaThreads : paThread[t] = PaIdle /\ Carried(t) = {} /\ paOwned[t] = {}
  BY <1>4, <1>i, PaCarried
<1>6. PaTypeOK
  <2>1. paHead \in PaHeads /\ paHead.tag # 0
    BY <1>1, <1>3, <1>4 DEF PaHeads
  <2>2. ASSUME NEW c \in PaChunks
        PROVE  (IF c < PaBlockSize THEN c + 1 ELSE PaNull) \in PaChunks \union {PaNull, PaJunk}
    <3>1. c \in Nat /\ (c < PaBlockSize => c + 1 \in 1 .. PaBlockSize)
      BY <1>1 DEF PaChunks
    <3> QED
      BY <1>3, <3>1
  <2>3. paNext \in [PaChunks -> PaChunks \union {PaNull, PaJunk}]
    BY <1>4, <2>2
  <2>4. paThread \in [PaThreads -> PaRecords]
    BY <1>4, <1>i
  <2>5. paOwned \in [PaThreads -> SUBSET PaChunks]
    BY <1>4
  <2>6. paBlocks \in 1 .. PaBlocks
    BY <1>1, <1>4
  <2>7. paAllocating \in BOOLEAN
    BY <1>4, Zenon
  <2> QED
    BY <2>1, <2>3, <2>4, <2>5, <2>6, <2>7, Zenon DEF PaTypeOK, PaRecords
<1>7. \A t \in PaThreads : PaKnows(t)
  BY <1>4, <1>5, <1>i DEF PaKnows
<1>8. PaOneLinks
  BY <1>5, <1>i DEF PaOneLinks
<1>9. PaListed
  <2>1. PICK L : L = [i \in 1 .. PaBlockSize |-> i]
    OBVIOUS
  <2>2. L \in [1 .. PaBlockSize -> PaChunks]
    BY <1>3, <2>1
  <2>3. PaChain(PaBlockSize, L)
    <3>1. ASSUME NEW i \in 1 .. PaBlockSize
          PROVE  paNext[L[i]] = IF i = PaBlockSize THEN PaNull ELSE L[i + 1]
      <4>1. L[i] = i /\ i \in PaChunks /\ (i # PaBlockSize => L[i + 1] = i + 1)
        BY <1>1, <1>3, <2>1
      <4> QED
        BY <1>1, <1>4, <4>1
    <3> QED
      BY <1>1, <1>4, <2>1, <3>1 DEF PaChain
  <2>4. {L[i] : i \in 1 .. PaBlockSize} = 1 .. paBlocks * PaBlockSize
    BY <1>1, <1>4, <2>1
  <2>5. PaApart({L[i] : i \in 1 .. PaBlockSize})
    BY <1>5, <2>4 DEF PaApart
  <2> QED
    BY <1>1, <2>2, <2>3, <2>5 DEF PaListed
<1> QED
  BY <1>6, <1>7, <1>8, <1>9 DEF PaInv

(* Every step of the allocator.                                            *)
LEMMA PaInvStep ==
    ASSUME PaInv, [PaNextStep]_paVars
    PROVE  PaInv'
<1>1. ASSUME NEW t \in PaThreads, AllocateTake(t)
      PROVE  PaInv'
  BY <1>1, PaTake, PaQuietSteps
<1>2. ASSUME NEW t \in PaThreads, BlockBegin(t)
      PROVE  PaInv'
  BY <1>2, PaNewBlock, PaQuietSteps
<1>3. CASE UNCHANGED paVars
  <2>1. UNCHANGED <<paHead, paNext, paBlocks, paAllocating, paOwned, paThread>>
    BY <1>3 DEF paVars
  <2>2. PaTypeOK' /\ PaOneLinks' /\ \A t \in PaThreads : PaKnows(t)'
    BY <2>1 DEF PaInv, PaTypeOK, PaOneLinks, PaKnows
  <2>3. PaListed'
    <3>1. PICK n \in Nat : \E L \in [1 .. n -> PaChunks] :
              PaChain(n, L) /\ PaApart({L[i] : i \in 1 .. n})
      BY DEF PaInv, PaListed
    <3>2. PICK L \in [1 .. n -> PaChunks] : PaChain(n, L) /\ PaApart({L[i] : i \in 1 .. n})
      BY <3>1
    <3>3. PaChain(n, L)'
      BY <2>1, <3>2, PaChainKept
    <3>4. PICK F : F = {L[i] : i \in 1 .. n}
      OBVIOUS
    <3>5. PaApart(F)'
      <4>1. PaApart(F)
        BY <3>2, <3>4
      <4> QED
        BY <2>1, <4>1 DEF PaApart, Carried
    <3> QED
      BY <3>3, <3>4, <3>5 DEF PaListed
  <2> QED
    BY <2>2, <2>3 DEF PaInv
<1> QED
  BY <1>1, <1>2, <1>3, PaQuietSteps, PaGiveUp, PaPut, PaLink DEF PaNextStep

(* The walk of FreeChunks finds the list, so every chunk has its place.    *)
LEMMA PaSafe == PaInv => EachChunkInOnePlace
<1> HAVE PaInv
<1>1. PICK n \in Nat : \E L \in [1 .. n -> PaChunks] :
          PaChain(n, L) /\ PaApart({L[i] : i \in 1 .. n})
  BY DEF PaInv, PaListed
<1>2. PICK L \in [1 .. n -> PaChunks] : PaChain(n, L) /\ PaApart({L[i] : i \in 1 .. n})
  BY <1>1
<1>3. n <= Cardinality(PaChunks) /\ Cardinality(PaChunks) \in Nat
  BY <1>2, PaShort DEF PaChain
<1>4. FreeChunks = {L[i] : i \in 1 .. n}
  <2>1. n <= Cardinality(PaChunks) + 1
    BY <1>3
  <2> QED
    BY <1>2, <1>3, <2>1, PaWalk DEF FreeChunks
<1>5. FreeChunks \subseteq PaChunks
  BY <1>4
<1> QED
  BY <1>2, <1>4, <1>5 DEF PaApart, EachChunkInOnePlace

-----------------------------------------------------------------------------
(* Memory pool: L[1], ..., L[n] are the slots linked from a head.          *)
MpLinks(head, next, n, L) ==
    /\ head = IF n = 0 THEN 0 ELSE L[1]
    /\ \A i \in 1 .. n : next[L[i]] = IF i = n THEN 0 ELSE L[i + 1]
    /\ \A i, j \in 1 .. n : L[i] = L[j] => i = j

(* F are the slots of the stack with that head.                            *)
MpStack(head, next, F) ==
    \E n \in Nat : \E L \in [1 .. n -> MpSlots] :
       MpLinks(head, next, n, L) /\ F = {L[i] : i \in 1 .. n}

(* The list of a stack.                                                    *)
LEMMA MpStackList ==
    ASSUME NEW head, NEW next, NEW F, MpStack(head, next, F)
    PROVE  \E n \in Nat : \E L : /\ L \in [1 .. n -> MpSlots] /\ MpLinks(head, next, n, L)
                                 /\ F = {L[i] : i \in 1 .. n}
  BY DEF MpStack

(* 0 is no slot.                                                           *)
LEMMA MpSlotsNat == 0 \notin MpSlots /\ \A s \in MpSlots : s \in Nat
  BY DEF MpSlots

(* An empty stack has no head.                                             *)
LEMMA MpStackEmpty ==
    ASSUME NEW next
    PROVE  MpStack(0, next, {}) /\ \A F : MpStack(0, next, F) => F = {}
<1>1. MpStack(0, next, {})
  <2>1. PICK L : L = [i \in 1 .. 0 |-> 1]
    OBVIOUS
  <2>2. L \in [1 .. 0 -> MpSlots] /\ MpLinks(0, next, 0, L) /\ {} = {L[i] : i \in 1 .. 0}
    BY <2>1 DEF MpLinks
  <2> QED
    BY <2>2 DEF MpStack
<1>2. ASSUME NEW F, MpStack(0, next, F)
      PROVE  F = {}
  <2>p. PICK n \in Nat : \E L : /\ L \in [1 .. n -> MpSlots] /\ MpLinks(0, next, n, L)
                                /\ F = {L[i] : i \in 1 .. n}
    BY <1>2, MpStackList
  <2>1. PICK L : /\ L \in [1 .. n -> MpSlots] /\ MpLinks(0, next, n, L)
                /\ F = {L[i] : i \in 1 .. n}
    BY <2>p
  <2>2. n = 0
    BY <2>1, MpSlotsNat DEF MpLinks
  <2> QED
    BY <2>1, <2>2
<1> QED
  BY <1>1, <1>2

(* The head of a stack is one of its slots.                                *)
LEMMA MpStackHead ==
    ASSUME NEW head, NEW next, NEW F, MpStack(head, next, F)
    PROVE  F \subseteq MpSlots /\ (head # 0 => head \in F)
<1>p. PICK n \in Nat : \E L : /\ L \in [1 .. n -> MpSlots] /\ MpLinks(head, next, n, L)
                              /\ F = {L[i] : i \in 1 .. n}
  BY MpStackList
<1>1. PICK L : /\ L \in [1 .. n -> MpSlots] /\ MpLinks(head, next, n, L)
              /\ F = {L[i] : i \in 1 .. n}
  BY <1>p
<1> QED
  BY <1>1 DEF MpLinks

(* A stack stands when none of its slots is written.                       *)
LEMMA MpStackKept ==
    ASSUME NEW head, NEW next, NEW next2, NEW F, MpStack(head, next, F),
           \A y \in F : next2[y] = next[y]
    PROVE  MpStack(head, next2, F)
<1>p. PICK n \in Nat : \E L : /\ L \in [1 .. n -> MpSlots] /\ MpLinks(head, next, n, L)
                              /\ F = {L[i] : i \in 1 .. n}
  BY MpStackList
<1>1. PICK L : /\ L \in [1 .. n -> MpSlots] /\ MpLinks(head, next, n, L)
              /\ F = {L[i] : i \in 1 .. n}
  BY <1>p
<1>2. MpLinks(head, next2, n, L)
  BY <1>1 DEF MpLinks
<1> QED
  BY <1>1, <1>2 DEF MpStack

(* Without its first slot it is a stack again.                             *)
LEMMA MpStackPop ==
    ASSUME NEW head, NEW next, NEW F, MpStack(head, next, F), head # 0
    PROVE  MpStack(next[head], next, F \ {head})
<1>p. PICK n \in Nat : \E L : /\ L \in [1 .. n -> MpSlots] /\ MpLinks(head, next, n, L)
                              /\ F = {L[i] : i \in 1 .. n}
  BY MpStackList
<1>1. PICK L : /\ L \in [1 .. n -> MpSlots] /\ MpLinks(head, next, n, L)
              /\ F = {L[i] : i \in 1 .. n}
  BY <1>p
<1>2. n # 0 /\ head = L[1] /\ 1 \in 1 .. n
  BY <1>1 DEF MpLinks
<1>3. PICK m \in Nat : m = n - 1 /\ n = m + 1
  <2>1. n - 1 \in Nat /\ n = (n - 1) + 1
    BY <1>2
  <2> QED
    BY <2>1
<1>4. PICK M : M = [i \in 1 .. m |-> L[i + 1]]
  OBVIOUS
<1>5. M \in [1 .. m -> MpSlots] /\ \A i \in 1 .. m : M[i] = L[i + 1] /\ i + 1 \in 1 .. n
  BY <1>1, <1>3, <1>4
<1>6. MpLinks(next[head], next, m, M)
  <2>1. next[head] = IF n = 1 THEN 0 ELSE L[2]
    BY <1>1, <1>2 DEF MpLinks
  <2>2. next[head] = IF m = 0 THEN 0 ELSE M[1]
    BY <1>3, <1>5, <2>1
  <2>3. ASSUME NEW i \in 1 .. m
        PROVE  next[M[i]] = IF i = m THEN 0 ELSE M[i + 1]
    <3>1. next[L[i + 1]] = IF i + 1 = n THEN 0 ELSE L[(i + 1) + 1]
      BY <1>1, <1>5 DEF MpLinks
    <3>2. i # m => i + 1 \in 1 .. m /\ M[i + 1] = L[(i + 1) + 1]
      BY <1>5
    <3> QED
      BY <1>3, <1>5, <3>1, <3>2
  <2>4. \A i, j \in 1 .. m : M[i] = M[j] => i = j
    <3> SUFFICES ASSUME NEW i \in 1 .. m, NEW j \in 1 .. m, M[i] = M[j]
                 PROVE  i = j
      OBVIOUS
    <3>1. i + 1 = j + 1
      BY <1>1, <1>5 DEF MpLinks
    <3> QED
      BY <3>1
  <2> QED
    BY <2>2, <2>3, <2>4 DEF MpLinks
<1>7. F \ {head} = {M[i] : i \in 1 .. m}
  <2>1. \A i \in 1 .. m : M[i] \in F /\ M[i] # head
    <3> TAKE i \in 1 .. m
    <3>1. L[i + 1] # L[1]
      BY <1>1, <1>2, <1>5 DEF MpLinks
    <3> QED
      BY <1>1, <1>2, <1>5, <3>1
  <2>2. ASSUME NEW x \in F \ {head}
        PROVE  \E i \in 1 .. m : x = M[i]
    <3>1. PICK i \in 1 .. n : x = L[i]
      BY <1>1
    <3>2. i # 1
      BY <1>2, <3>1
    <3>3. i - 1 \in 1 .. m /\ M[i - 1] = L[i]
      BY <1>3, <1>4, <3>2
    <3> QED
      BY <3>1, <3>3
  <2> QED
    BY <2>1, <2>2
<1> QED
  BY <1>3, <1>5, <1>6, <1>7 DEF MpStack

(* With a slot in front of it too.                                         *)
LEMMA MpStackPush ==
    ASSUME NEW head, NEW next, NEW F, MpStack(head, next, F), NEW x \in MpSlots \ F,
           next[x] = head
    PROVE  MpStack(x, next, F \union {x})
<1>p. PICK n \in Nat : \E L : /\ L \in [1 .. n -> MpSlots] /\ MpLinks(head, next, n, L)
                              /\ F = {L[i] : i \in 1 .. n}
  BY MpStackList
<1>1. PICK L : /\ L \in [1 .. n -> MpSlots] /\ MpLinks(head, next, n, L)
              /\ F = {L[i] : i \in 1 .. n}
  BY <1>p
<1>2. PICK m \in Nat : m = n + 1 /\ m # 0
  OBVIOUS
<1>3. PICK M : M = [i \in 1 .. m |-> IF i = 1 THEN x ELSE L[i - 1]]
  OBVIOUS
<1>4. /\ M[1] = x /\ 1 \in 1 .. m
      /\ \A i \in 1 .. m : i # 1 => M[i] = L[i - 1] /\ i - 1 \in 1 .. n
      /\ \A i \in 1 .. n : M[i + 1] = L[i] /\ i + 1 \in 1 .. m
  BY <1>2, <1>3
<1>5. M \in [1 .. m -> MpSlots]
  <2>1. \A i \in 1 .. m : (IF i = 1 THEN x ELSE L[i - 1]) \in MpSlots
    BY <1>1, <1>4
  <2> QED
    BY <1>3, <2>1
<1>6. MpLinks(x, next, m, M)
  <2>1. ASSUME NEW i \in 1 .. m
        PROVE  next[M[i]] = IF i = m THEN 0 ELSE M[i + 1]
    <3>1. CASE i = 1
      <4>1. head = IF n = 0 THEN 0 ELSE L[1]
        BY <1>1 DEF MpLinks
      <4>2. n # 0 => M[2] = L[1]
        BY <1>4
      <4> QED
        BY <1>2, <1>4, <3>1, <4>1, <4>2
    <3>2. CASE i # 1
      <4>1. next[L[i - 1]] = IF i - 1 = n THEN 0 ELSE L[(i - 1) + 1]
        BY <1>1, <1>4, <3>2 DEF MpLinks
      <4>2. i # m => i + 1 \in 1 .. m /\ i + 1 # 1
        BY <1>2
      <4>3. i # m => M[i + 1] = L[i]
        BY <1>4, <4>2
      <4> QED
        BY <1>2, <1>4, <3>2, <4>1, <4>3
    <3> QED
      BY <3>1, <3>2
  <2>2. ASSUME NEW i \in 1 .. m, NEW j \in 1 .. m, M[i] = M[j]
        PROVE  i = j
    <3>1. ASSUME NEW k \in 1 .. m, M[k] = x
          PROVE  k = 1
      BY <1>1, <1>4, <3>1
    <3>2. CASE i = 1 \/ j = 1
      BY <1>4, <2>2, <3>1, <3>2
    <3>3. CASE i # 1 /\ j # 1
      <4>1. i - 1 = j - 1
        BY <1>1, <1>4, <2>2, <3>3 DEF MpLinks
      <4> QED
        BY <4>1
    <3> QED
      BY <3>2, <3>3
  <2>3. x = IF m = 0 THEN 0 ELSE M[1]
    BY <1>2, <1>4
  <2> QED
    BY <2>1, <2>2, <2>3 DEF MpLinks
<1>7. F \union {x} = {M[i] : i \in 1 .. m}
  <2>1. \A i \in 1 .. m : M[i] \in F \union {x}
    BY <1>1, <1>4
  <2>2. \A y \in F : \E i \in 1 .. m : y = M[i]
    BY <1>1, <1>4
  <2> QED
    BY <1>4, <2>1, <2>2
<1> QED
  BY <1>2, <1>5, <1>6, <1>7 DEF MpStack

(* A block of slots chained one after the other.                           *)
LEMMA MpStackBlock ==
    ASSUME NEW next, NEW lo \in Nat, NEW k \in Nat \ {0}, lo + 1 .. lo + k \subseteq MpSlots,
           \A s \in lo + 1 .. lo + k : next[s] = IF s = lo + k THEN 0 ELSE s + 1
    PROVE  MpStack(lo + 1, next, lo + 1 .. lo + k)
<1>1. PICK L : L = [i \in 1 .. k |-> lo + i]
  OBVIOUS
<1>2. \A i \in 1 .. k : L[i] = lo + i /\ L[i] \in lo + 1 .. lo + k
  BY <1>1
<1>3. L \in [1 .. k -> MpSlots]
  BY <1>1, <1>2
<1>4. MpLinks(lo + 1, next, k, L)
  <2>1. ASSUME NEW i \in 1 .. k
        PROVE  next[L[i]] = IF i = k THEN 0 ELSE L[i + 1]
    <3>1. i # k => L[i + 1] = (lo + i) + 1
      BY <1>1
    <3>2. next[L[i]] = IF lo + i = lo + k THEN 0 ELSE (lo + i) + 1
      BY <1>2
    <3> QED
      BY <3>1, <3>2
  <2> QED
    BY <1>2, <2>1 DEF MpLinks
<1>5. lo + 1 .. lo + k = {L[i] : i \in 1 .. k}
  <2>1. ASSUME NEW s \in lo + 1 .. lo + k
        PROVE  \E i \in 1 .. k : s = L[i]
    <3>1. s - lo \in 1 .. k /\ L[s - lo] = s
      BY <1>1
    <3> QED
      BY <3>1
  <2> QED
    BY <1>2, <2>1
<1> QED
  BY <1>3, <1>4, <1>5 DEF MpStack

(* MpChain walks through the whole stack.                                  *)
LEMMA MpWalk ==
    ASSUME NEW F, MpStack(mpFree.node, mpNext, F)
    PROVE  MpChain = F \union {0}
<1> DEFINE N == Cardinality(MpSlots)
<1>p. PICK n \in Nat : \E L : /\ L \in [1 .. n -> MpSlots] /\ MpLinks(mpFree.node, mpNext, n, L)
                              /\ F = {L[i] : i \in 1 .. n}
  BY MpStackList
<1>l. PICK L : /\ L \in [1 .. n -> MpSlots] /\ MpLinks(mpFree.node, mpNext, n, L)
              /\ F = {L[i] : i \in 1 .. n}
  BY <1>p
<1>n. N \in Nat /\ n <= N
  <2>1. MpBlocks * MpBlockSize \in Nat
    BY MpAssumption
  <2>2. IsFiniteSet(MpSlots) /\ Cardinality(MpSlots) \in Nat
    BY <2>1, FS_Interval, FS_CardinalityType DEF MpSlots
  <2>3. Cardinality(1 .. n) = n /\ IsFiniteSet(1 .. n)
    BY FS_Interval
  <2>4. L \in Injection(1 .. n, MpSlots)
    BY <1>l DEF Injection, IsInjective, MpLinks
  <2> QED
    BY <2>2, <2>3, <2>4, FS_Injection
<1> DEFINE at == CHOOSE f : f = [k \in 0 .. N |-> IF k = 0 THEN mpFree.node
                    ELSE IF f[k - 1] = 0 THEN 0 ELSE mpNext[f[k - 1]]]
           w == [k \in 0 .. N |-> IF k < n THEN L[k + 1] ELSE 0]
<1>4. MpChain = {at[k] : k \in 0 .. N}
  BY DEF MpChain
<1> HIDE DEF N
<1>2. w = [k \in 0 .. N |-> IF k = 0 THEN mpFree.node
                    ELSE IF w[k - 1] = 0 THEN 0 ELSE mpNext[w[k - 1]]]
  <2>1. ASSUME NEW k \in 0 .. N
        PROVE  w[k] = IF k = 0 THEN mpFree.node
                      ELSE IF w[k - 1] = 0 THEN 0 ELSE mpNext[w[k - 1]]
    <3>1. CASE k = 0
      BY <1>l, <1>n, <3>1 DEF MpLinks
    <3>2. CASE k # 0 /\ k - 1 < n
      <4>1. w[k - 1] = L[k] /\ k \in 1 .. n /\ L[k] # 0
        BY <1>l, <1>n, <3>2, MpSlotsNat
      <4>2. mpNext[L[k]] = IF k = n THEN 0 ELSE L[k + 1]
        BY <1>l, <4>1 DEF MpLinks
      <4> QED
        BY <1>n, <3>2, <4>1, <4>2
    <3>3. CASE k # 0 /\ ~(k - 1 < n)
      BY <1>n, <3>3, SMTT(60)
    <3> QED
      BY <3>1, <3>2, <3>3
  <2> QED
    BY <2>1
<1>3. at = [k \in 0 .. N |-> IF k = 0 THEN mpFree.node
                    ELSE IF at[k - 1] = 0 THEN 0 ELSE mpNext[at[k - 1]]]
  <2> HIDE DEF w
  <2> QED
    BY <1>2, ZenonT(60)
<1> HIDE DEF at
<1>5. \A k \in 0 .. N : at[k] = w[k]
  <2> DEFINE S == {k \in 0 .. N : at[k] = w[k]}
  <2>1. 0 \in S
    <3>1. at[0] = mpFree.node /\ w[0] = mpFree.node
      <4> HIDE DEF w
      <4>1. 0 \in 0 .. N
        BY <1>n
      <4> QED
        BY <1>2, <1>3, <4>1
    <3> QED
      BY <1>n, <3>1
  <2>2. ASSUME NEW k \in 0 .. N - 1, k \in S
        PROVE  k + 1 \in S
    <3>0. k + 1 \in 0 .. N /\ k + 1 # 0 /\ (k + 1) - 1 = k
      BY <1>n
    <3>1. at[k + 1] = IF at[k] = 0 THEN 0 ELSE mpNext[at[k]]
      BY <1>3, <3>0
    <3>2. w[k + 1] = IF w[k] = 0 THEN 0 ELSE mpNext[w[k]]
      <4> HIDE DEF w
      <4> QED
        BY <1>2, <3>0
    <3> QED
      BY <2>2, <3>0, <3>1, <3>2
  <2> HIDE DEF S
  <2>3. \A k \in 0 .. N : k \in S
    BY <1>n, <2>1, <2>2, UpTo
  <2> QED
    BY <2>3 DEF S
<1>6. ASSUME NEW i \in 1 .. n
      PROVE  L[i] \in MpChain
  <2>1. i - 1 \in 0 .. N /\ at[i - 1] = L[i]
    BY <1>n, <1>5
  <2> QED
    BY <1>4, <2>1
<1>7. 0 \in MpChain
  <2>1. n \in 0 .. N /\ at[n] = 0
    BY <1>n, <1>5
  <2> QED
    BY <1>4, <2>1
<1>8. ASSUME NEW x \in MpChain
      PROVE  x = 0 \/ \E i \in 1 .. n : x = L[i]
  <2>1. PICK k \in 0 .. N : x = at[k]
    BY <1>4, <1>8
  <2>2. k < n => x = L[k + 1] /\ k + 1 \in 1 .. n
    BY <1>5, <1>n, <2>1
  <2>3. ~(k < n) => x = 0
    BY <1>5, <1>n, <2>1
  <2> QED
    BY <2>2, <2>3
<1> QED
  BY <1>6, <1>7, <1>8, <1>l

MpHeads == [aba : Nat, node : MpSlots \union {0}]

MpRecords == [at : {"idle", "look", "link", "pop", "push", "grow", "block", "store"},
              orig : MpHeads, next : MpSlots \union {0}, slot : MpSlots \union {0}]

MpTypeOK ==
    /\ mpFree \in MpHeads /\ mpNext \in [MpSlots -> MpSlots \union {0}]
    /\ mpBlocks \in 0 .. MpBlocks /\ mpLock \in MpThreads \union {"free"}
    /\ mpThread \in [MpThreads -> MpRecords] /\ mpUsed \in SUBSET MpSlots

(* Where a thread is tells what it has; who adds a block has m_lock.       *)
MpRole(t) ==
    LET me == mpThread[t]
    IN  /\ me.at \in {"block", "store"} <=> mpLock = t
        /\ me.at \in {"link", "push"} <=> me.slot # 0
        /\ me.at = "pop" => me.orig.node # 0
        /\ me.at \in {"idle", "grow", "block", "store"} => me.orig.node = 0
        /\ me.at = "block" => mpBlocks < MpBlocks
        /\ me.at = "store" => mpBlocks > 0

(* A head with the current counter is the current head, and next is its.   *)
MpKnows(t) ==
    LET me == mpThread[t]
    IN  /\ me.orig.node # 0 \/ me.slot # 0 =>
             me.orig.aba <= mpFree.aba /\ (me.orig.aba = mpFree.aba => me.orig = mpFree)
        /\ me.at = "pop" /\ me.orig = mpFree => me.next = mpNext[me.orig.node]
        /\ me.at = "push" /\ mpLock = "free" => mpNext[me.slot] = me.orig.node

(* A slot that is being freed belongs to one thread.                       *)
MpHeldOnce ==
    \A t \in MpThreads :
       mpThread[t].slot # 0 =>
          /\ mpThread[t].slot \notin mpUsed
          /\ \A u \in MpThreads \ {t} : mpThread[u].slot # mpThread[t].slot

(* The head, or what it will be once the block is there.                   *)
MpTop == IF \E t \in MpThreads : mpThread[t].at = "store"
         THEN (mpBlocks - 1) * MpBlockSize + 1 ELSE mpFree.node

(* The slots in F are nobody's, and with F they are all there are.         *)
MpApart(F) ==
    /\ F \intersect mpUsed = {} /\ \A t \in MpThreads : mpThread[t].slot \notin F
    /\ \A s : s \in 1 .. mpBlocks * MpBlockSize <=>
                 s \in F \/ s \in mpUsed \/ \E t \in MpThreads : s # 0 /\ s = mpThread[t].slot

MpPlaces == \E F : MpStack(MpTop, mpNext, F) /\ MpApart(F)

MpGood ==
    /\ \A t \in MpThreads : MpRole(t) /\ MpKnows(t)
    /\ MpHeldOnce /\ MpPlaces
    /\ mpLock # "free" => mpFree.node = 0

MpInv == MpTypeOK /\ (mpMixed \/ MpGood)

(* The stack starts empty.                                                 *)
LEMMA MpInitial == MpInit => MpInv
<1> HAVE MpInit
<1>1. /\ mpFree = MpNull /\ mpNext = [s \in MpSlots |-> 0] /\ mpBlocks = 0
      /\ mpLock = "free" /\ mpThread = [t \in MpThreads |-> MpIdle] /\ mpUsed = {}
  BY DEF MpInit
<1>2. MpIdle \in MpRecords /\ MpIdle.slot = 0 /\ MpIdle.at = "idle" /\ MpIdle.orig = MpNull
      /\ MpNull \in MpHeads /\ MpNull.node = 0
  BY DEF MpIdle, MpRecords, MpNull, MpHeads
<1>3. \A t \in MpThreads : mpThread[t] = MpIdle
  BY <1>1
<1>4. MpTypeOK
  <2>1. mpBlocks \in 0 .. MpBlocks
    BY <1>1, MpAssumption
  <2> QED
    BY <1>1, <1>2, <2>1 DEF MpTypeOK
<1>5. \A t \in MpThreads : MpRole(t) /\ MpKnows(t)
  BY <1>1, <1>2, <1>3, MpAssumption DEF MpRole, MpKnows
<1>6. MpHeldOnce
  BY <1>2, <1>3 DEF MpHeldOnce
<1>7. MpTop = 0
  BY <1>1, <1>2, <1>3 DEF MpTop
<1>8. MpApart({})
  <2>1. mpBlocks * MpBlockSize = 0
    BY <1>1, MpAssumption
  <2> QED
    BY <1>1, <1>2, <1>3, <2>1 DEF MpApart
<1> QED
  BY <1>1, <1>4, <1>5, <1>6, <1>7, <1>8, MpStackEmpty DEF MpInv, MpGood, MpPlaces

(* In a good state every slot is in one place.                             *)
LEMMA MpSafe == MpInv => SlotInOnePlace
<1> SUFFICES ASSUME MpInv, ~mpMixed, mpLock = "free" PROVE SlotInOnePlace
  BY DEF SlotInOnePlace
<1>1. MpTypeOK /\ MpGood
  BY DEF MpInv
<1>2. MpTop = mpFree.node
  <2>1. \A t \in MpThreads : mpThread[t].at # "store"
    BY <1>1, MpAssumption DEF MpGood, MpRole
  <2> QED
    BY <2>1 DEF MpTop
<1>3. PICK F : MpStack(mpFree.node, mpNext, F) /\ MpApart(F)
  BY <1>1, <1>2 DEF MpGood, MpPlaces
<1>4. MpChain = F \union {0} /\ 0 \notin F /\ F \subseteq MpSlots
  BY <1>3, MpWalk, MpStackHead, MpSlotsNat
<1> DEFINE held == {mpThread[t].slot : t \in MpThreads} \ {0}
<1>5. held \intersect (F \union mpUsed) = {}
  BY <1>1, <1>3 DEF MpApart, MpGood, MpHeldOnce
<1>6. F \union mpUsed \union held = 1 .. mpBlocks * MpBlockSize
  <2>1. \A s : s \in 1 .. mpBlocks * MpBlockSize <=> s \in F \/ s \in mpUsed \/ s \in held
    BY <1>3 DEF MpApart
  <2> HIDE DEF held
  <2> QED
    BY <2>1
<1>7. F \intersect mpUsed = {}
  BY <1>3 DEF MpApart
<1>8. MpChain \ {0} = F
  BY <1>4
<1> QED
  BY <1>4, <1>5, <1>6, <1>7, <1>8 DEF SlotInOnePlace

(* Blocks follow each other.                                               *)
LEMMA MpBlockFacts ==
    ASSUME NEW b \in 0 .. MpBlocks - 1
    PROVE  /\ b * MpBlockSize \in Nat /\ MpBlockSize \in Nat \ {0}
           /\ (b + 1) * MpBlockSize = b * MpBlockSize + MpBlockSize
           /\ b * MpBlockSize + 1 .. b * MpBlockSize + MpBlockSize \subseteq MpSlots
<1>1. MpBlockSize \in Nat \ {0} /\ MpBlocks \in Nat
  BY MpAssumption
<1>2. b * MpBlockSize \in Nat /\ (b + 1) * MpBlockSize = b * MpBlockSize + MpBlockSize
  BY <1>1
<1>3. (b + 1) * MpBlockSize <= MpBlocks * MpBlockSize
  <2>1. PICK d \in Nat : MpBlocks = (b + 1) + d
    <3>1. MpBlocks - (b + 1) \in Nat /\ MpBlocks = (b + 1) + (MpBlocks - (b + 1))
      BY <1>1
    <3> QED
      BY <3>1
  <2>2. MpBlocks * MpBlockSize = (b + 1) * MpBlockSize + d * MpBlockSize
    BY <1>1, <2>1
  <2>3. d * MpBlockSize \in Nat /\ (b + 1) * MpBlockSize \in Nat
    BY <1>1, <2>1
  <2> QED
    BY <2>2, <2>3
<1>4. MpBlocks * MpBlockSize \in Nat
  BY <1>1
<1> QED
  BY <1>1, <1>2, <1>3, <1>4 DEF MpSlots

(* What the invariant says of the types, spelled out.                      *)
LEMMA MpTypes ==
    ASSUME MpTypeOK, NEW t \in MpThreads
    PROVE  /\ mpThread[t] \in MpRecords /\ mpFree \in MpHeads /\ mpThread[t].orig \in MpHeads
           /\ mpFree.aba \in Nat /\ mpFree.node \in MpSlots \union {0}
           /\ mpThread[t].orig.aba \in Nat /\ mpThread[t].orig.node \in MpSlots \union {0}
           /\ mpThread[t].slot \in MpSlots \union {0} /\ mpThread[t].next \in MpSlots \union {0}
           /\ mpNext \in [MpSlots -> MpSlots \union {0}] /\ mpBlocks \in 0 .. MpBlocks
           /\ mpLock \in MpThreads \union {"free"} /\ mpUsed \in SUBSET MpSlots
<1>1. mpThread[t] \in MpRecords /\ mpFree \in MpHeads
  BY DEF MpTypeOK
<1>2. mpThread[t].orig \in MpHeads
  BY <1>1 DEF MpRecords
<1> QED
  BY <1>1, <1>2 DEF MpTypeOK, MpRecords, MpHeads

(* The other threads: a head that changes gets a counter of its own.       *)
LEMMA MpOthers ==
    ASSUME MpTypeOK, MpTypeOK', NEW u \in MpThreads, MpRole(u), MpKnows(u),
           mpThread'[u] = mpThread[u], mpLock' = u <=> mpLock = u,
           mpBlocks' = mpBlocks \/ mpLock # u, mpLock' = "free" => mpLock = "free",
           mpFree' = mpFree \/ mpFree'.aba = mpFree.aba + 1,
           mpFree' = mpFree /\ mpFree.node # 0 => mpNext'[mpFree.node] = mpNext[mpFree.node],
           mpThread[u].slot # 0 /\ mpLock' = "free" =>
               mpNext'[mpThread[u].slot] = mpNext[mpThread[u].slot]
    PROVE  MpRole(u)' /\ MpKnows(u)'
<1> DEFINE me == mpThread[u]
<1>1. /\ me.orig.aba \in Nat /\ mpFree.aba \in Nat
  BY MpTypes
<1>2. MpRole(u)'
  BY DEF MpRole
<1>3. CASE mpFree' = mpFree
  <2>1. me.at = "pop" => me.orig.node # 0
    BY DEF MpRole
  <2>2. me.at = "push" => me.slot # 0
    BY DEF MpRole
  <2> QED
    BY <1>2, <1>3, <2>1, <2>2 DEF MpKnows
<1>4. CASE mpFree'.aba = mpFree.aba + 1
  <2>1. me.at = "pop" => me.orig.node # 0
    BY DEF MpRole
  <2>2. me.at = "push" => me.slot # 0
    BY DEF MpRole
  <2>3. me.orig.node # 0 \/ me.slot # 0 => me.orig.aba <= mpFree'.aba /\ me.orig.aba # mpFree'.aba
                                           /\ me.orig # mpFree'
    BY <1>1, <1>4 DEF MpKnows
  <2> QED
    BY <1>2, <1>4, <2>1, <2>2, <2>3 DEF MpKnows
<1> QED
  BY <1>2, <1>3, <1>4

(* A thread's own step changes its own record.                             *)
LEMMA MpGoStep ==
    ASSUME MpTypeOK, NEW t \in MpThreads, NEW r \in MpRecords, MpGo(t, r)
    PROVE  /\ mpThread'[t] = r /\ \A u \in MpThreads \ {t} : mpThread'[u] = mpThread[u]
           /\ mpThread' \in [MpThreads -> MpRecords]
  BY DEF MpTypeOK, MpGo

(* Steps that leave the stack and the slots alone.                         *)
LEMMA MpQuiet ==
    ASSUME MpTypeOK, MpGood, NEW t \in MpThreads, NEW r \in MpRecords, MpGo(t, r),
           UNCHANGED <<mpFree, mpNext, mpBlocks, mpUsed>>, r.slot = mpThread[t].slot,
           mpThread[t].at \notin {"block", "store"}, r.at # "store",
           \/ mpLock' = mpLock /\ r.at # "block"
           \/ mpLock = "free" /\ mpLock' = t /\ r.at = "block" /\ mpFree.node = 0
                /\ mpBlocks < MpBlocks,
           r.at \in {"link", "push"} <=> r.slot # 0, r.at = "pop" => r.orig.node # 0,
           r.at \in {"idle", "grow", "block"} => r.orig.node = 0,
           r.orig = mpFree \/ r.orig = mpThread[t].orig \/ (r.orig.node = 0 /\ r.slot = 0),
           r.at = "pop" => r.next = mpNext[r.orig.node], r.at # "push"
    PROVE  MpTypeOK' /\ MpGood'
<1> DEFINE me == mpThread[t]
<1>1. /\ mpThread'[t] = r /\ \A u \in MpThreads \ {t} : mpThread'[u] = mpThread[u]
      /\ mpThread' \in [MpThreads -> MpRecords]
  BY MpGoStep
<1>2. MpTypeOK'
  <2>1. mpLock' \in MpThreads \union {"free"}
    BY DEF MpTypeOK
  <2> QED
    BY <1>1, <2>1 DEF MpTypeOK
<1>3. mpLock # t
  BY DEF MpGood, MpRole
<1>4. ASSUME NEW u \in MpThreads
      PROVE  MpRole(u)' /\ MpKnows(u)'
  <2>1. CASE u = t
    <3>1. MpRole(t)'
      BY <1>1, <1>3 DEF MpRole
    <3>2. r.orig.node # 0 \/ r.slot # 0 =>
             r.orig.aba <= mpFree.aba /\ (r.orig.aba = mpFree.aba => r.orig = mpFree)
      <4>1. mpFree.aba \in Nat
        BY MpTypes
      <4> QED
        BY <4>1 DEF MpGood, MpKnows
    <3> QED
      BY <1>1, <2>1, <3>1, <3>2 DEF MpKnows
  <2>2. CASE u # t
    <3>1. mpThread'[u] = mpThread[u] /\ (mpLock' = u <=> mpLock = u)
      BY <1>1, <2>2, MpAssumption
    <3>2. mpLock' = "free" => mpLock = "free"
      OBVIOUS
    <3>3. MpRole(u) /\ MpKnows(u)
      BY DEF MpGood
    <3> QED
      BY <1>2, <3>1, <3>2, <3>3, MpOthers
  <2> QED
    BY <2>1, <2>2
<1>5. MpHeldOnce'
  BY <1>1 DEF MpGood, MpHeldOnce
<1>6. \A u \in MpThreads : mpThread'[u].slot = mpThread[u].slot
                           /\ (mpThread'[u].at = "store" <=> mpThread[u].at = "store")
  BY <1>1
<1>7. PICK F : MpStack(MpTop, mpNext, F) /\ MpApart(F)
  BY DEF MpGood, MpPlaces
<1>8. MpApart(F)'
  BY <1>6, <1>7 DEF MpApart
<1>9. MpTop' = MpTop
  BY <1>6 DEF MpTop
<1>10. MpStack(MpTop', mpNext', F)
  BY <1>7, <1>9
<1>11. mpLock' # "free" => mpFree'.node = 0
  BY DEF MpGood
<1> QED
  BY <1>2, <1>4, <1>5, <1>8, <1>10, <1>11 DEF MpGood, MpPlaces, MpStack

(* A good state says so of every step that changes nothing.                *)
LEMMA MpStutter ==
    ASSUME MpInv, UNCHANGED mpVars
    PROVE  MpInv'
<1>1. UNCHANGED <<mpFree, mpNext, mpBlocks, mpLock, mpThread, mpUsed, mpMixed>>
  BY DEF mpVars
<1>2. MpTypeOK'
  BY <1>1 DEF MpInv, MpTypeOK
<1>3. ASSUME MpGood PROVE MpGood'
  <2>1. MpPlaces'
    <3>1. PICK F : MpStack(MpTop, mpNext, F) /\ MpApart(F)
      BY <1>3 DEF MpGood, MpPlaces
    <3>2. MpApart(F)' /\ MpTop' = MpTop
      BY <1>1, <3>1 DEF MpApart, MpTop
    <3>3. MpStack(MpTop', mpNext', F)
      BY <1>1, <3>1, <3>2
    <3> QED
      BY <3>2, <3>3 DEF MpPlaces, MpStack
  <2>2. MpHeldOnce' /\ \A t \in MpThreads : MpRole(t)' /\ MpKnows(t)'
    BY <1>1, <1>3 DEF MpGood, MpHeldOnce, MpRole, MpKnows
  <2> QED
    BY <1>1, <1>3, <2>1, <2>2 DEF MpGood
<1> QED
  BY <1>1, <1>2, <1>3 DEF MpInv

(* allocate() up to its compare-exchange.                                  *)
LEMMA MpQuietSteps ==
    ASSUME MpTypeOK, MpGood, NEW t \in MpThreads,
           MpAllocate(t) \/ MpLook(t) \/ MpLockBlock(t)
    PROVE  MpTypeOK' /\ MpGood'
<1> DEFINE me == mpThread[t]
<1>t. /\ me \in MpRecords /\ mpFree \in MpHeads /\ me.orig \in MpHeads
      /\ me.orig.node \in MpSlots \union {0} /\ mpNext \in [MpSlots -> MpSlots \union {0}]
  BY MpTypes
<1>r. MpRole(t)
  BY DEF MpGood
<1>1. CASE MpAllocate(t) \/ (MpLockBlock(t) /\ mpFree.node # 0)
  <2> DEFINE r == [MpIdle EXCEPT !.at = "look", !.orig = mpFree]
  <2>1. MpGo(t, r) /\ UNCHANGED <<mpFree, mpNext, mpBlocks, mpUsed, mpLock>>
        /\ me.at \in {"idle", "grow"}
    BY <1>1, Zenon DEF MpAllocate, MpLockBlock
  <2>2. r \in MpRecords /\ r.at = "look" /\ r.orig = mpFree /\ r.slot = 0
    BY <1>t DEF MpIdle, MpRecords, MpNull, MpHeads
  <2> HIDE DEF r
  <2>3. me.slot = 0
    BY <1>r, <2>1 DEF MpRole
  <2> QED
    BY <2>1, <2>2, <2>3, MpQuiet
<1>2. CASE MpLook(t) /\ me.orig.node = 0
  <2> DEFINE r == [MpIdle EXCEPT !.at = "grow"]
  <2>1. MpGo(t, r) /\ UNCHANGED <<mpFree, mpNext, mpBlocks, mpUsed, mpLock>> /\ me.at = "look"
    BY <1>2, Zenon DEF MpLook
  <2>2. r \in MpRecords /\ r.at = "grow" /\ r.orig.node = 0 /\ r.slot = 0
    BY <1>t DEF MpIdle, MpRecords, MpNull, MpHeads
  <2> HIDE DEF r
  <2>3. me.slot = 0
    BY <1>r, <2>1 DEF MpRole
  <2> QED
    BY <2>1, <2>2, <2>3, MpQuiet
<1>3. CASE MpLook(t) /\ me.orig.node # 0
  <2> DEFINE r == [me EXCEPT !.at = "pop", !.next = mpNext[me.orig.node]]
  <2>1. MpGo(t, r) /\ UNCHANGED <<mpFree, mpNext, mpBlocks, mpUsed, mpLock>> /\ me.at = "look"
    BY <1>3, Zenon DEF MpLook
  <2>2. r \in MpRecords /\ r.at = "pop" /\ r.orig = me.orig /\ r.slot = me.slot
        /\ r.next = mpNext[r.orig.node]
    BY <1>t, <1>3 DEF MpRecords, MpHeads
  <2> HIDE DEF r
  <2>3. me.slot = 0
    BY <1>r, <2>1 DEF MpRole
  <2> QED
    BY <1>3, <2>1, <2>2, <2>3, MpQuiet
<1>4. CASE MpLockBlock(t) /\ mpFree.node = 0
  <2>1. /\ me.at = "grow" /\ mpLock = "free"
        /\ UNCHANGED <<mpFree, mpNext, mpBlocks, mpUsed>>
        /\ \/ mpBlocks < MpBlocks /\ mpLock' = t /\ MpGo(t, [MpIdle EXCEPT !.at = "block"])
           \/ MpGo(t, MpIdle) /\ UNCHANGED mpLock
    BY <1>4, Zenon DEF MpLockBlock
  <2>2. me.slot = 0
    BY <1>r, <2>1 DEF MpRole
  <2>3. CASE mpBlocks < MpBlocks /\ mpLock' = t /\ MpGo(t, [MpIdle EXCEPT !.at = "block"])
    <3> DEFINE r == [MpIdle EXCEPT !.at = "block"]
    <3>1. r \in MpRecords /\ r.at = "block" /\ r.orig.node = 0 /\ r.slot = 0
      BY DEF MpIdle, MpRecords, MpNull, MpHeads
    <3>2. MpGo(t, r)
      BY <2>3
    <3> HIDE DEF r
    <3> QED
      BY <1>4, <2>1, <2>2, <2>3, <3>1, <3>2, MpQuiet
  <2>4. CASE MpGo(t, MpIdle) /\ UNCHANGED mpLock
    <3>1. MpIdle \in MpRecords /\ MpIdle.at = "idle" /\ MpIdle.orig.node = 0 /\ MpIdle.slot = 0
      BY DEF MpIdle, MpRecords, MpNull, MpHeads
    <3> QED
      BY <2>1, <2>2, <2>4, <3>1, MpQuiet
  <2> QED
    BY <2>1, <2>3, <2>4
<1> QED
  BY <1>1, <1>2, <1>3, <1>4

(* The head does not depend on where t is, as long as it adds no block.    *)
LEMMA MpSameTop ==
    ASSUME NEW t \in MpThreads, \A u \in MpThreads \ {t} : mpThread'[u] = mpThread[u],
           mpThread[t].at # "store", mpThread'[t].at # "store",
           UNCHANGED <<mpFree, mpBlocks>>
    PROVE  MpTop' = MpTop
<1>1. (\E u \in MpThreads : mpThread'[u].at = "store")
      <=> \E u \in MpThreads : mpThread[u].at = "store"
  OBVIOUS
<1> QED
  BY <1>1 DEF MpTop

(* Nobody adds a block when m_lock is free.                                *)
LEMMA MpFreeTop ==
    ASSUME \A t \in MpThreads : MpRole(t), mpLock = "free"
    PROVE  MpTop = mpFree.node
<1>1. \A t \in MpThreads : mpThread[t].at # "store"
  BY MpAssumption DEF MpRole
<1> QED
  BY <1>1 DEF MpTop

(* deallocate() takes the slot from its caller.                            *)
LEMMA MpGiveBack ==
    ASSUME MpTypeOK, MpGood, NEW t \in MpThreads, NEW s \in MpSlots, MpDeallocate(t, s)
    PROVE  MpTypeOK' /\ MpGood'
<1> DEFINE me == mpThread[t]
           r == [MpIdle EXCEPT !.at = "link", !.orig = mpFree, !.slot = s]
<1>t. /\ mpFree \in MpHeads /\ mpFree.aba \in Nat /\ s # 0 /\ mpUsed \in SUBSET MpSlots
  BY MpTypes, MpSlotsNat
<1>0. /\ MpGo(t, r) /\ UNCHANGED <<mpFree, mpNext, mpBlocks, mpLock>> /\ me.at = "idle"
      /\ s \in mpUsed /\ mpUsed' = mpUsed \ {s}
  BY Zenon DEF MpDeallocate
<1>r. r \in MpRecords /\ r.at = "link" /\ r.orig = mpFree /\ r.slot = s
  BY <1>t DEF MpIdle, MpRecords, MpNull, MpHeads
<1> HIDE DEF r
<1>1. /\ mpThread'[t] = r /\ \A u \in MpThreads \ {t} : mpThread'[u] = mpThread[u]
      /\ mpThread' \in [MpThreads -> MpRecords]
  BY <1>0, <1>r, MpGoStep
<1>2. MpTypeOK'
  BY <1>0, <1>1 DEF MpTypeOK
<1>3. MpRole(t) /\ me.slot = 0 /\ mpLock # t
  BY <1>0 DEF MpGood, MpRole
<1>4. ASSUME NEW u \in MpThreads
      PROVE  MpRole(u)' /\ MpKnows(u)'
  <2>1. CASE u = t
    BY <1>t, <1>0, <1>r, <1>1, <1>3, <2>1 DEF MpRole, MpKnows
  <2>2. CASE u # t
    <3>1. MpRole(u) /\ MpKnows(u) /\ mpThread'[u] = mpThread[u]
      BY <1>1, <2>2 DEF MpGood
    <3> QED
      BY <1>0, <1>2, <3>1, MpOthers
  <2> QED
    BY <2>1, <2>2
<1>5. MpHeldOnce'
  <2>1. \A u \in MpThreads : mpThread[u].slot # s
    BY <1>0, <1>t DEF MpGood, MpHeldOnce
  <2> QED
    BY <1>0, <1>1, <1>r, <2>1 DEF MpGood, MpHeldOnce
<1>6. PICK F : MpStack(MpTop, mpNext, F) /\ MpApart(F)
  BY DEF MpGood, MpPlaces
<1>7. MpApart(F)'
  <2>1. F \intersect mpUsed' = {} /\ \A u \in MpThreads : mpThread'[u].slot \notin F
    BY <1>0, <1>1, <1>r, <1>6 DEF MpApart
  <2>2. ASSUME NEW x
        PROVE  x \in 1 .. mpBlocks * MpBlockSize <=>
                 x \in F \/ x \in mpUsed' \/ \E u \in MpThreads : x # 0 /\ x = mpThread'[u].slot
    <3>1. x \in 1 .. mpBlocks * MpBlockSize <=>
                 x \in F \/ x \in mpUsed \/ \E u \in MpThreads : x # 0 /\ x = mpThread[u].slot
      BY <1>6 DEF MpApart
    <3>2. (\E u \in MpThreads : x # 0 /\ x = mpThread'[u].slot) <=>
             x = s \/ \E u \in MpThreads : x # 0 /\ x = mpThread[u].slot
      BY <1>t, <1>1, <1>3, <1>r
    <3> QED
      BY <1>0, <3>1, <3>2
  <2> QED
    BY <1>0, <2>1, <2>2 DEF MpApart
<1>8. MpTop' = MpTop
  BY <1>0, <1>1, <1>r, MpSameTop
<1>9. MpStack(MpTop', mpNext', F)
  BY <1>0, <1>6, <1>8
<1> QED
  BY <1>0, <1>2, <1>4, <1>5, <1>7, <1>9 DEF MpGood, MpPlaces, MpStack

(* deallocate() writes a slot that is nobody else's.                       *)
LEMMA MpLinkStep ==
    ASSUME MpTypeOK, MpGood, NEW t \in MpThreads, MpLink(t)
    PROVE  MpTypeOK' /\ MpGood'
<1> DEFINE me == mpThread[t]
           r == [me EXCEPT !.at = "push"]
<1>t. /\ me \in MpRecords /\ mpFree.aba \in Nat /\ me.orig.node \in MpSlots \union {0}
      /\ mpNext \in [MpSlots -> MpSlots \union {0}] /\ me.slot \in MpSlots \union {0}
  BY MpTypes
<1>0. /\ MpGo(t, r) /\ UNCHANGED <<mpFree, mpBlocks, mpLock, mpUsed>> /\ me.at = "link"
      /\ mpNext' = [mpNext EXCEPT ![me.slot] = me.orig.node]
  BY Zenon DEF MpLink
<1>r. r \in MpRecords /\ r.at = "push" /\ r.orig = me.orig /\ r.slot = me.slot
  BY <1>t DEF MpRecords
<1> HIDE DEF r
<1>1. /\ mpThread'[t] = r /\ \A u \in MpThreads \ {t} : mpThread'[u] = mpThread[u]
      /\ mpThread' \in [MpThreads -> MpRecords]
  BY <1>0, <1>r, MpGoStep
<1>3. MpRole(t) /\ MpKnows(t) /\ me.slot # 0 /\ me.slot \in MpSlots /\ mpLock # t
  BY <1>0, <1>t DEF MpGood, MpRole
<1>n. /\ mpNext' \in [MpSlots -> MpSlots \union {0}] /\ mpNext'[me.slot] = me.orig.node
      /\ \A y \in MpSlots \ {me.slot} : mpNext'[y] = mpNext[y]
  BY <1>0, <1>3, <1>t
<1>2. MpTypeOK'
  BY <1>0, <1>1, <1>n DEF MpTypeOK
<1>6. PICK F : MpStack(MpTop, mpNext, F) /\ MpApart(F)
  BY DEF MpGood, MpPlaces
<1>f. F \subseteq MpSlots /\ me.slot \notin F
  BY <1>6, MpStackHead DEF MpApart
<1>h. mpFree.node # 0 => mpFree.node # me.slot /\ mpFree.node \in MpSlots
  <2> SUFFICES ASSUME mpFree.node # 0 PROVE mpFree.node \in F
    BY <1>f
  <2>1. mpLock = "free"
    BY DEF MpGood
  <2>2. MpTop = mpFree.node
    BY <2>1, MpFreeTop DEF MpGood
  <2> QED
    BY <1>6, <2>2, MpStackHead
<1>4. ASSUME NEW u \in MpThreads
      PROVE  MpRole(u)' /\ MpKnows(u)'
  <2>1. CASE u = t
    BY <1>0, <1>r, <1>1, <1>3, <1>n, <2>1 DEF MpRole, MpKnows
  <2>2. CASE u # t
    <3>1. MpRole(u) /\ MpKnows(u) /\ mpThread'[u] = mpThread[u]
      BY <1>1, <2>2 DEF MpGood
    <3>2. mpThread[u].slot # 0 => mpNext'[mpThread[u].slot] = mpNext[mpThread[u].slot]
      <4>1. mpThread[u].slot # 0 => mpThread[u].slot # me.slot
        BY <2>2 DEF MpGood, MpHeldOnce
      <4>2. mpThread[u].slot \in MpSlots \union {0}
        BY MpTypes
      <4> QED
        BY <1>n, <4>1, <4>2
    <3>3. mpFree.node # 0 => mpNext'[mpFree.node] = mpNext[mpFree.node]
      BY <1>h, <1>n
    <3> QED
      BY <1>0, <1>2, <3>1, <3>2, <3>3, MpOthers
  <2> QED
    BY <2>1, <2>2
<1>5. \A u \in MpThreads : mpThread'[u].slot = mpThread[u].slot
  BY <1>1, <1>r
<1>7. MpHeldOnce' /\ MpApart(F)'
  BY <1>0, <1>5, <1>6 DEF MpGood, MpHeldOnce, MpApart
<1>8. MpTop' = MpTop
  BY <1>0, <1>1, <1>r, MpSameTop
<1>9. MpStack(MpTop', mpNext', F)
  <2>1. \A y \in F : mpNext'[y] = mpNext[y]
    BY <1>f, <1>n
  <2> QED
    BY <1>6, <1>8, <2>1, MpStackKept
<1> QED
  BY <1>0, <1>2, <1>4, <1>7, <1>9 DEF MpGood, MpPlaces, MpStack

(* A compare-exchange that fails starts again with the head it found.      *)
LEMMA MpRetry ==
    ASSUME MpTypeOK, MpGood, NEW t \in MpThreads, MpExchange(t), mpFree # mpThread[t].orig
    PROVE  MpTypeOK' /\ MpGood'
<1> DEFINE me == mpThread[t]
           r == [me EXCEPT !.orig = mpFree, !.next = 0,
                           !.at = IF me.at = "pop" THEN "look" ELSE "link"]
<1>t. me \in MpRecords /\ mpFree \in MpHeads
  BY MpTypes
<1>0. MpGo(t, r) /\ UNCHANGED <<mpFree, mpNext, mpBlocks, mpLock, mpUsed>>
      /\ me.at \in {"pop", "push"}
  BY Zenon DEF MpExchange
<1>r. r \in MpRecords /\ r.at = (IF me.at = "pop" THEN "look" ELSE "link") /\ r.orig = mpFree
      /\ r.slot = me.slot
  BY <1>t DEF MpRecords
<1> HIDE DEF r
<1>1. MpRole(t)
  BY DEF MpGood
<1>2. me.at = "push" <=> me.slot # 0
  BY <1>0, <1>1 DEF MpRole
<1> QED
  BY <1>0, <1>2, <1>r, MpQuiet

(* A compare-exchange that succeeds moves one slot.                        *)
LEMMA MpChange ==
    ASSUME MpTypeOK, MpGood, NEW t \in MpThreads, MpExchange(t), mpFree = mpThread[t].orig
    PROVE  MpTypeOK' /\ (mpMixed' \/ MpGood')
<1> DEFINE me == mpThread[t]
<1>t. /\ me \in MpRecords /\ mpFree \in MpHeads /\ mpFree.aba \in Nat
      /\ me.next \in MpSlots \union {0}
      /\ mpFree.node \in MpSlots \union {0} /\ me.slot \in MpSlots \union {0}
      /\ mpUsed \in SUBSET MpSlots
  BY MpTypes
<1>0. /\ MpGo(t, MpIdle) /\ UNCHANGED <<mpNext, mpBlocks, mpLock>> /\ me.at \in {"pop", "push"}
      /\ mpLock # "free" => mpMixed'
      /\ me.at = "pop" => /\ mpFree' = [aba |-> me.orig.aba + 1, node |-> me.next]
                          /\ mpUsed' = mpUsed \union {me.orig.node}
      /\ me.at # "pop" => /\ mpFree' = [aba |-> me.orig.aba + 1, node |-> me.slot]
                          /\ mpUsed' = mpUsed
  BY Zenon DEF MpExchange
<1>i. MpIdle \in MpRecords /\ MpIdle.at = "idle" /\ MpIdle.orig.node = 0 /\ MpIdle.slot = 0
  BY DEF MpIdle, MpRecords, MpNull, MpHeads
<1>1. /\ mpThread'[t] = MpIdle /\ \A u \in MpThreads \ {t} : mpThread'[u] = mpThread[u]
      /\ mpThread' \in [MpThreads -> MpRecords]
  BY <1>0, <1>i, MpGoStep
<1>3. MpRole(t) /\ MpKnows(t) /\ mpLock # t
  BY <1>0 DEF MpGood, MpRole
<1>h. /\ mpFree'.aba = mpFree.aba + 1 /\ mpFree' \in MpHeads
      /\ mpFree'.node = IF me.at = "pop" THEN me.next ELSE me.slot
  BY <1>0, <1>t DEF MpHeads
<1>u. me.at = "pop" => mpFree.node # 0 /\ mpFree.node \in MpSlots
  BY <1>t, <1>3 DEF MpRole
<1>2. MpTypeOK'
  <2>1. mpUsed' \in SUBSET MpSlots
    BY <1>0, <1>t, <1>u
  <2> QED
    BY <1>0, <1>1, <1>h, <2>1 DEF MpTypeOK
<1> SUFFICES ASSUME mpLock = "free" PROVE MpGood'
  BY <1>0, <1>2
<1>4. ASSUME NEW u \in MpThreads
      PROVE  MpRole(u)' /\ MpKnows(u)'
  <2>1. CASE u = t
    BY <1>0, <1>i, <1>1, <1>3, <2>1 DEF MpRole, MpKnows
  <2>2. CASE u # t
    <3>1. MpRole(u) /\ MpKnows(u) /\ mpThread'[u] = mpThread[u]
      BY <1>1, <2>2 DEF MpGood
    <3>2. mpFree' # mpFree
      BY <1>h, <1>t
    <3> QED
      BY <1>0, <1>2, <1>h, <3>1, <3>2, MpOthers
  <2> QED
    BY <2>1, <2>2
<1>5. MpTop = mpFree.node
  BY MpFreeTop DEF MpGood
<1>6. PICK F : MpStack(mpFree.node, mpNext, F) /\ MpApart(F)
  BY <1>5 DEF MpGood, MpPlaces
<1>7. MpTop' = mpFree'.node
  <2>1. \A u \in MpThreads : mpThread'[u].at # "store"
    BY <1>0, <1>4, MpAssumption DEF MpRole
  <2> QED
    BY <2>1 DEF MpTop
<1>8. CASE me.at = "pop"
  <2> DEFINE x == mpFree.node
  <2>1. me.next = mpNext[x] /\ x \in F /\ me.slot = 0 /\ mpUsed' = mpUsed \union {x}
    BY <1>0, <1>3, <1>6, <1>8, <1>u, MpStackHead DEF MpRole, MpKnows
  <2>2. MpStack(mpFree'.node, mpNext', F \ {x})
    BY <1>0, <1>6, <1>8, <1>h, <1>u, <2>1, MpStackPop
  <2>3. \A u \in MpThreads : mpThread'[u].slot = mpThread[u].slot
    BY <1>1, <1>i, <2>1
  <2>4. PICK G : G = F \ {x}
    OBVIOUS
  <2>5. MpApart(G)'
    BY <1>0, <1>6, <2>1, <2>3, <2>4 DEF MpApart
  <2>6. MpHeldOnce'
    <3>1. \A u \in MpThreads : mpThread[u].slot # x
      BY <1>6, <2>1 DEF MpApart
    <3> HIDE DEF x
    <3> QED
      BY <2>1, <2>3, <3>1 DEF MpGood, MpHeldOnce
  <2>7. MpStack(MpTop', mpNext', G)
    BY <1>7, <2>2, <2>4
  <2> QED
    BY <1>0, <1>4, <2>5, <2>6, <2>7 DEF MpGood, MpPlaces, MpStack
<1>9. CASE me.at = "push"
  <2> DEFINE x == me.slot
  <2>1. x # 0 /\ x \in MpSlots /\ mpNext[x] = mpFree.node /\ mpUsed' = mpUsed /\ x \notin F
        /\ x \notin mpUsed
    BY <1>0, <1>3, <1>6, <1>9, <1>t DEF MpRole, MpKnows, MpApart, MpGood, MpHeldOnce
  <2>2. MpStack(mpFree'.node, mpNext', F \union {x})
    BY <1>0, <1>6, <1>9, <1>h, <2>1, MpStackPush
  <2>3. \A u \in MpThreads \ {t} : mpThread'[u].slot = mpThread[u].slot /\ mpThread[u].slot # x
    BY <1>1, <2>1 DEF MpGood, MpHeldOnce
  <2>4. PICK G : G = F \union {x}
    OBVIOUS
  <2>5. MpApart(G)'
    <3>1. G \intersect mpUsed' = {} /\ \A u \in MpThreads : mpThread'[u].slot \notin G
      <4>1. 0 \notin G
        BY <1>6, <2>1, <2>4, MpStackHead, MpSlotsNat
      <4> QED
        BY <1>1, <1>6, <1>i, <2>1, <2>3, <2>4, <4>1 DEF MpApart
    <3>2. ASSUME NEW s
          PROVE  s \in 1 .. mpBlocks * MpBlockSize <=>
                   s \in G \/ s \in mpUsed' \/ \E u \in MpThreads : s # 0 /\ s = mpThread'[u].slot
      <4>1. s \in 1 .. mpBlocks * MpBlockSize <=>
                   s \in F \/ s \in mpUsed \/ \E u \in MpThreads : s # 0 /\ s = mpThread[u].slot
        BY <1>6 DEF MpApart
      <4>2. (\E u \in MpThreads : s # 0 /\ s = mpThread[u].slot) <=>
               s = x \/ \E u \in MpThreads : s # 0 /\ s = mpThread'[u].slot
        BY <1>1, <1>i, <2>1, <2>3
      <4> QED
        BY <2>1, <2>4, <4>1, <4>2
    <3> QED
      BY <1>0, <3>1, <3>2 DEF MpApart
  <2>6. MpHeldOnce'
    BY <1>1, <1>i, <2>1, <2>3 DEF MpGood, MpHeldOnce
  <2>7. MpStack(MpTop', mpNext', G)
    BY <1>7, <2>2, <2>4
  <2> QED
    BY <1>0, <1>4, <2>5, <2>6, <2>7 DEF MpGood, MpPlaces, MpStack
<1> QED
  BY <1>0, <1>8, <1>9

(* allocate_block() chains the slots of a new block.                       *)
LEMMA MpFill ==
    ASSUME MpTypeOK, MpGood, NEW t \in MpThreads, MpFillBlock(t)
    PROVE  MpTypeOK' /\ MpGood'
<1> DEFINE me == mpThread[t]
           base == mpBlocks * MpBlockSize
           r == [MpIdle EXCEPT !.at = "store"]
           B == base + 1 .. base + MpBlockSize
<1>t. /\ mpBlocks \in 0 .. MpBlocks /\ mpNext \in [MpSlots -> MpSlots \union {0}]
      /\ mpFree.node \in MpSlots \union {0} /\ MpBlocks \in Nat
  BY MpTypes, MpAssumption
<1>0. /\ MpGo(t, r) /\ UNCHANGED <<mpFree, mpLock, mpUsed>> /\ me.at = "block"
      /\ mpBlocks' = mpBlocks + 1
      /\ mpNext' = [s \in MpSlots |->
             IF s = base + MpBlockSize THEN mpFree.node
             ELSE IF s >= base /\ s <= base + MpBlockSize THEN s + 1 ELSE mpNext[s]]
  BY Zenon DEF MpFillBlock
<1>r. r \in MpRecords /\ r.at = "store" /\ r.orig.node = 0 /\ r.slot = 0
  BY DEF MpIdle, MpRecords, MpNull, MpHeads
<1> HIDE DEF r
<1>1. /\ mpThread'[t] = r /\ \A u \in MpThreads \ {t} : mpThread'[u] = mpThread[u]
      /\ mpThread' \in [MpThreads -> MpRecords]
  BY <1>0, <1>r, MpGoStep
<1>3. /\ mpLock = t /\ mpLock # "free" /\ me.slot = 0 /\ mpBlocks < MpBlocks /\ mpFree.node = 0
      /\ \A u \in MpThreads : mpThread[u].at # "store"
  BY <1>0, MpAssumption DEF MpGood, MpRole
<1>b. /\ base \in Nat /\ MpBlockSize \in Nat \ {0}
      /\ (mpBlocks + 1) * MpBlockSize = base + MpBlockSize
      /\ B \subseteq MpSlots /\ mpBlocks + 1 \in 1 .. MpBlocks
  <2>1. mpBlocks \in 0 .. MpBlocks - 1
    BY <1>3, <1>t
  <2> QED
    BY <2>1, <1>t, MpBlockFacts
<1> HIDE DEF base
<1>n. /\ \A s \in MpSlots : mpNext'[s] \in MpSlots \union {0}
      /\ \A s \in B : mpNext'[s] = IF s = base + MpBlockSize THEN 0 ELSE s + 1
  <2>1. ASSUME NEW s \in MpSlots
        PROVE  mpNext'[s] \in MpSlots \union {0}
    <3>1. s \in Nat
      BY MpSlotsNat
    <3>2. s >= base /\ s <= base + MpBlockSize /\ s # base + MpBlockSize => s + 1 \in B
      BY <1>b, <3>1
    <3> QED
      BY <1>0, <1>b, <1>t, <3>2
  <2>2. ASSUME NEW s \in B
        PROVE  mpNext'[s] = IF s = base + MpBlockSize THEN 0 ELSE s + 1
    <3>1. s \in MpSlots /\ s \in Nat /\ s >= base /\ s <= base + MpBlockSize
      BY <1>b
    <3> QED
      BY <1>0, <1>3, <3>1
  <2> QED
    BY <2>1, <2>2
<1>2. MpTypeOK'
  <2>1. mpNext' \in [MpSlots -> MpSlots \union {0}]
    BY <1>0, <1>n
  <2>2. mpBlocks' \in 0 .. MpBlocks
    BY <1>0, <1>b
  <2> QED
    BY <1>0, <1>1, <2>1, <2>2 DEF MpTypeOK
<1>4. ASSUME NEW u \in MpThreads
      PROVE  MpRole(u)' /\ MpKnows(u)'
  <2>1. CASE u = t
    BY <1>0, <1>r, <1>1, <1>3, <1>t, <2>1 DEF MpRole, MpKnows
  <2>2. CASE u # t
    <3>1. MpRole(u) /\ MpKnows(u) /\ mpThread'[u] = mpThread[u]
      BY <1>1, <2>2 DEF MpGood
    <3> QED
      BY <1>0, <1>2, <1>3, <2>2, <3>1, MpOthers
  <2> QED
    BY <2>1, <2>2
<1>5. \A u \in MpThreads : mpThread'[u].slot = mpThread[u].slot
  BY <1>1, <1>3, <1>r
<1>6. MpApart({})
  <2>1. MpTop = 0
    BY <1>3 DEF MpTop
  <2>2. PICK F : MpStack(0, mpNext, F) /\ MpApart(F)
    BY <2>1 DEF MpGood, MpPlaces
  <2> QED
    BY <2>2, MpStackEmpty
<1>7. PICK G : G = B
  OBVIOUS
<1>8. MpApart(G)'
  <2>1. \A s : s \in 1 .. base <=>
                 s \in mpUsed \/ \E u \in MpThreads : s # 0 /\ s = mpThread[u].slot
    BY <1>6 DEF MpApart, base
  <2>2. /\ (1 .. mpBlocks * MpBlockSize)' = (1 .. base) \union B
        /\ (1 .. base) \intersect B = {} /\ 0 \notin B
    BY <1>0, <1>b
  <2>3. G \intersect mpUsed' = {}
    BY <1>0, <1>7, <2>1, <2>2
  <2>4. \A u \in MpThreads : mpThread'[u].slot \notin G
    <3> TAKE u \in MpThreads
    <3>1. mpThread'[u].slot = mpThread[u].slot
      BY <1>5
    <3>2. mpThread[u].slot # 0 => mpThread[u].slot \in 1 .. base
      BY <2>1
    <3> QED
      BY <1>7, <2>2, <3>1, <3>2
  <2>5. ASSUME NEW s
        PROVE  s \in (1 .. mpBlocks * MpBlockSize)' <=>
                 s \in G \/ s \in mpUsed' \/ \E u \in MpThreads : s # 0 /\ s = mpThread'[u].slot
    <3>1. s \in 1 .. base <=>
                 s \in mpUsed' \/ \E u \in MpThreads : s # 0 /\ s = mpThread'[u].slot
      BY <1>0, <1>5, <2>1
    <3> HIDE DEF B
    <3> QED
      BY <1>7, <2>2, <3>1
  <2> QED
    BY <2>3, <2>4, <2>5 DEF MpApart
<1>9. MpTop' = base + 1
  <2>1. MpTop' = (mpBlocks' - 1) * MpBlockSize + 1
    BY <1>1, <1>r DEF MpTop
  <2>2. mpBlocks' - 1 = mpBlocks
    BY <1>0, <1>t
  <2> QED
    BY <2>1, <2>2 DEF base
<1>10. MpStack(base + 1, mpNext', B)
  BY <1>b, <1>n, MpStackBlock
<1>11. MpStack(MpTop', mpNext', G)
  BY <1>7, <1>9, <1>10
<1>12. MpHeldOnce'
  BY <1>0, <1>5 DEF MpGood, MpHeldOnce
<1> QED
  BY <1>0, <1>2, <1>3, <1>4, <1>8, <1>11, <1>12 DEF MpGood, MpPlaces, MpStack

(* The new block becomes the stack.                                        *)
LEMMA MpStore ==
    ASSUME MpTypeOK, MpGood, NEW t \in MpThreads, MpStoreHead(t)
    PROVE  MpTypeOK' /\ (mpMixed' \/ MpGood')
<1> DEFINE me == mpThread[t]
           h == [aba |-> 0, node |-> (mpBlocks - 1) * MpBlockSize + 1]
           r == [MpIdle EXCEPT !.at = "look", !.orig = h]
<1>t. mpBlocks \in 0 .. MpBlocks /\ MpBlocks \in Nat
  BY MpTypes, MpAssumption
<1>0. /\ mpFree' = h /\ mpLock' = "free" /\ MpGo(t, [MpIdle EXCEPT !.at = "look", !.orig = mpFree'])
      /\ UNCHANGED <<mpNext, mpBlocks, mpUsed>> /\ me.at = "store"
      /\ (\E u \in MpThreads \ {t} : mpThread[u].orig.node # 0 \/ mpThread[u].slot # 0) => mpMixed'
  BY Zenon DEF MpStoreHead
<1>g. MpGo(t, r)
  BY <1>0, Zenon
<1>3. mpLock = t /\ me.slot = 0 /\ mpBlocks > 0 /\ mpFree.node = 0
  BY <1>0, MpAssumption DEF MpGood, MpRole
<1>h. h.node \in MpSlots /\ h.aba = 0 /\ h \in MpHeads
  <2>1. mpBlocks - 1 \in 0 .. MpBlocks - 1
    BY <1>t, <1>3
  <2>2. /\ (mpBlocks - 1) * MpBlockSize \in Nat /\ MpBlockSize \in Nat \ {0}
        /\ (mpBlocks - 1) * MpBlockSize + 1
             .. (mpBlocks - 1) * MpBlockSize + MpBlockSize \subseteq MpSlots
    BY <2>1, MpBlockFacts
  <2>3. (mpBlocks - 1) * MpBlockSize + 1 \in MpSlots
    BY <2>2
  <2> QED
    BY <2>3 DEF MpHeads
<1>n. h.node = (mpBlocks - 1) * MpBlockSize + 1
  OBVIOUS
<1> HIDE DEF h
<1>r. r \in MpRecords /\ r.at = "look" /\ r.orig = h /\ r.slot = 0
  BY <1>h DEF MpIdle, MpRecords, MpNull, MpHeads
<1> HIDE DEF r
<1>1. /\ mpThread'[t] = r /\ \A u \in MpThreads \ {t} : mpThread'[u] = mpThread[u]
      /\ mpThread' \in [MpThreads -> MpRecords]
  BY <1>g, <1>r, MpGoStep
<1>2. MpTypeOK'
  BY <1>0, <1>1, <1>h DEF MpTypeOK
<1> SUFFICES ASSUME \A u \in MpThreads \ {t} : mpThread[u].orig.node = 0 /\ mpThread[u].slot = 0
             PROVE  MpGood'
  BY <1>0, <1>2
<1>4. ASSUME NEW u \in MpThreads
      PROVE  MpRole(u)' /\ MpKnows(u)'
  <2>1. CASE u = t
    BY <1>0, <1>r, <1>1, <1>h, <2>1, MpAssumption DEF MpRole, MpKnows
  <2>2. CASE u # t
    <3>1. MpRole(u) /\ mpThread'[u] = mpThread[u] /\ mpLock # u
      BY <1>1, <1>3, <2>2 DEF MpGood
    <3>2. mpThread[u].orig.node = 0 /\ mpThread[u].slot = 0
      BY <2>2
    <3>3. mpThread[u].at \in {"idle", "look", "grow"}
      <4>1. mpThread[u] \in MpRecords
        BY MpTypes
      <4> QED
        BY <3>1, <3>2, <4>1 DEF MpRole, MpRecords
    <3> QED
      BY <1>0, <3>1, <3>2, <3>3, MpAssumption DEF MpRole, MpKnows
  <2> QED
    BY <2>1, <2>2
<1>5. \A u \in MpThreads : mpThread'[u].slot = mpThread[u].slot
  BY <1>1, <1>3, <1>r
<1>6. MpTop = h.node
  BY <1>0, <1>n DEF MpTop
<1>7. PICK F : MpStack(h.node, mpNext, F) /\ MpApart(F)
  BY <1>6 DEF MpGood, MpPlaces
<1>8. MpApart(F)' /\ MpHeldOnce'
  BY <1>0, <1>5, <1>7 DEF MpApart, MpHeldOnce, MpGood
<1>9. MpTop' = h.node
  <2>1. \A u \in MpThreads : mpThread'[u].at # "store"
    BY <1>0, <1>4, MpAssumption DEF MpRole
  <2> QED
    BY <1>0, <2>1 DEF MpTop
<1>10. MpStack(MpTop', mpNext', F)
  BY <1>0, <1>7, <1>9
<1> QED
  BY <1>0, <1>4, <1>8, <1>10 DEF MpGood, MpPlaces, MpStack

(* Every step of the pool.                                                 *)
LEMMA MpInvStep ==
    ASSUME MpInv, [MpNextStep]_mpVars
    PROVE  MpInv'
<1>1. CASE UNCHANGED mpVars
  BY <1>1, MpStutter
<1>2. CASE MpNextStep
  <2>1. ~mpMixed
    BY <1>2 DEF MpNextStep
  <2>2. MpTypeOK /\ MpGood
    BY <2>1 DEF MpInv
  <2>3. PICK t \in MpThreads :
           \/ MpAllocate(t) \/ \E s \in MpSlots : MpDeallocate(t, s)
           \/ MpLook(t) \/ MpLink(t) \/ MpExchange(t) \/ MpLockBlock(t) \/ MpFillBlock(t)
           \/ MpStoreHead(t)
    BY <1>2 DEF MpNextStep
  <2>4. MpTypeOK' /\ (mpMixed' \/ MpGood')
    BY <2>2, <2>3, MpQuietSteps, MpGiveBack, MpLinkStep, MpRetry, MpChange, MpFill, MpStore
  <2> QED
    BY <2>4 DEF MpInv
<1> QED
  BY <1>1, <1>2

-----------------------------------------------------------------------------
(* LRU cache.                                                              *)

(* What the list, the times of the elements and the history say of each    *)
(* other, for a list u, times t and a history h.                           *)
LcMembers(u, t) ==
    /\ \A i \in 1 .. Len(u) : u[i] \in LcKeys /\ t[u[i]] # -1
    /\ \A k \in LcKeys : t[k] # -1 => \E i \in 1 .. Len(u) : u[i] = k
LcOrder(u, t, h) ==
    \A i, j \in 1 .. Len(u) :
       /\ u[i] = u[j] => i = j
       /\ i < j <=> <<u[i], u[j]>> \in h
       /\ i < j => t[u[i]] >= t[u[j]]

LcInv ==
    /\ lcNow \in Nat /\ lcTime \in [LcKeys -> Nat \union {-1}]
    /\ \A k \in LcKeys : lcTime[k] <= lcNow
    /\ lcUsed \in Seq(LcKeys) /\ Len(lcUsed) <= LcCapacity
    /\ LcMembers(lcUsed, lcTime) /\ LcOrder(lcUsed, lcTime, lcSince)

(* A list without its i-th node.                                           *)
LEMMA LcRemoveAt ==
    ASSUME NEW s \in Seq(LcKeys), NEW i \in 1 .. Len(s), NEW r, r = RemoveAt(s, i)
    PROVE  /\ r \in Seq(LcKeys) /\ Len(r) = Len(s) - 1
           /\ \A j \in 1 .. Len(r) : r[j] = IF j < i THEN s[j] ELSE s[j + 1]
<1>n. PICK n \in Nat : n = Len(s) /\ i \in 1 .. n
  BY LenProperties
<1>1. PICK p : p = SubSeq(s, 1, i - 1)
  OBVIOUS
<1>2. PICK q : q = SubSeq(s, i + 1, n)
  OBVIOUS
<1>3. p \in Seq(LcKeys) /\ Len(p) = i - 1 /\ \A j \in 1 .. i - 1 : p[j] = s[j]
  BY <1>n, <1>1
<1>4. q \in Seq(LcKeys) /\ Len(q) = n - i /\ \A j \in 1 .. n - i : q[j] = s[i + j]
  BY <1>n, <1>2
<1>5. r = p \o q
  BY <1>n, <1>1, <1>2 DEF RemoveAt
<1>6. r \in Seq(LcKeys) /\ Len(r) = n - 1
  <2>1. r \in Seq(LcKeys)
    BY <1>3, <1>4, <1>5
  <2>2. Len(r) = Len(p) + Len(q)
    <3>1. p \in Seq(LcKeys) /\ q \in Seq(LcKeys)
      BY <1>3, <1>4
    <3> QED
      BY <1>5, <3>1, ConcatProperties
  <2> QED
    BY <1>n, <1>3, <1>4, <2>1, <2>2
<1>7. ASSUME NEW j \in 1 .. n - 1
      PROVE  r[j] = IF j < i THEN s[j] ELSE s[j + 1]
  <2>1. CASE j < i
    <3>1. j \in 1 .. i - 1 /\ j \in 1 .. Len(p)
      BY <1>n, <1>3, <2>1
    <3>2. r[j] = p[j]
      BY <1>3, <1>4, <1>5, <3>1
    <3> QED
      BY <1>3, <2>1, <3>1, <3>2
  <2>2. CASE ~(j < i)
    <3>1. j - (i - 1) \in 1 .. n - i /\ i + (j - (i - 1)) = j + 1
      BY <1>n, <2>2
    <3>2. r[j] = q[j - (i - 1)]
      BY <1>n, <1>3, <1>4, <1>5, <2>2, <3>1
    <3> QED
      BY <1>4, <2>2, <3>1, <3>2
  <2> QED
    BY <2>1, <2>2
<1> QED
  BY <1>n, <1>6, <1>7

(* r is the list without the node of the key k.                            *)
LcWithout(r, k) ==
    /\ r \in Seq(LcKeys) /\ Len(r) = Len(lcUsed) - 1 /\ Len(lcUsed) \in Nat
    /\ \A j \in 1 .. Len(r) : r[j] # k /\ r[j] \in LcCached
    /\ \A x \in LcCached : x # k => \E j \in 1 .. Len(r) : r[j] = x
    /\ LcOrder(r, lcTime, lcSince)

(* The node of a cached key leaves the list: the other nodes stay, in the  *)
(* same order.                                                             *)
LEMMA LcUnlinked ==
    ASSUME LcInv, NEW k \in LcCached, NEW r, r = Unlinked(k)
    PROVE  LcWithout(r, k)
<1>1. /\ lcUsed \in Seq(LcKeys) /\ LcMembers(lcUsed, lcTime) /\ LcOrder(lcUsed, lcTime, lcSince)
      /\ k \in LcKeys /\ lcTime[k] # -1
  BY DEF LcInv, LcCached
<1>n. PICK n \in Nat : n = Len(lcUsed) /\ DOMAIN lcUsed = 1 .. n
  BY <1>1, LenProperties
<1>2. PICK i \in 1 .. n : i = (CHOOSE j \in DOMAIN lcUsed : lcUsed[j] = k) /\ lcUsed[i] = k
  <2>1. \E i \in DOMAIN lcUsed : lcUsed[i] = k
    BY <1>1, <1>n DEF LcMembers
  <2>2. /\ (CHOOSE i \in DOMAIN lcUsed : lcUsed[i] = k) \in DOMAIN lcUsed
        /\ lcUsed[CHOOSE i \in DOMAIN lcUsed : lcUsed[i] = k] = k
    BY <2>1, Zenon
  <2> QED
    BY <1>n, <2>2
<1>3. r = RemoveAt(lcUsed, i)
  BY <1>2 DEF Unlinked
<1>4. /\ r \in Seq(LcKeys) /\ Len(r) = n - 1
      /\ \A j \in 1 .. n - 1 : r[j] = IF j < i THEN lcUsed[j] ELSE lcUsed[j + 1]
  <2>1. i \in 1 .. Len(lcUsed)
    BY <1>n
  <2>2. /\ r \in Seq(LcKeys) /\ Len(r) = Len(lcUsed) - 1
        /\ \A j \in 1 .. Len(r) : r[j] = IF j < i THEN lcUsed[j] ELSE lcUsed[j + 1]
    BY <1>1, <1>3, <2>1, LcRemoveAt
  <2> QED
    BY <1>n, <2>2
<1> DEFINE At(j) == IF j < i THEN j ELSE j + 1
<1>5. \A j \in 1 .. n - 1 : At(j) \in 1 .. n /\ At(j) # i /\ r[j] = lcUsed[At(j)]
  BY <1>4
<1>6. \A j, l \in 1 .. n - 1 : (j < l <=> At(j) < At(l)) /\ (At(j) = At(l) => j = l)
  OBVIOUS
<1>7. \A a \in 1 .. n : a # i => \E j \in 1 .. n - 1 : At(j) = a
  <2> TAKE a \in 1 .. n
  <2> HAVE a # i
  <2>1. CASE a < i
    BY <2>1
  <2>2. CASE a > i
    <3>1. a - 1 \in 1 .. n - 1 /\ At(a - 1) = a
      BY <2>2
    <3> QED
      BY <3>1
  <2> QED
    BY <2>1, <2>2
<1> HIDE DEF At
<1>8. \A a, c \in 1 .. n : /\ lcUsed[a] = lcUsed[c] => a = c
                           /\ a < c <=> <<lcUsed[a], lcUsed[c]>> \in lcSince
                           /\ a < c => lcTime[lcUsed[a]] >= lcTime[lcUsed[c]]
  BY <1>1, <1>n DEF LcOrder
<1>9. \A a \in 1 .. n : lcUsed[a] \in LcCached
  BY <1>1, <1>n DEF LcMembers, LcCached
<1>10. \A j \in 1 .. n - 1 : r[j] # k /\ r[j] \in LcCached
  BY <1>2, <1>5, <1>8, <1>9, ZenonT(60)
<1>11. \A x \in LcCached : x # k => \E j \in 1 .. n - 1 : r[j] = x
  <2> TAKE x \in LcCached
  <2> HAVE x # k
  <2>1. PICK a \in 1 .. n : lcUsed[a] = x
    BY <1>1, <1>n DEF LcMembers, LcCached
  <2> QED
    BY <1>2, <1>5, <1>7, <2>1
<1>12. \A j, l \in 1 .. n - 1 :
          /\ r[j] = r[l] => j = l
          /\ j < l <=> <<r[j], r[l]>> \in lcSince
          /\ j < l => lcTime[r[j]] >= lcTime[r[l]]
  <2> TAKE j, l \in 1 .. n - 1
  <2>1. PICK a \in 1 .. n, c \in 1 .. n : /\ r[j] = lcUsed[a] /\ r[l] = lcUsed[c]
                                          /\ (j < l <=> a < c) /\ (a = c => j = l)
    BY <1>5, <1>6
  <2> QED
    BY <1>8, <2>1
<1> QED
  BY <1>n, <1>4, <1>10, <1>11, <1>12 DEF LcOrder, LcWithout

(* q is the list r with the key k in front of it.                          *)
LcInFront(q, k, r, t) ==
    /\ q \in Seq(LcKeys) /\ Len(q) = Len(r) + 1 /\ q[1] = k
    /\ \A j \in 1 .. Len(r) : q[j + 1] = r[j]
    /\ LcOrder(q, t, UsedNow(k))

(* A key that is not in a list goes to its front: the list remains in the  *)
(* order of use.                                                           *)
LEMMA LcToFront ==
    ASSUME LcInv, NEW k \in LcKeys, NEW r \in Seq(LcKeys), \A j \in 1 .. Len(r) : r[j] # k,
           LcOrder(r, lcTime, lcSince), NEW q, q = <<k>> \o r, NEW t,
           t[k] = lcNow, \A j \in 1 .. Len(r) : t[r[j]] = lcTime[r[j]]
    PROVE  LcInFront(q, k, r, t)
<1>n. PICK n \in Nat : n = Len(r)
  BY LenProperties
<1>1. q \in Seq(LcKeys) /\ Len(q) = n + 1 /\ q[1] = k /\ \A j \in 1 .. n : q[j + 1] = r[j]
  BY <1>n
<1>2. \A i \in 1 .. n + 1 : i = 1 \/ i - 1 \in 1 .. n
  OBVIOUS
<1>3. \A i \in 1 .. n + 1 : q[i] = IF i = 1 THEN k ELSE r[i - 1]
  <2> TAKE i \in 1 .. n + 1
  <2>1. CASE i = 1
    BY <1>1, <2>1
  <2>2. CASE i # 1
    <3>1. PICK j \in 1 .. n : i = j + 1
      <4>1. i - 1 \in 1 .. n /\ i = (i - 1) + 1
        BY <2>2
      <4> QED
        BY <4>1
    <3>2. i - 1 = j
      BY <3>1
    <3> QED
      BY <1>1, <2>2, <3>1, <3>2
  <2> QED
    BY <2>1, <2>2
<1>4. \A j, l \in 1 .. n : /\ r[j] = r[l] => j = l
                           /\ j < l <=> <<r[j], r[l]>> \in lcSince
                           /\ j < l => lcTime[r[j]] >= lcTime[r[l]]
  BY <1>n DEF LcOrder
<1>5. \A j \in 1 .. n : /\ r[j] # k /\ r[j] \in LcKeys /\ t[r[j]] = lcTime[r[j]]
                        /\ lcTime[r[j]] <= lcNow /\ lcTime[r[j]] \in Int
  <2>1. \A j \in 1 .. n : r[j] \in LcKeys
    BY <1>n
  <2>2. \A x \in LcKeys : lcTime[x] <= lcNow /\ lcTime[x] \in Int
    BY DEF LcInv
  <2> QED
    BY <1>n, <2>1, <2>2
<1>6. \A x, y \in LcKeys : /\ x # k /\ y # k => (<<x, y>> \in UsedNow(k) <=> <<x, y>> \in lcSince)
                           /\ y # k => <<k, y>> \in UsedNow(k)
                           /\ <<x, k>> \notin UsedNow(k)
  BY DEF UsedNow
<1>7. ASSUME NEW i \in 1 .. n + 1, NEW j \in 1 .. n + 1
      PROVE  /\ q[i] = q[j] => i = j
             /\ i < j <=> <<q[i], q[j]>> \in UsedNow(k)
             /\ i < j => t[q[i]] >= t[q[j]]
  <2>0. lcNow \in Nat
    BY DEF LcInv
  <2>1. CASE i = 1 /\ j = 1
    BY <1>1, <1>6, <2>1
  <2>2. CASE i = 1 /\ j # 1
    <3>a. j - 1 \in 1 .. n /\ i < j
      BY <2>2
    <3>b. q[i] = k /\ q[j] = r[j - 1]
      BY <1>3, <2>2, Zenon
    <3>1. j - 1 \in 1 .. n /\ q[i] = k /\ q[j] = r[j - 1] /\ i < j
      BY <3>a, <3>b
    <3> QED
      BY <1>5, <1>6, <2>0, <3>1
  <2>3. CASE i # 1 /\ j = 1
    <3>a. i - 1 \in 1 .. n /\ ~(i < j)
      BY <2>3
    <3>b. q[j] = k /\ q[i] = r[i - 1]
      BY <1>3, <2>3, Zenon
    <3>1. i - 1 \in 1 .. n /\ q[j] = k /\ q[i] = r[i - 1] /\ ~(i < j)
      BY <3>a, <3>b
    <3> QED
      BY <1>5, <1>6, <3>1
  <2>4. CASE i # 1 /\ j # 1
    <3>1. PICK a \in 1 .. n, c \in 1 .. n : /\ q[i] = r[a] /\ q[j] = r[c] /\ a = i - 1 /\ c = j - 1
      BY <1>2, <1>3, <2>4
    <3>2. (i < j <=> a < c) /\ (a = c => i = j)
      BY <3>1
    <3>3. /\ r[a] = r[c] => a = c
          /\ a < c <=> <<r[a], r[c]>> \in lcSince
          /\ a < c => lcTime[r[a]] >= lcTime[r[c]]
      BY <1>4, Zenon
    <3>4. /\ <<r[a], r[c]>> \in UsedNow(k) <=> <<r[a], r[c]>> \in lcSince
          /\ t[r[a]] = lcTime[r[a]] /\ t[r[c]] = lcTime[r[c]]
      BY <1>5, <1>6, Zenon
    <3> QED
      BY <3>1, <3>2, <3>3, <3>4
  <2> QED
    BY <2>1, <2>2, <2>3, <2>4
<1> QED
  BY <1>n, <1>1, <1>7 DEF LcOrder, LcInFront

(* The cache counts as many elements as the list has nodes.                *)
LEMMA LcCount == LcInv => Cardinality(LcCached) = Len(lcUsed)
<1> HAVE LcInv
<1>n. PICK n \in Nat : n = Len(lcUsed) /\ DOMAIN lcUsed = 1 .. n
  BY LenProperties DEF LcInv
<1>1. \A i \in 1 .. n : lcUsed[i] \in LcCached
  BY <1>n DEF LcInv, LcMembers, LcCached
<1>2. \A i, j \in 1 .. n : lcUsed[i] = lcUsed[j] => i = j
  BY <1>n DEF LcInv, LcOrder
<1>3. \A x \in LcCached : \E i \in 1 .. n : lcUsed[i] = x
  BY <1>n DEF LcInv, LcMembers, LcCached
<1>4. lcUsed \in [1 .. n -> LcCached]
  <2>1. lcUsed = [i \in 1 .. n |-> lcUsed[i]]
    BY <1>n DEF LcInv
  <2> QED
    BY <1>1, <2>1
<1>5. ExistsBijection(1 .. n, LcCached)
  <2>1. lcUsed \in Bijection(1 .. n, LcCached)
    BY <1>2, <1>3, <1>4, Fun_IsBij
  <2> QED
    BY <2>1, Fun_ExistsBij
<1> QED
  BY <1>n, <1>5, FS_CountingElements

(* The cache starts empty.                                                 *)
LEMMA LcInitial == LcInit => LcInv
<1> HAVE LcInit
<1>1. /\ lcUsed = <<>> /\ lcTime = [k \in LcKeys |-> -1] /\ lcNow = 0
  BY DEF LcInit
<1>2. lcUsed \in Seq(LcKeys) /\ Len(lcUsed) = 0
  BY <1>1
<1> QED
  BY <1>1, <1>2, LcAssumption DEF LcInv, LcMembers, LcOrder

(* What the invariant says of the list is what its comment promises.       *)
LEMMA LcSafe == LcInv => ListIsUseOrder
<1> HAVE LcInv
<1>n. PICK n \in Nat : n = Len(lcUsed) /\ DOMAIN lcUsed = 1 .. n
  BY LenProperties DEF LcInv
<1>1. ToSet(lcUsed) = LcCached
  BY <1>n DEF LcInv, LcMembers, LcCached, ToSet
<1>2. \A i, j \in 1 .. n : /\ lcUsed[i] = lcUsed[j] => i = j
                           /\ i < j <=> <<lcUsed[i], lcUsed[j]>> \in lcSince
                           /\ i < j => lcTime[lcUsed[i]] >= lcTime[lcUsed[j]]
  BY <1>n DEF LcInv, LcOrder
<1>3. IsInjective(lcUsed)
  BY <1>n, <1>2 DEF IsInjective
<1> QED
  BY <1>n, <1>1, <1>2, <1>3 DEF ListIsUseOrder, LcInv

(* A use of a cached key moves its node to the front.                      *)
LEMMA LcTouchStep ==
    ASSUME LcInv, NEW k \in LcCached, Touch(k), lcNow' = lcNow PROVE LcInv'
<1>1. PICK r : r = Unlinked(k)
  OBVIOUS
<1>2. /\ r \in Seq(LcKeys) /\ Len(r) = Len(lcUsed) - 1 /\ Len(lcUsed) \in Nat
      /\ \A j \in 1 .. Len(r) : r[j] # k /\ r[j] \in LcCached
      /\ \A x \in LcCached : x # k => \E j \in 1 .. Len(r) : r[j] = x
      /\ LcOrder(r, lcTime, lcSince)
  <2>1. LcWithout(r, k)
    BY <1>1, LcUnlinked
  <2> QED
    BY <2>1, Zenon DEF LcWithout
<1>3. /\ lcUsed' = <<k>> \o r /\ lcSince' = UsedNow(k) /\ lcTime' = [lcTime EXCEPT ![k] = lcNow]
      /\ k \in LcKeys
  BY <1>1 DEF Touch, LcCached
<1>4. /\ lcTime \in [LcKeys -> Nat \union {-1}] /\ lcNow \in Nat
      /\ \A x \in LcKeys : lcTime[x] <= lcNow
      /\ Len(lcUsed) <= LcCapacity /\ LcCapacity \in Nat
  BY LcAssumption DEF LcInv
<1>5. \A x \in LcKeys : lcTime'[x] = IF x = k THEN lcNow ELSE lcTime[x]
  BY <1>3, <1>4
<1>6. lcTime' \in [LcKeys -> Nat \union {-1}] /\ \A x \in LcKeys : lcTime'[x] <= lcNow
  BY <1>3, <1>4
<1>7. lcTime'[k] = lcNow /\ \A j \in 1 .. Len(r) : lcTime'[r[j]] = lcTime[r[j]]
  BY <1>2, <1>3, <1>5 DEF LcCached
<1>8. /\ lcUsed' \in Seq(LcKeys) /\ Len(lcUsed') = Len(r) + 1 /\ lcUsed'[1] = k
      /\ \A j \in 1 .. Len(r) : lcUsed'[j + 1] = r[j]
      /\ LcOrder(lcUsed', lcTime', UsedNow(k))
  <2>1. PICK q, t : q = lcUsed' /\ t = lcTime'
    OBVIOUS
  <2>2. q = <<k>> \o r /\ t[k] = lcNow /\ \A j \in 1 .. Len(r) : t[r[j]] = lcTime[r[j]]
    BY <1>3, <1>7, <2>1
  <2>3. LcInFront(q, k, r, t)
    BY <1>2, <1>3, <2>2, LcToFront
  <2> QED
    BY <2>1, <2>3, Zenon DEF LcInFront
<1>n. PICK n \in Nat : n = Len(r) /\ Len(lcUsed') = n + 1 /\ Len(lcUsed) = n + 1
  BY <1>2, <1>8, LenProperties
<1>9. LcMembers(lcUsed', lcTime')
  <2>1. ASSUME NEW i \in 1 .. n + 1
        PROVE  lcUsed'[i] \in LcKeys /\ lcTime'[lcUsed'[i]] # -1
    <3>1. CASE i = 1
      BY <1>3, <1>4, <1>7, <1>8, <3>1
    <3>2. CASE i # 1
      <4>1. PICK j \in 1 .. n : i = j + 1
        <5>1. i - 1 \in 1 .. n /\ i = (i - 1) + 1
          BY <3>2
        <5> QED
          BY <5>1
      <4>2. lcUsed'[i] = r[j]
        BY <1>n, <1>8, <4>1
      <4> QED
        BY <1>2, <1>7, <1>n, <4>2 DEF LcCached
    <3> QED
      BY <3>1, <3>2
  <2>2. ASSUME NEW x \in LcKeys, lcTime'[x] # -1
        PROVE  \E i \in 1 .. n + 1 : lcUsed'[i] = x
    <3>1. CASE x = k
      <4>1. 1 \in 1 .. n + 1
        OBVIOUS
      <4> QED
        BY <1>8, <3>1, <4>1
    <3>2. CASE x # k
      <4>1. x \in LcCached
        BY <1>5, <2>2, <3>2 DEF LcCached
      <4>2. PICK j \in 1 .. n : r[j] = x
        BY <1>2, <1>n, <3>2, <4>1
      <4>3. j + 1 \in 1 .. n + 1 /\ lcUsed'[j + 1] = x
        BY <1>8, <1>n, <4>2
      <4> QED
        BY <4>3
    <3> QED
      BY <3>1, <3>2
  <2> QED
    BY <1>n, <2>1, <2>2 DEF LcMembers
<1>10. Len(lcUsed') <= LcCapacity
  BY <1>4, <1>n
<1> QED
  BY <1>3, <1>4, <1>6, <1>8, <1>9, <1>10 DEF LcInv

(* An expired element leaves the list and the map.                         *)
LEMMA LcExpireStep ==
    ASSUME LcInv, NEW k \in LcCached, lcUsed' = Unlinked(k),
           lcTime' = [lcTime EXCEPT ![k] = -1], lcSince' = lcSince, lcNow' = lcNow
    PROVE  LcInv'
<1>1. PICK r : r = Unlinked(k) /\ lcUsed' = r
  OBVIOUS
<1>2. /\ r \in Seq(LcKeys) /\ Len(r) = Len(lcUsed) - 1 /\ Len(lcUsed) \in Nat
      /\ \A j \in 1 .. Len(r) : r[j] # k /\ r[j] \in LcCached
      /\ \A x \in LcCached : x # k => \E j \in 1 .. Len(r) : r[j] = x
      /\ LcOrder(r, lcTime, lcSince)
  <2>1. LcWithout(r, k)
    BY <1>1, LcUnlinked
  <2> QED
    BY <2>1, Zenon DEF LcWithout
<1>4. /\ lcTime \in [LcKeys -> Nat \union {-1}] /\ lcNow \in Nat /\ k \in LcKeys
      /\ \A x \in LcKeys : lcTime[x] <= lcNow
      /\ Len(lcUsed) <= LcCapacity /\ LcCapacity \in Nat
  BY LcAssumption DEF LcInv, LcCached
<1>5. \A x \in LcKeys : lcTime'[x] = IF x = k THEN -1 ELSE lcTime[x]
  BY <1>4
<1>6. lcTime' \in [LcKeys -> Nat \union {-1}] /\ \A x \in LcKeys : lcTime'[x] <= lcNow
  BY <1>4
<1>7. \A j \in 1 .. Len(r) : r[j] \in LcKeys /\ lcTime'[r[j]] = lcTime[r[j]] /\ lcTime[r[j]] # -1
  BY <1>2, <1>5 DEF LcCached
<1>8. LcMembers(r, lcTime')
  <2>1. ASSUME NEW x \in LcKeys, lcTime'[x] # -1
        PROVE  \E i \in 1 .. Len(r) : r[i] = x
    <3>1. x # k /\ x \in LcCached
      BY <1>5, <2>1 DEF LcCached
    <3> QED
      BY <1>2, <3>1
  <2> QED
    BY <1>7, <2>1 DEF LcMembers
<1>9. LcOrder(r, lcTime', lcSince)
  BY <1>2, <1>7 DEF LcOrder
<1>10. Len(r) <= LcCapacity
  BY <1>2, <1>4
<1> QED
  BY <1>1, <1>2, <1>4, <1>6, <1>8, <1>9, <1>10 DEF LcInv

(* A new key evicts the last node of the list when the cache is full.      *)
LEMMA LcInsertStep ==
    ASSUME LcInv, NEW k \in LcKeys, k \notin LcCached, Emplace(k)
    PROVE  LcInv'
<1>0. /\ lcTime \in [LcKeys -> Nat \union {-1}] /\ lcNow \in Nat /\ lcUsed \in Seq(LcKeys)
      /\ \A x \in LcKeys : lcTime[x] <= lcNow
      /\ Len(lcUsed) <= LcCapacity /\ LcCapacity \in Nat \ {0}
      /\ LcMembers(lcUsed, lcTime) /\ LcOrder(lcUsed, lcTime, lcSince)
  BY LcAssumption DEF LcInv
<1>m. PICK m \in Nat : m = Len(lcUsed) /\ Cardinality(LcCached) = m
  BY <1>0, LcCount, LenProperties
<1>1. PICK full \in BOOLEAN : full <=> m = LcCapacity
  OBVIOUS
<1>2. PICK old : old = IF full THEN {Last(lcUsed)} ELSE {}
  OBVIOUS
<1>3. PICK r : r = IF full THEN Front(lcUsed) ELSE lcUsed
  OBVIOUS
<1>4. /\ lcTime' = [j \in LcKeys |-> IF j = k THEN lcNow ELSE IF j \in old THEN -1 ELSE lcTime[j]]
      /\ lcUsed' = <<k>> \o r /\ lcSince' = UsedNow(k) /\ lcNow' = lcNow
  <2> DEFINE f == Cardinality(LcCached) = LcCapacity
             o == IF f THEN {Last(lcUsed)} ELSE {}
  <2>1. /\ lcTime' = [j \in LcKeys |-> IF j = k THEN lcNow ELSE IF j \in o THEN -1 ELSE lcTime[j]]
        /\ lcUsed' = <<k>> \o (IF f THEN Front(lcUsed) ELSE lcUsed)
        /\ lcSince' = UsedNow(k) /\ lcNow' = lcNow
    BY Zenon DEF Emplace
  <2>2. o = old /\ (IF f THEN Front(lcUsed) ELSE lcUsed) = r
    BY <1>m, <1>1, <1>2, <1>3
  <2> HIDE DEF o
  <2> QED
    BY <2>1, <2>2
<1>5. PICK n \in Nat : /\ n = Len(r) /\ r \in Seq(LcKeys) /\ n < LcCapacity
                       /\ \A j \in 1 .. n : r[j] = lcUsed[j]
                       /\ n <= m
                       /\ \A j \in 1 .. m : j \in 1 .. n \/ lcUsed[j] \in old
                       /\ \A x \in old : x = lcUsed[n + 1] /\ n + 1 = m
  <2>1. CASE full
    <3>1. m = LcCapacity /\ r = SubSeq(lcUsed, 1, m - 1) /\ old = {lcUsed[m]} /\ m - 1 \in Nat
      BY <1>0, <1>m, <1>1, <1>2, <1>3, <2>1 DEF Front, Last
    <3>2. Len(r) = m - 1 /\ r \in Seq(LcKeys) /\ \A j \in 1 .. m - 1 : r[j] = lcUsed[j]
      <4>1. m - 1 \in 0 .. Len(lcUsed) /\ 1 \in 1 .. Len(lcUsed) + 1
        BY <1>m, <3>1
      <4>2. Len(r) = m - 1
        BY <1>0, <3>1, <4>1
      <4>3. \A j \in 1 .. m - 1 : r[j] = lcUsed[j]
        BY <1>0, <3>1, <4>1
      <4>4. r \in Seq(LcKeys)
        BY <1>0, <3>1, <4>1
      <4> QED
        BY <4>2, <4>3, <4>4
    <3>3. (m - 1) + 1 = m /\ m - 1 < LcCapacity /\ m - 1 <= m
      BY <3>1
    <3>4. \A j \in 1 .. m : j \in 1 .. m - 1 \/ j = m
      OBVIOUS
    <3> WITNESS m - 1 \in Nat
    <3> QED
      BY <3>1, <3>2, <3>3, <3>4
  <2>2. CASE ~full
    <3>1. r = lcUsed /\ old = {} /\ m < LcCapacity
      BY <1>0, <1>m, <1>1, <1>2, <1>3, <2>2
    <3> QED
      BY <1>0, <1>m, <3>1
  <2> QED
    BY <2>1, <2>2
<1>6. \A x \in LcKeys : lcTime'[x] = IF x = k THEN lcNow ELSE IF x \in old THEN -1 ELSE lcTime[x]
  BY <1>4
<1>7. lcTime' \in [LcKeys -> Nat \union {-1}] /\ \A x \in LcKeys : lcTime'[x] <= lcNow
  BY <1>0, <1>4
<1>8. \A a, c \in 1 .. m : /\ lcUsed[a] = lcUsed[c] => a = c
                           /\ a < c <=> <<lcUsed[a], lcUsed[c]>> \in lcSince
                           /\ a < c => lcTime[lcUsed[a]] >= lcTime[lcUsed[c]]
  BY <1>0, <1>m DEF LcOrder
<1>9. /\ \A j \in 1 .. m : lcUsed[j] \in LcKeys /\ lcTime[lcUsed[j]] # -1 /\ lcUsed[j] # k
      /\ \A x \in LcKeys : lcTime[x] # -1 => \E j \in 1 .. m : lcUsed[j] = x
  BY <1>0, <1>m DEF LcMembers, LcCached
<1>10. \A j \in 1 .. n : j \in 1 .. m
  BY <1>5
<1>11. \A j \in 1 .. n : r[j] \in LcKeys /\ r[j] # k /\ r[j] \notin old /\ lcTime[r[j]] # -1
  <2> TAKE j \in 1 .. n
  <2>1. j \in 1 .. m /\ r[j] = lcUsed[j]
    BY <1>5, <1>10
  <2>2. r[j] \notin old
    <3> SUFFICES ASSUME lcUsed[j] \in old PROVE FALSE
      BY <2>1
    <3>1. lcUsed[j] = lcUsed[n + 1] /\ n + 1 = m
      BY <1>5
    <3>2. n + 1 \in 1 .. m
      BY <3>1
    <3>3. j = n + 1
      BY <1>8, <2>1, <3>1, <3>2
    <3> QED
      BY <3>3
  <2> QED
    BY <1>9, <2>1, <2>2
<1>12. LcOrder(r, lcTime, lcSince)
  <2>1. \A a, c \in 1 .. n : /\ r[a] = r[c] => a = c
                             /\ a < c <=> <<r[a], r[c]>> \in lcSince
                             /\ a < c => lcTime[r[a]] >= lcTime[r[c]]
    <3> TAKE a, c \in 1 .. n
    <3>1. a \in 1 .. m /\ c \in 1 .. m /\ r[a] = lcUsed[a] /\ r[c] = lcUsed[c]
      BY <1>5, <1>10
    <3> QED
      BY <1>8, <3>1
  <2> QED
    BY <1>5, <2>1 DEF LcOrder
<1>13. lcTime'[k] = lcNow /\ \A j \in 1 .. n : lcTime'[r[j]] = lcTime[r[j]]
  BY <1>6, <1>11
<1>14. /\ lcUsed' \in Seq(LcKeys) /\ Len(lcUsed') = n + 1 /\ lcUsed'[1] = k
       /\ \A j \in 1 .. n : lcUsed'[j + 1] = r[j]
       /\ LcOrder(lcUsed', lcTime', UsedNow(k))
  <2>1. PICK q, t : q = lcUsed' /\ t = lcTime'
    OBVIOUS
  <2>2. /\ q = <<k>> \o r /\ t[k] = lcNow /\ \A j \in 1 .. Len(r) : t[r[j]] = lcTime[r[j]]
        /\ \A j \in 1 .. Len(r) : r[j] # k
        /\ r \in Seq(LcKeys)
    BY <1>4, <1>5, <1>11, <1>13, <2>1
  <2>3. LcInFront(q, k, r, t)
    BY <1>12, <2>2, LcToFront
  <2>4. /\ q \in Seq(LcKeys) /\ Len(q) = Len(r) + 1 /\ q[1] = k
        /\ \A j \in 1 .. Len(r) : q[j + 1] = r[j]
        /\ LcOrder(q, t, UsedNow(k))
    BY <2>3, Zenon DEF LcInFront
  <2> QED
    BY <1>5, <2>1, <2>4
<1>15. LcMembers(lcUsed', lcTime')
  <2>1. ASSUME NEW i \in 1 .. n + 1
        PROVE  lcUsed'[i] \in LcKeys /\ lcTime'[lcUsed'[i]] # -1
    <3>1. CASE i = 1
      BY <1>0, <1>13, <1>14, <3>1
    <3>2. CASE i # 1
      <4>1. PICK j \in 1 .. n : i = j + 1
        <5>1. i - 1 \in 1 .. n /\ i = (i - 1) + 1
          BY <3>2
        <5> QED
          BY <5>1
      <4>2. lcUsed'[i] = r[j]
        BY <1>14, <4>1
      <4> QED
        BY <1>11, <1>13, <4>2
    <3> QED
      BY <3>1, <3>2
  <2>2. ASSUME NEW x \in LcKeys, lcTime'[x] # -1
        PROVE  \E i \in 1 .. n + 1 : lcUsed'[i] = x
    <3>1. CASE x = k
      <4>1. 1 \in 1 .. n + 1
        OBVIOUS
      <4> QED
        BY <1>14, <3>1, <4>1
    <3>2. CASE x # k
      <4>1. x \notin old /\ lcTime[x] # -1
        BY <1>6, <2>2, <3>2
      <4>2. PICK j \in 1 .. m : lcUsed[j] = x
        BY <1>9, <4>1
      <4>3. j \in 1 .. n
        BY <1>5, <4>1, <4>2
      <4>4. j + 1 \in 1 .. n + 1 /\ lcUsed'[j + 1] = x
        BY <1>5, <1>14, <4>2, <4>3
      <4> QED
        BY <4>4
    <3> QED
      BY <3>1, <3>2
  <2> QED
    BY <1>14, <2>1, <2>2 DEF LcMembers
<1>16. Len(lcUsed') <= LcCapacity
  BY <1>0, <1>5, <1>14
<1> QED
  BY <1>0, <1>4, <1>7, <1>14, <1>15, <1>16 DEF LcInv

(* Every operation of the cache, and time, keep the list in order.         *)
LEMMA LcInvStep == ASSUME LcInv, [LcNext]_lcVars PROVE LcInv'
<1>1. CASE LcTick
  <2>1. lcNow' = lcNow + 1 /\ lcUsed' = lcUsed /\ lcTime' = lcTime /\ lcSince' = lcSince
    BY <1>1, Zenon DEF LcTick
  <2>2. lcNow \in Nat /\ \A k \in LcKeys : lcTime[k] <= lcNow /\ lcTime[k] \in Int
    BY DEF LcInv
  <2>3. lcNow' \in Nat /\ \A k \in LcKeys : lcTime[k] <= lcNow'
    BY <2>1, <2>2
  <2> QED
    BY <2>1, <2>3 DEF LcInv
<1>2. ASSUME NEW k \in LcKeys, LcFind(k)
      PROVE  LcInv'
  <2>1. k \in LcCached /\ lcNow' = lcNow
    BY <1>2 DEF LcFind
  <2>2. CASE LcExpired(k)
    <3>1. lcUsed' = Unlinked(k) /\ lcTime' = [lcTime EXCEPT ![k] = -1] /\ lcSince' = lcSince
      BY <1>2, <2>2, Zenon DEF LcFind
    <3> QED
      BY <2>1, <3>1, LcExpireStep
  <2>3. CASE ~LcExpired(k)
    <3>1. Touch(k)
      BY <1>2, <2>3, Zenon DEF LcFind
    <3> QED
      BY <2>1, <3>1, LcTouchStep
  <2> QED
    BY <2>2, <2>3
<1>3. ASSUME NEW k \in LcKeys, Emplace(k)
      PROVE  LcInv'
  <2>1. CASE k \in LcCached
    <3>1. Touch(k) /\ lcNow' = lcNow
      BY <1>3, <2>1, Zenon DEF Emplace
    <3> QED
      BY <2>1, <3>1, LcTouchStep
  <2>2. CASE k \notin LcCached
    BY <1>3, <2>2, LcInsertStep
  <2> QED
    BY <2>1, <2>2
<1>4. CASE UNCHANGED lcVars
  BY <1>4 DEF lcVars, LcInv, LcMembers, LcOrder
<1> QED
  BY <1>1, <1>2, <1>3, <1>4 DEF LcNext

-----------------------------------------------------------------------------
(* The containers neither lose, duplicate nor reorder what they hold,      *)
(* while the queues grow under their users, blocks come back to the        *)
(* allocators from any thread at any time and elements of the cache expire.*)
THEOREM ContainersCorrect == Spec => []ContainersSafe
<1> DEFINE Inv == WqInv /\ TqInv /\ PaInv /\ MpInv /\ LcInv
<1>1. Init => Inv
  BY WqInitial, TqInitial, PaInitial, MpInitial, LcInitial DEF Init
<1>2. Inv /\ [Next]_vars => Inv'
  <2> HAVE Inv /\ [Next]_vars
  <2>1. [WqNext]_wqVars
    BY DEF Next, vars, WqPart, TqPart, PaPart, CsPart, CpPart, EvPart, IsPart, SlPart, TpPart,
       MpPart, LcPart, UdPart
  <2>2. [TqNext]_tqVars
    BY DEF Next, vars, WqPart, TqPart, PaPart, CsPart, CpPart, EvPart, IsPart, SlPart, TpPart,
       MpPart, LcPart, UdPart
  <2>3. [PaNextStep]_paVars
    BY DEF Next, vars, WqPart, TqPart, PaPart, CsPart, CpPart, EvPart, IsPart, SlPart, TpPart,
       MpPart, LcPart, UdPart
  <2>4. [MpNextStep]_mpVars
    BY DEF Next, vars, WqPart, TqPart, PaPart, CsPart, CpPart, EvPart, IsPart, SlPart, TpPart,
       MpPart, LcPart, UdPart
  <2>5. [LcNext]_lcVars
    BY DEF Next, vars, WqPart, TqPart, PaPart, CsPart, CpPart, EvPart, IsPart, SlPart, TpPart,
       MpPart, LcPart, UdPart
  <2> QED
    BY <2>1, <2>2, <2>3, <2>4, <2>5, WqInvStep, TqInvStep, PaInvStep, MpInvStep, LcInvStep
<1>3. Inv => ContainersSafe
  BY WqSafe, TqSafe, PaSafe, MpSafe, LcSafe DEF ContainersSafe
<1> QED
  BY <1>1, <1>2, <1>3, PTL DEF Spec
=============================================================================
