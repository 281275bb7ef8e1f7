----------------------------- MODULE CoPromise -----------------------------
\* The coroutine types of samples/io_service.h: async<>, launch<>, task<> and
\* generator<>.  A body (the coroutine) and a parent (the coroutine or thread
\* that holds the object and awaits it) run on different workers and meet in
\* flags that each side exchanges with true: the second to arrive acts.
\*    M_handle_ctl         who continues the parent,
\*    M_cancel_handle_ctl  who continues a coroutine awaiting cancel(),
\*    M_destroy_ctl        who destroys the coroutine frame.
EXTENDS Integers

VARIABLES cpKind,       \* the coroutine type, "none" before the call
          cpSame,       \* the parent's scheduler is the body's scheduler
          cpBody,       \* where the body is
          cpParent,     \* where the parent is
          cpCancel,     \* where the coroutine that awaits cancel() is
          cpSet,        \* the flags that were exchanged with true
          cpStored,     \* the continuations that were stored in the promise
          cpReturned,   \* how the body ended: "no" (not yet), "value" or "threw"
          cpDestroyed   \* how often the frame was destroyed

cpVars == <<cpKind, cpSame, cpBody, cpParent, cpCancel, cpSet, cpStored,
            cpReturned, cpDestroyed>>

\* The types, by what sets them apart: whether the body is scheduled and runs
\* beside the parent or is entered in place of it, whether cancel() can be
\* awaited, and whether the parent waits for a std::future.
AsyncType == [beside |-> TRUE, cancel |-> TRUE, future |-> FALSE]
LaunchType == [beside |-> TRUE, cancel |-> FALSE, future |-> TRUE]
TaskType == [beside |-> FALSE, cancel |-> TRUE, future |-> FALSE]
GeneratorType == [beside |-> FALSE, cancel |-> FALSE, future |-> FALSE]

CpType == [async |-> AsyncType, launch |-> LaunchType, task |-> TaskType,
           generator |-> GeneratorType]
CpConcurrent == {k \in DOMAIN CpType : CpType[k].beside}
CpTransfer == {k \in DOMAIN CpType : ~CpType[k].beside}
CpCancelable == {k \in DOMAIN CpType : CpType[k].cancel}

\* Resuming a coroutine that is not suspended, or whose handle was not stored.
Resume(c, who) == IF c = "asleep" /\ who \in cpStored THEN "resumed" ELSE "broken"

\* How often the side that exchanges the flag now has to act.
Second(flag) == IF flag \in cpSet THEN 1 ELSE 0

CpInit ==
    /\ cpKind = "none" /\ cpSame = TRUE /\ cpBody = "new" /\ cpParent = "start"
    /\ cpCancel = "start" /\ cpSet = {} /\ cpStored = {} /\ cpReturned = "no"
    /\ cpDestroyed = 0

\* async<>: the call, get_return_object(), initial_suspend(), and via() or
\* schedule_on(), which schedule the body once.
CreateAsync(same) ==
    /\ cpKind = "none"
    /\ cpKind' = "async" /\ cpSame' = same /\ cpBody' = "running"
    /\ cpParent' = "holds"
    /\ UNCHANGED <<cpCancel, cpSet, cpStored, cpReturned, cpDestroyed>>

\* launch<>: the call and schedule_on(); the parent is not a coroutine.
CreateLaunch ==
    /\ cpKind = "none"
    /\ cpKind' = "launch" /\ cpBody' = "running" /\ cpParent' = "holds"
    /\ UNCHANGED <<cpSame, cpCancel, cpSet, cpStored, cpReturned, cpDestroyed>>

\* task<> and generator<>: the call; the body does not start yet.
CreateTransfer(kind) ==
    /\ cpKind = "none"
    /\ cpKind' = kind /\ cpParent' = "holds"
    /\ UNCHANGED <<cpSame, cpBody, cpCancel, cpSet, cpStored, cpReturned,
                   cpDestroyed>>

\* Mutant: the flag is exchanged before the continuation is stored.
AsyncReadyStoresLate ==
    /\ cpKind = "async" /\ cpParent = "holds"
    /\ cpParent' = IF "handle" \in cpSet THEN "resumed" ELSE "exchange"
    /\ UNCHANGED <<cpKind, cpSame, cpBody, cpCancel, cpSet, cpStored, cpReturned,
                   cpDestroyed>>

\* async_awaiter::await_ready()
AsyncReady ==
    /\ cpKind = "async" /\ cpParent = "holds"
    /\ cpParent' = IF "handle" \in cpSet THEN "resumed" ELSE "suspend"
    /\ UNCHANGED <<cpKind, cpSame, cpBody, cpCancel, cpSet, cpStored, cpReturned,
                   cpDestroyed>>

\* async_awaiter::await_suspend(): M_continuation is stored ...
AsyncStore ==
    /\ cpParent = "suspend"
    /\ cpStored' = cpStored \cup {"parent"} /\ cpParent' = "exchange"
    /\ UNCHANGED <<cpKind, cpSame, cpBody, cpCancel, cpSet, cpReturned,
                   cpDestroyed>>

\* ... and M_handle_ctl exchanged: the body was first and the parent goes on, or
\* the parent is suspended and its worker takes the next coroutine.
AsyncExchange ==
    /\ cpParent = "exchange"
    /\ cpSet' = cpSet \cup {"handle"}
    /\ cpParent' = IF "handle" \in cpSet THEN "resumed" ELSE "asleep"
    /\ UNCHANGED <<cpKind, cpSame, cpBody, cpCancel, cpStored, cpReturned,
                   cpDestroyed>>

\* launch<>: operator Return() and join() wait for the future ...
LaunchJoin ==
    /\ cpKind = "launch" /\ cpParent = "holds"
    /\ cpParent' = "joins"
    /\ UNCHANGED <<cpKind, cpSame, cpBody, cpCancel, cpSet, cpStored, cpReturned,
                   cpDestroyed>>

\* ... that return_value() sets.
LaunchGet ==
    /\ cpParent = "joins" /\ cpReturned = "value"
    /\ cpParent' = "resumed"
    /\ UNCHANGED <<cpKind, cpSame, cpBody, cpCancel, cpSet, cpStored, cpReturned,
                   cpDestroyed>>

\* task_awaiter and generator_future await_suspend(): the handle is stored and
\* control passes to the body.
TransferIn ==
    /\ cpKind \in CpTransfer
    /\ \/ cpParent = "holds"
       \/ cpParent = "resumed" /\ cpBody = "yielded"
    /\ cpStored' = cpStored \cup {"parent"} /\ cpParent' = "asleep"
    /\ cpBody' = "running"
    /\ UNCHANGED <<cpKind, cpSame, cpCancel, cpSet, cpReturned, cpDestroyed>>

\* generator<>: yield_value() passes control to the continuation.
Yield ==
    /\ cpKind = "generator" /\ cpBody = "running"
    /\ cpBody' = "yielded" /\ cpParent' = Resume(cpParent, "parent")
    /\ UNCHANGED <<cpKind, cpSame, cpCancel, cpSet, cpStored, cpReturned,
                   cpDestroyed>>

\* The body ends, and final_suspend() follows.
BodyEnds(how) ==
    /\ cpBody = "running"
    /\ cpReturned' = how
    /\ cpBody' = IF CpType[cpKind].future THEN "destroy" ELSE "cancel"
    /\ UNCHANGED <<cpKind, cpSame, cpParent, cpCancel, cpSet, cpStored,
                   cpDestroyed>>

\* return_value() or return_void()
Return == BodyEnds("value")

\* unhandled_exception() does nothing: the body ends and no value is set.
Throw == BodyEnds("threw")

\* The final awaiters of async, task and generator: M_cancel_handle_ctl is
\* exchanged; a coroutine that awaits cancel() is scheduled.
Cancelled ==
    /\ cpSet' = cpSet \cup {"cancel"}
    /\ cpCancel' = IF "cancel" \in cpSet THEN Resume(cpCancel, "cancel")
                   ELSE cpCancel

\* async_final_suspend, first part.
FinalCancel ==
    /\ cpBody = "cancel" /\ cpKind \notin CpTransfer
    /\ Cancelled
    /\ cpBody' = "handle"
    /\ UNCHANGED <<cpKind, cpSame, cpParent, cpStored, cpReturned, cpDestroyed>>

\* task_final_awaiter and generator_final_suspend: control passes to the
\* continuation.
FinalTransfer ==
    /\ cpBody = "cancel" /\ cpKind \in CpTransfer
    /\ Cancelled
    /\ cpBody' = "done" /\ cpParent' = Resume(cpParent, "parent")
    /\ UNCHANGED <<cpKind, cpSame, cpStored, cpReturned, cpDestroyed>>

\* async_final_suspend: M_handle_ctl is exchanged.  A parent on another
\* scheduler is scheduled at once, one on the same scheduler is continued when
\* await_suspend() returns.
FinalHandle ==
    /\ cpBody = "handle"
    /\ cpSet' = cpSet \cup {"handle"}
    /\ IF "handle" \in cpSet /\ ~cpSame
       THEN cpParent' = Resume(cpParent, "parent") ELSE UNCHANGED cpParent
    /\ cpBody' = IF "handle" \in cpSet /\ cpSame THEN "destroyThenResume"
                 ELSE "destroy"
    /\ UNCHANGED <<cpKind, cpSame, cpCancel, cpStored, cpReturned, cpDestroyed>>

\* async_final_suspend and launch_final_awaiter: M_destroy_ctl is exchanged; the
\* frame is destroyed if the object is already gone.
FinalDestroy ==
    /\ cpBody \in {"destroy", "destroyThenResume"}
    /\ cpSet' = cpSet \cup {"destroy"}
    /\ cpDestroyed' = cpDestroyed + Second("destroy")
    /\ cpParent' = IF cpBody = "destroy" THEN cpParent
                   ELSE Resume(cpParent, "parent")
    /\ cpBody' = "done"
    /\ UNCHANGED <<cpKind, cpSame, cpCancel, cpStored, cpReturned>>

\* ~async() and ~launch(), after the value was used or without awaiting it; the
\* frame is destroyed if the body is already through.
DestroyObject ==
    /\ cpKind \in CpConcurrent /\ cpParent \in {"holds", "resumed"}
    /\ cpCancel \in {"start", "resumed"}
    /\ cpSet' = cpSet \cup {"destroy"}
    /\ cpDestroyed' = cpDestroyed + Second("destroy")
    /\ cpParent' = "gone"
    /\ UNCHANGED <<cpKind, cpSame, cpBody, cpCancel, cpStored, cpReturned>>

\* cancel(): request_stop(), and cancel_awaiter::await_ready().
CancelReady ==
    /\ cpKind \in CpCancelable /\ cpCancel = "start"
    /\ cpParent \notin {"start", "gone"}
    /\ cpCancel' = IF "cancel" \in cpSet THEN "resumed" ELSE "suspend"
    /\ UNCHANGED <<cpKind, cpSame, cpBody, cpParent, cpSet, cpStored, cpReturned,
                   cpDestroyed>>

\* cancel_awaiter::await_suspend(): M_cancel_continuation is stored ...
CancelStore ==
    /\ cpCancel = "suspend"
    /\ cpStored' = cpStored \cup {"cancel"} /\ cpCancel' = "exchange"
    /\ UNCHANGED <<cpKind, cpSame, cpBody, cpParent, cpSet, cpReturned,
                   cpDestroyed>>

\* ... and M_cancel_handle_ctl exchanged.
CancelExchange ==
    /\ cpCancel = "exchange"
    /\ cpSet' = cpSet \cup {"cancel"}
    /\ cpCancel' = IF "cancel" \in cpSet THEN "resumed" ELSE "asleep"
    /\ UNCHANGED <<cpKind, cpSame, cpBody, cpParent, cpStored, cpReturned,
                   cpDestroyed>>

CpCreate ==
    \/ \E same \in BOOLEAN : CreateAsync(same)
    \/ CreateLaunch
    \/ \E kind \in CpTransfer : CreateTransfer(kind)
CpBodyStep == FinalCancel \/ FinalTransfer \/ FinalHandle \/ FinalDestroy
CpParentStep == AsyncReady \/ AsyncStore \/ AsyncExchange \/ LaunchJoin \/ LaunchGet
                \/ TransferIn
CpCancelStep == CancelStore \/ CancelExchange

CpNext ==
    \/ CpCreate \/ Return \/ Throw \/ CpBodyStep \/ Yield \/ CpParentStep
    \/ DestroyObject
    \/ CancelReady \/ CpCancelStep

\* A running coroutine returns or throws in the end, the workers keep running, and the
\* parent gives up its object in the end; nobody has to call or to cancel.  A
\* generator may yield before it returns, hence strong fairness of its end.
CpFairness ==
    /\ WF_cpVars(CpBodyStep) /\ SF_cpVars(Return \/ Throw) /\ WF_cpVars(CpParentStep)
    /\ WF_cpVars(CpCancelStep) /\ WF_cpVars(DestroyObject)

CpSpec == CpInit /\ [][CpNext]_cpVars /\ CpFairness

----------------------------------------------------------------------------
\* A suspended coroutine is resumed once, through a handle that was stored
\* before: neither the parent nor the coroutine awaiting cancel() is resumed
\* while it runs, whichever side exchanges the flag first.
ResumedWhenSuspended == cpParent # "broken" /\ cpCancel # "broken"

\* A parent that awaits the result goes on only after the body ended or, for a
\* generator, yielded.
ResultBeforeResume ==
    cpParent = "resumed" => cpReturned # "no" \/ cpBody = "yielded"

\* The frame of an async or launch coroutine is destroyed once, and only when
\* neither the final awaiter nor the holder of the object can still use it.
FrameOutlivesItsUsers ==
    /\ cpDestroyed \leq 1
    /\ cpDestroyed = 1 => /\ cpBody = "done" /\ cpParent = "gone"
                          /\ cpCancel \in {"start", "resumed"}

\* Reached in the end: the call is settled, that is, the parent got through, a
\* coroutine that awaits cancel() was resumed, and the frame of an async or launch
\* coroutine was destroyed.  The exception is join() on a launch body that threw:
\* nobody sets the future.
CallSettles ==
    \/ cpKind = "none"
    \/ cpParent = "joins" /\ cpReturned = "threw"
    \/ /\ cpBody = "done" /\ cpCancel \in {"start", "resumed"}
       /\ cpKind \in CpConcurrent => cpDestroyed = 1
       /\ cpKind \in CpTransfer => cpParent = "resumed"
=============================================================================
