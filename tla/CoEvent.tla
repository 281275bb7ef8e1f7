------------------------------ MODULE CoEvent ------------------------------
\* event of samples/io_service.h: set() adds to a counter and wakes the one
\* coroutine that awaits the event; co_await takes the whole counter.  The
\* coroutine counts as suspended from the store of M_handle_ctl on, although
\* the thread that suspends it is still inside await_suspend(): it can be
\* resumed, and suspended again by another thread, before the first one is
\* through.
EXTENDS Integers

CONSTANTS EvThreads,  \* the threads that can be inside await_suspend()
          EvAmounts,  \* what set() is called with
          EvSets      \* bound: number of calls of set()

VARIABLES evCount,    \* M_event_count
          evCtl,      \* M_handle_ctl
          evCo,       \* the coroutine: "run", "suspend", "asleep"
          evThread,   \* step of every thread inside await_suspend()
          evSetter,   \* "idle", or "wake" between the two steps of set()
          evCalls, evTotal, evGot  \* history: calls of set(), set, taken

evVars == <<evCount, evCtl, evCo, evThread, evSetter, evCalls, evTotal, evGot>>

EvInit ==
    /\ evCount = 0 /\ evCtl = FALSE /\ evCo = "run" /\ evSetter = "idle"
    /\ evThread = [t \in EvThreads |-> "out"]
    /\ evCalls = 0 /\ evTotal = 0 /\ evGot = 0

EvResume == evCo' = IF evCo = "asleep" THEN "resumed" ELSE "broken"

\* set(): fetch_add ...
EventAdd(n) ==
    /\ evSetter = "idle" /\ evCalls < EvSets
    /\ evCount' = evCount + n /\ evTotal' = evTotal + n
    /\ evCalls' = evCalls + 1 /\ evSetter' = "wake"
    /\ UNCHANGED <<evCtl, evCo, evThread, evGot>>

\* ... and compare_exchange of M_handle_ctl: schedule the waiting coroutine.
EventWake ==
    /\ evSetter = "wake" /\ evSetter' = "idle"
    /\ IF evCtl THEN evCtl' = FALSE /\ EvResume ELSE UNCHANGED <<evCtl, evCo>>
    /\ UNCHANGED <<evCount, evThread, evCalls, evTotal, evGot>>

\* await_ready(): go on if the counter is not zero.
EventReady ==
    /\ evCo = "run"
    /\ evCo' = IF evCount > 0 THEN "resumed" ELSE "suspend"
    /\ UNCHANGED <<evCount, evCtl, evThread, evSetter, evCalls, evTotal, evGot>>

\* Mutant: the counter is not looked at again.
EventStoreOnly(t) ==
    /\ evCo = "suspend" /\ evThread[t] = "out"
    /\ evCtl' = TRUE /\ evCo' = "asleep"
    /\ UNCHANGED <<evCount, evThread, evSetter, evCalls, evTotal, evGot>>

\* await_suspend(): M_handle and M_handle_ctl are stored.
EventStore(t) ==
    /\ evCo = "suspend" /\ evThread[t] = "out"
    /\ evCtl' = TRUE /\ evCo' = "asleep"
    /\ evThread' = [evThread EXCEPT ![t] = "check"]
    /\ UNCHANGED <<evCount, evSetter, evCalls, evTotal, evGot>>

\* await_suspend(): the counter is looked at again.
EventCheck(t) ==
    /\ evThread[t] = "check"
    /\ evThread' = [evThread EXCEPT ![t] = IF evCount > 0 THEN "claim" ELSE "out"]
    /\ UNCHANGED <<evCount, evCtl, evCo, evSetter, evCalls, evTotal, evGot>>

\* await_suspend(): M_handle_ctl is exchanged with false; who had it resumes.
EventClaim(t) ==
    /\ evThread[t] = "claim"
    /\ evThread' = [evThread EXCEPT ![t] = "out"]
    /\ evCtl' = FALSE
    /\ IF evCtl THEN EvResume ELSE UNCHANGED evCo
    /\ UNCHANGED <<evCount, evSetter, evCalls, evTotal, evGot>>

\* await_resume(): the counter is exchanged with zero.
EventTake ==
    /\ evCo = "resumed"
    /\ evGot' = evGot + evCount /\ evCount' = 0 /\ evCo' = "run"
    /\ UNCHANGED <<evCtl, evThread, evSetter, evCalls, evTotal>>

EvStep == \/ EventWake \/ EventReady \/ EventTake
          \/ \E t \in EvThreads : EventStore(t) \/ EventCheck(t) \/ EventClaim(t)
EvNext == EvStep \/ \E n \in EvAmounts : EventAdd(n)

\* The workers and the thread inside set() keep running.
EvFairness == WF_evVars(EvStep)

EvSpec == EvInit /\ [][EvNext]_evVars /\ EvFairness

----------------------------------------------------------------------------
\* The awaiting coroutine is resumed only while it is suspended: the thread
\* that suspends it, the setter, and a thread still inside an earlier
\* await_suspend() never resume it twice.
EventResumesOnce == evCo # "broken"

\* Reached again and again, so no event is lost: everything set so far was taken.
EventsArrive == evGot = evTotal
=============================================================================
