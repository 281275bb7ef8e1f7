----------------------------- MODULE SignalSlot -----------------------------
\* samples/test-SignalSlot.cc under TS_Policy_Safe: signals and observers, each with
\* a list of connections behind a spin mutex, and a tracker through which others
\* visit it.  An observer has one slot, so its delegate key is the observer.
\* Members of a list differ in the peer only; a repeated connection is not told
\* apart.
EXTENDS Integers, FiniteSets

CONSTANTS SlSignals, SlObservers, SlThreads,
          SlCalls  \* bound: calls

ASSUME SlAssumption == SlSignals \cap SlObservers = {} /\ "none" \notin SlSignals \union SlObservers

VARIABLES slList,    \* connections of every signal and observer: the peers
          slLock,    \* the thread that holds the mutex in disconnect_all()
          slState,   \* "live", "closing" (tracker reset), "unlinking", "dead"
          slThread, slCalls,
          slMixed    \* history: calls overlapped, or one slot had two signals

slVars == <<slList, slLock, slState, slThread, slCalls, slMixed>>

SlNodes == SlSignals \union SlObservers
SlNone == "none"
\* op, the node called and its argument, connections to visit, the one visited
SlIdle == [op |-> "idle", at |-> "idle", node |-> SlNone, arg |-> SlNone, todo |-> {},
           visit |-> SlNone]

SlInit == /\ slList = [n \in SlNodes |-> {}] /\ slLock = [n \in SlNodes |-> SlNone]
          /\ slState = [n \in SlNodes |-> "live"] /\ slCalls = 0 /\ slMixed = FALSE
          /\ slThread = [t \in SlThreads |-> SlIdle]

SlGo(t, r) == slThread' = [slThread EXCEPT ![t] = r]
SlUses(t, n) == slThread[t].op # "idle" /\ n \in {slThread[t].node, slThread[t].arg}
SlFree(n) == slLock[n] = SlNone
SlVisited(n) == \E t \in SlThreads : slThread[t].visit = n

\* remove(): erases all connections with the delegate key, on an observer those to
\* other signals too.
Removed(n, o) == IF n \in SlSignals THEN slList[n] \ {o} ELSE {}

\* A call begins.  Nobody destroys what he or another thread is using by a call of
\* its own, and one disconnect_all() runs at a time.
SlBegin(t, op, n, arg) ==
    /\ slThread[t] = SlIdle /\ slCalls < SlCalls /\ slCalls' = slCalls + 1
    /\ \A m \in {n, arg} \ {SlNone} : slState[m] = "live"
    /\ op = "destroy" => \A u \in SlThreads : ~SlUses(u, n)
    /\ op = "disconnect_all" => \A u \in SlThreads : slThread[u].op # op
    /\ SlGo(t, [SlIdle EXCEPT !.op = op, !.at = op, !.node = n, !.arg = arg])
    /\ slState' = IF op = "destroy" THEN [slState EXCEPT ![n] = "closing"] ELSE slState
    /\ slMixed' = (slMixed \/ (op # "fire" /\ \E u \in SlThreads :
                                 slThread[u].op \notin {"idle", "fire"}))
    /\ UNCHANGED <<slList, slLock>>

\* fire(): the list is copied under the mutex.
CopySlots(t) ==
    LET me == slThread[t]
    IN  /\ me.at = "fire" /\ SlFree(me.node)
        /\ SlGo(t, [me EXCEPT !.at = "each", !.todo = slList[me.node]])
        /\ UNCHANGED <<slList, slLock, slState, slCalls, slMixed>>

\* Mutant: the observer is not looked at before its slot is called.
VisitAnyway(t, n) ==
    LET me == slThread[t]
    IN  /\ me.at \in {"each", "unlink"} /\ n \in me.todo
        /\ SlGo(t, [me EXCEPT !.todo = @ \ {n}, !.visit = n,
                     !.at = IF me.op = "fire" THEN "call" ELSE "remove"])
        /\ UNCHANGED <<slList, slLock, slState, slCalls, slMixed>>

\* fire() and nolock_disconnect_all(): the tracker of a peer is locked, or the
\* peer has been reset and is skipped.
Visit(t, n) ==
    LET me == slThread[t]
    IN  /\ me.at \in {"each", "unlink"} /\ n \in me.todo
        /\ SlGo(t, IF slState[n] # "live" THEN [me EXCEPT !.todo = @ \ {n}]
                   ELSE [me EXCEPT !.todo = @ \ {n}, !.visit = n,
                           !.at = IF me.op = "fire" THEN "call" ELSE "remove"])
        /\ UNCHANGED <<slList, slLock, slState, slCalls, slMixed>>

\* The slot returns, and the observer is released.
SlotReturns(t) ==
    LET me == slThread[t]
    IN  /\ me.at = "call"
        /\ SlGo(t, [me EXCEPT !.at = "each", !.visit = SlNone])
        /\ UNCHANGED <<slList, slLock, slState, slCalls, slMixed>>

FireEnds(t) == /\ slThread[t].at = "each" /\ slThread[t].todo = {}
               /\ SlGo(t, SlIdle)
               /\ UNCHANGED <<slList, slLock, slState, slCalls, slMixed>>

\* connect() and disconnect(): the list of the signal, then that of the observer.
LinkSignal(t) ==
    LET me == slThread[t]
    IN  /\ me.at \in {"connect", "disconnect"} /\ SlFree(me.node)
        /\ slList' = [slList EXCEPT ![me.node] =
                        IF me.op = "connect" THEN @ \union {me.arg} ELSE @ \ {me.arg}]
        /\ SlGo(t, [me EXCEPT !.at = "second"])
        /\ UNCHANGED <<slLock, slState, slCalls, slMixed>>
LinkObserver(t) ==
    LET me == slThread[t]
        peers == slList[me.arg]
    IN  /\ me.at = "second" /\ SlFree(me.arg)
        /\ slList' = [slList EXCEPT ![me.arg] =
                        IF me.op = "connect" THEN @ \union {me.node}
                        ELSE Removed(me.arg, me.arg)]
        /\ slMixed' = (slMixed \/ peers \ {me.node} # {})
        /\ SlGo(t, SlIdle)
        /\ UNCHANGED <<slLock, slState, slCalls>>

\* ~Observer(): before_disconnect_all() waits until nobody visits.
AwaitVisitors(t) ==
    LET me == slThread[t]
    IN  /\ me.at = "destroy" /\ ~SlVisited(me.node)
        /\ SlGo(t, [me EXCEPT !.at = "disconnect_all"])
        /\ slState' = [slState EXCEPT ![me.node] = "unlinking"]
        /\ UNCHANGED <<slList, slLock, slCalls, slMixed>>

\* disconnect_all(): the mutex is held to the end ...
LockAll(t) ==
    LET me == slThread[t]
    IN  /\ me.at = "disconnect_all" /\ SlFree(me.node)
        /\ slLock' = [slLock EXCEPT ![me.node] = t]
        /\ SlGo(t, [me EXCEPT !.at = "unlink", !.todo = slList[me.node]])
        /\ UNCHANGED <<slList, slState, slCalls, slMixed>>

\* ... while remove() takes the mutex of every peer, ...
RemoveFromPeer(t) ==
    LET me == slThread[t]
        o  == IF me.node \in SlObservers THEN me.node ELSE me.visit
    IN  /\ me.at = "remove" /\ SlFree(me.visit)
        /\ slList' = [slList EXCEPT ![me.visit] = Removed(me.visit, o)]
        /\ SlGo(t, [me EXCEPT !.at = "unlink", !.visit = SlNone])
        /\ UNCHANGED <<slLock, slState, slCalls, slMixed>>

\* ... and the list is cleared.
ClearAll(t) ==
    LET me == slThread[t]
    IN  /\ me.at = "unlink" /\ me.todo = {}
        /\ slList' = [slList EXCEPT ![me.node] = {}]
        /\ slLock' = [slLock EXCEPT ![me.node] = SlNone]
        /\ slState' = IF me.op = "destroy" THEN [slState EXCEPT ![me.node] = "dead"]
                      ELSE slState
        /\ SlGo(t, SlIdle)
        /\ UNCHANGED <<slCalls, slMixed>>

SlStep(t) ==
    \/ CopySlots(t) \/ \E n \in SlNodes : Visit(t, n)
    \/ SlotReturns(t) \/ FireEnds(t) \/ LinkSignal(t) \/ LinkObserver(t)
    \/ AwaitVisitors(t) \/ LockAll(t) \/ RemoveFromPeer(t) \/ ClearAll(t)

SlNext == \E t \in SlThreads :
    \/ SlStep(t)
    \/ \E s \in SlSignals : \/ SlBegin(t, "fire", s, SlNone)
         \/ \E o \in SlObservers : \/ SlBegin(t, "connect", s, o)
                                   \/ SlBegin(t, "disconnect", s, o)
    \/ \E n \in SlNodes : \/ SlBegin(t, "disconnect_all", n, SlNone)
                          \/ SlBegin(t, "destroy", n, SlNone)

----------------------------------------------------------------------------
\* No slot is called on, and no list is changed of, an object whose destructor has
\* passed the wait for visitors, although signals may keep connections to it.
VisitedIsAlive ==
    \A t \in SlThreads : slThread[t].visit # SlNone =>
                           slState[slThread[t].visit] \in {"live", "closing"}

\* Between calls the lists are symmetric, unless calls that change them have
\* overlapped or a slot was connected to two signals.
ListsSymmetric ==
    ~slMixed /\ (\A t \in SlThreads : slThread[t].op \in {"idle", "fire"}) =>
      \A s \in SlSignals, o \in SlObservers : o \in slList[s] <=> s \in slList[o]

\* Reached again and again: every call has ended.  Destructors that run at the same
\* time, or during a disconnect_all(), do not wait for each other.
CallsEnd == \A t \in SlThreads : slThread[t].op = "idle"
=============================================================================
