----------------------------- MODULE TimerWheel -----------------------------
(***************************************************************************)
(* godby/TimerWheel.h: the hierarchical timer wheel.                       *)
(*                                                                         *)
(* Level l has NumSlots slots, each for Span[l] ticks; a tick is a         *)
(* number of Levels digits in base NumSlots and wraps around (uint64_t:    *)
(* 8 digits in base 256).  advance() calls process_current_slot() tick by  *)
(* tick; that first advances the next level when its own slot is 0, then   *)
(* drains the slot.  Executing an event runs the user's callback, which    *)
(* may schedule and cancel events.  advance(delta, max_execute) stops when *)
(* max_execute events have run and remembers the ticks it still owes.      *)
(***************************************************************************)
EXTENDS Integers, Sequences, SequencesExt, FiniteSetsExt

CONSTANTS Events,
          NumSlots,     \* NUM_SLOTS, a power of two
          Levels,       \* LEVEL_NUM
          Deltas,       \* the delays schedule() is called with
          Ranges,       \* the <<start, end>> of schedule_in_range()
          Advances,     \* the deltas of advance()
          Budgets       \* the values of max_execute

MaxLevel == Levels - 1

(* The ticks of a slot of level l: 1 << (BIT_WIDTH * l).                   *)
Span[l \in 0..Levels] == IF l = 0 THEN 1 ELSE NumSlots * Span[l - 1]
Ticks == Span[Levels]           \* the range of TickType

ASSUME WheelAssumption ==
    /\ NumSlots \in Nat \ {0, 1} /\ Levels \in Nat \ {0}
    /\ Deltas \subseteq 1..(Ticks - 1)
    /\ Ranges \subseteq {r \in (0..(Ticks - 1)) \X (0..(Ticks - 1)) : r[1] < r[2]}
    /\ Advances \subseteq 0..(Ticks - 1)
    /\ Budgets \subseteq Nat \ {0}

VARIABLES now,      \* M_now
          pending,  \* M_ticks_pending
          slots,    \* M_slots: the events of each slot, head first
          at,       \* M_scheduled_at of each event
          call      \* the advance() in progress

vars == <<now, pending, slots, at, call>>

(* Of an advance() in progress: the phase, the level it works at, the      *)
(* ticks left, whether it takes up an unfinished one, each level's         *)
(* max_execute and the event whose callback runs.                          *)
Quiet == [phase |-> "idle", level |-> 0, delta |-> 0, resumed |-> FALSE,
          budget |-> [l \in 0..MaxLevel |-> 0]]

Init ==
    /\ \E start \in 0..(Ticks - 1) :
          now = [l \in 0..MaxLevel |-> start \div Span[l]]
    /\ pending = 0
    /\ slots = [l \in 0..MaxLevel |-> [i \in 0..(NumSlots - 1) |-> <<>>]]
    /\ at = [e \in Events |-> 0]
    /\ call = Quiet

-----------------------------------------------------------------------------
Index(tick) == tick % NumSlots

Linked(l, i) == Range(slots[l][i])
Scheduled(e) == \E l \in 0..MaxLevel, i \in 0..(NumSlots - 1) : e \in Linked(l, i)

Unlink(S, e) == [l \in 0..MaxLevel |-> [i \in 0..(NumSlots - 1) |-> RemoveFirst(S[l][i], e)]]

(* relink(): an event that is already in the slot stays where it is.       *)
Relink(S, e, l, i) ==
    IF e \in Range(S[l][i]) THEN S
    ELSE [Unlink(S, e) EXCEPT ![l][i] = <<e>> \o @]

(* schedule(): what is left of the delay after l rounds of the loop, in    *)
(* slots of level l.                                                       *)
Left(n, delta) ==
    LET left[l \in 0..Levels] ==
          IF l = 0 THEN delta
          ELSE ((left[l - 1] + Index(n[l - 1])) % Ticks) \div NumSlots
    IN left

(* Mutant: a delay of exactly NumSlots stays on its level.                 *)
PlaceOffByOne(n, delta) ==
    LET left == Left(n, delta)
        level == Min({l \in 0..Levels : left[l] <= NumSlots \/ l = Levels})
    IN <<level, left[level]>>

(* schedule(): the level, and how many slots ahead of its hand.            *)
Place(n, delta) ==
    LET left == Left(n, delta)
        level == Min({l \in 0..Levels : left[l] < NumSlots \/ l = Levels})
    IN <<level, left[level]>>

Link(S, e, delta) ==
    LET p == Place(now, delta)
    IN Relink(S, e, p[1], Index(now[p[1]] + p[2]))

Outside == call.phase \in {"idle", "callback"}

Schedule(e, delta) ==
    /\ Outside
    /\ Place(now, delta)[1] < Levels   \* otherwise it indexes beyond M_now
    /\ at' = [at EXCEPT ![e] = (now[0] + delta) % Ticks]
    /\ slots' = Link(slots, e, delta)
    /\ UNCHANGED <<now, pending, call>>

(* cancel(), and the destructor of an event.                               *)
Cancel(e) ==
    /\ Outside
    /\ Scheduled(e)
    /\ slots' = Unlink(slots, e)
    /\ UNCHANGED <<now, pending, at, call>>

Delay(e) == (at[e] - now[0]) % Ticks

(* Mutant: end is rounded up, not down.                                    *)
RangeDeltaUp(start, end) ==
    LET k == Min({j \in 0..Levels : start \div Span[j] = end \div Span[j]})
        low == Span[k - 1]
    IN (((end % Span[MaxLevel]) + low - 1) \div low) * low

(* schedule_in_range(): end without the digits below the first in which    *)
(* start and end differ, and without the most significant digit.           *)
RangeDelta(start, end) ==
    LET k == Min({j \in 0..Levels : start \div Span[j] = end \div Span[j]})
        low == Span[k - 1]
    IN ((end % Span[MaxLevel]) \div low) * low

ScheduleInRange(e, start, end) ==
    /\ ~(Scheduled(e) /\ Delay(e) \in start..end)
    /\ RangeDelta(start, end) > 0
    /\ Schedule(e, RangeDelta(start, end))

-----------------------------------------------------------------------------
(* advance(): take up the slot at which the last call stopped, or move on. *)
Advance(delta, max) ==
    /\ call.phase = "idle"
    /\ pending # 0 \/ delta > 0
    /\ pending + delta < Ticks
    /\ call' = [Quiet EXCEPT !.phase = "enter", !.resumed = (pending # 0),
                             !.delta = IF pending # 0 THEN 0 ELSE delta - 1,
                             !.budget[0] = max]
    /\ now' = IF pending # 0 THEN now ELSE [now EXCEPT ![0] = (@ + 1) % Ticks]
    /\ pending' = IF pending # 0 THEN pending + delta ELSE 0
    /\ UNCHANGED <<slots, at>>

(* The hand of level l is kept modulo HandRange(l); the code uses no more  *)
(* of M_now[l] than its slot index.                                        *)
HandRange(l) == Span[Levels - l]

(* Mutant: a resumed advance() moves the hand of the next level again.     *)
EnterTwice ==
    /\ call.phase = "enter"
    /\ IF Index(now[call.level]) = 0 /\ call.level < MaxLevel
       THEN /\ call' = [call EXCEPT !.level = @ + 1,
                                    !.budget[call.level + 1] = call.budget[call.level]]
            /\ now' = [now EXCEPT ![call.level + 1] = (@ + 1) % HandRange(call.level + 1)]
       ELSE /\ call' = [call EXCEPT !.phase = "drain"]
            /\ UNCHANGED now
    /\ UNCHANGED <<pending, slots, at>>

(* process_current_slot(): at slot 0 the next level goes first, with its   *)
(* own copy of max_execute.                                                *)
Enter ==
    /\ call.phase = "enter"
    /\ IF Index(now[call.level]) = 0 /\ call.level < MaxLevel
       THEN /\ call' = [call EXCEPT !.level = @ + 1,
                                    !.budget[call.level + 1] = call.budget[call.level]]
            /\ now' = IF call.resumed THEN now
                      ELSE [now EXCEPT ![call.level + 1] = (@ + 1) % HandRange(call.level + 1)]
       ELSE /\ call' = [call EXCEPT !.phase = "drain"]
            /\ UNCHANGED now
    /\ UNCHANGED <<pending, slots, at>>

Current == slots[call.level][Index(now[call.level])]
Popped == [slots EXCEPT ![call.level][Index(now[call.level])] = Tail(@)]

(* An event of an upper level that is not due yet moves down.              *)
Promote ==
    /\ call.phase = "drain" /\ call.level > 0
    /\ Current # <<>>
    /\ now[0] < at[Head(Current)]
    /\ slots' = Link(Popped, Head(Current), Delay(Head(Current)))
    /\ UNCHANGED <<now, pending, at, call>>

(* Any other event is executed: the callback begins ...                    *)
Execute ==
    /\ call.phase = "drain"
    /\ Current # <<>>
    /\ call.level = 0 \/ now[0] >= at[Head(Current)]
    /\ slots' = Popped
    /\ call' = [call EXCEPT !.phase = "callback"]
    /\ UNCHANGED <<now, pending, at>>

(* Mutant: the tick at which advance() stops counts as done.               *)
ExecutedForgetsTick ==
    LET last == call.budget[call.level] = 1 IN
    /\ call.phase = "callback"
    /\ call' = IF last THEN Quiet
               ELSE [call EXCEPT !.phase = "drain", !.budget[call.level] = @ - 1]
    /\ pending' = IF last /\ ~call.resumed THEN call.delta ELSE pending
    /\ UNCHANGED <<now, slots, at>>

(* ... and ends.  When max_execute events have run every level returns     *)
(* false and level 0 remembers the current tick and those after it.        *)
Executed ==
    LET last == call.budget[call.level] = 1 IN
    /\ call.phase = "callback"
    /\ call' = IF last THEN Quiet
               ELSE [call EXCEPT !.phase = "drain", !.budget[call.level] = @ - 1]
    /\ pending' = IF last /\ ~call.resumed THEN call.delta + 1 ELSE pending
    /\ UNCHANGED <<now, slots, at>>

(* The slot is empty: back to the level below, or on to the next tick.     *)
Drained ==
    LET left == IF call.resumed THEN pending - 1 ELSE call.delta IN
    /\ call.phase = "drain"
    /\ Current = <<>>
    /\ UNCHANGED <<slots, at>>
    /\ \/ /\ call.level > 0
          /\ call' = [call EXCEPT !.level = @ - 1, !.budget[call.level] = 0]
          /\ UNCHANGED <<now, pending>>
       \/ /\ call.level = 0
          /\ pending' = 0
          /\ call' = IF left = 0 THEN Quiet
                     ELSE [call EXCEPT !.phase = "enter", !.resumed = FALSE,
                                       !.delta = left - 1]
          /\ now' = IF left = 0 THEN now ELSE [now EXCEPT ![0] = (@ + 1) % Ticks]

-----------------------------------------------------------------------------
(* Mutant: only the first event of a slot counts, on the upper levels too. *)
TicksToWakeupHead(max) ==
    LET Ahead(l, i) == Index(now[l] + 1 + i)
        Delays(l, i) == {Delay(Head(slots[l][i])) : e \in Linked(l, i)}
        Hits(l) == {i \in 0..(NumSlots - 1) : Linked(l, Ahead(l, i)) # {}}
        Above(l, first) ==
            IF /\ l < MaxLevel
               /\ \E i \in 0..first : Ahead(l, i) = 0
               /\ l > 0 \/ Linked(0, 0) = {}
            THEN Delays(l + 1, Index(now[l + 1] + 1)) ELSE {}
        last == Min({l \in 0..MaxLevel : \/ Hits(l) # {} \/ l = MaxLevel
                                         \/ max \div (2 * Span[l]) = 0})
        first == Min(Hits(last))
    IN IF pending # 0 THEN 0
       ELSE IF Hits(last) = {} THEN max
       ELSE Min({max} \cup Delays(last, Ahead(last, first)) \cup Above(last, first))

(* ticks_to_wakeup(): at each level, the first slot ahead of the hand that *)
(* holds an event; where the scan passes slot 0, also the next slot of the *)
(* level above.  It ends at the first level with an event, or where max    *)
(* is too small for the next one.                                          *)
TicksToWakeup(max) ==
    LET Ahead(l, i) == Index(now[l] + 1 + i)
        Delays(l, i) == {Delay(e) : e \in Linked(l, i)}
        Hits(l) == {i \in 0..(NumSlots - 1) : Linked(l, Ahead(l, i)) # {}}
        Above(l, first) ==
            IF /\ l < MaxLevel
               /\ \E i \in 0..first : Ahead(l, i) = 0
               /\ l > 0 \/ Linked(0, 0) = {}
            THEN Delays(l + 1, Index(now[l + 1] + 1)) ELSE {}
        last == Min({l \in 0..MaxLevel : \/ Hits(l) # {} \/ l = MaxLevel
                                         \/ max \div (2 * Span[l]) = 0})
        first == Min(Hits(last))
    IN IF pending # 0 THEN 0
       ELSE IF Hits(last) = {} THEN max
       ELSE Min({max} \cup Delays(last, Ahead(last, first)) \cup Above(last, first))

-----------------------------------------------------------------------------
UserNext ==
    \/ \E e \in Events, d \in Deltas : Schedule(e, d)
    \/ \E e \in Events : Cancel(e)
    \/ \E e \in Events, r \in Ranges : ScheduleInRange(e, r[1], r[2])
    \/ \E d \in Advances, max \in Budgets : Advance(d, max)

WheelNext == Enter \/ Promote \/ Execute \/ Executed \/ Drained

Next == UserNext \/ WheelNext

Spec == Init /\ [][Next]_vars

(* advance() runs on, and so does a callback.                              *)
FairSpec == Spec /\ WF_vars(WheelNext)

-----------------------------------------------------------------------------
(* Every variable holds a value of its C++ type and each event is linked   *)
(* into at most one slot.                                                  *)
TypeOK ==
    /\ DOMAIN now = 0..MaxLevel
    /\ \A l \in 0..MaxLevel : now[l] \in 0..(HandRange(l) - 1)
    /\ pending \in 0..(Ticks - 1)
    /\ at \in [Events -> 0..(Ticks - 1)]
    /\ call.phase \in {"idle", "enter", "drain", "callback"}
    /\ call.level \in 0..MaxLevel /\ call.delta \in 0..(Ticks - 1)
    /\ DOMAIN slots = 0..MaxLevel
    /\ \A l \in 0..MaxLevel : DOMAIN slots[l] = 0..(NumSlots - 1)

(* Whenever user code runs, also within a callback and after an advance()  *)
(* that stopped half-way, the hands of all levels show the same time and   *)
(* each scheduled event is in exactly one slot, one that the hand of its   *)
(* level reaches no later than the event is due.                           *)
Coherent ==
    TypeOK /\ (Outside =>
        /\ \A l \in 0..MaxLevel : now[l] = now[0] \div Span[l]
        /\ \A l, m \in 0..MaxLevel, i, j \in 0..(NumSlots - 1) :
              <<l, i>> # <<m, j>> => Linked(l, i) \cap Linked(m, j) = {}
        /\ \A l \in 0..MaxLevel, i \in 0..(NumSlots - 1) :
              /\ IsInjective(slots[l][i])
              /\ \A e \in Linked(l, i) : Index(at[e] \div Span[l]) = i)

(* An event is executed at the very tick it was last scheduled for, and    *)
(* time does not move past an event that is due ("should trigger at right  *)
(* time", "only run at the last scheduled tick").                          *)
OnTime ==
    [][/\ Execute => at[Head(Current)] = now[0]
       /\ now'[0] # now[0] => \A e \in Events : Scheduled(e) => at[e] # now[0]]_vars

(* schedule_in_range() leaves the event due within the range.              *)
WithinRange ==
    [][\A e \in Events, r \in Ranges :
          ScheduleInRange(e, r[1], r[2]) => Delay(e)' \in r[1]..r[2]]_vars

(* The time to the next event, max if that is later.                       *)
Earliest(max) == Min({max} \cup {Delay(e) : e \in {x \in Events : Scheduled(x)}})
Quiescent == call.phase = "idle" /\ pending = 0

(* ticks_to_wakeup() never tells the caller to wake up before the next     *)
(* event, and is exact as long as no event waits above the second level.   *)
WakeupNeverEarly ==
    Quiescent =>
        \A max \in 1..(Ticks - 1) :
            /\ TicksToWakeup(max) >= Earliest(max)
            /\ (\A l \in 2..MaxLevel, i \in 0..(NumSlots - 1) : Linked(l, i) = {})
                  => TicksToWakeup(max) = Earliest(max)

(* ticks_to_wakeup() is exact: a caller that sleeps that long is in time   *)
(* for every event ("Check that a timer on the next layer can be found."). *)
WakeupExact ==
    Quiescent => \A max \in 1..(Ticks - 1) : TicksToWakeup(max) = Earliest(max)

(* advance() returns, whatever the callbacks schedule.                     *)
AdvanceReturns == call.phase # "idle" ~> call.phase = "idle"
=============================================================================
