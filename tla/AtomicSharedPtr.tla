-------------------------- MODULE AtomicSharedPtr --------------------------
(***************************************************************************)
(* godby/AtomicSharedPointer.h over godby/HazardPointers.h: threads share  *)
(* objects through one AtomicSharedPtr and any number of SharedPtr and     *)
(* WeakPtr handles, and a control block is freed (its address reused) when *)
(* nobody can touch it any more.                                           *)
(*                                                                         *)
(* A handle is not tied to a thread, so handles are counted per block; one *)
(* that a call works on is in that thread's registers.  The strong count   *)
(* is what WaitFreeCounter was shown to be: a count and, once it was found *)
(* to be 0, a final mark.  A hazard slot is written with a relaxed store:  *)
(* it waits in the thread's buffer until it becomes visible, at the latest *)
(* when some thread runs the heavy side of the asymmetric fence.           *)
(***************************************************************************)
EXTENDS Integers, Sequences, SequencesExt, FiniteSets

CONSTANTS Threads, Blocks, Null,
          Threshold,    \* cleanup_threshold
          MaxSlots,     \* bound: hazard slots that are ever allocated
          MaxCalls      \* bound: calls by all threads together

ASSUME ThreadAssumption == IsFiniteSet(Threads)
ASSUME BlockAssumption == Blocks # {} /\ Null \notin Blocks
ASSUME BoundAssumption == /\ Threshold \in Nat \ {0}
                          /\ MaxSlots \in Nat /\ MaxCalls \in Nat

VARIABLES cell,         \* AtomicSharedPtr::control_block
          strong,       \* strong_count, without its flags
          zero,         \* the blocks whose strong_count has its zero flag
          weak,         \* weak_count
          life,         \* what there is of a block, one of Lives
          shared,       \* how many SharedPtr handles a block has
          weakly,       \* how many WeakPtr handles a block has
          slots,        \* the list of HazardSlots
          slot,         \* each thread's HazardSlot, by its place in the list
          buf,          \* its hazard-pointer stores that are not yet visible
          th,           \* its program counter and registers
          calls         \* calls so far

counts == <<strong, zero, weak, life, shared, weakly>>
hazard == <<slots, slot, buf>>
vars == <<cell, counts, hazard, th, calls>>

(* A control block, of whichever kind, exists with its object, exists      *)
(* without it once dispose() has run, and is free memory after destroy().  *)
Lives == {"alive", "disposed", "free"}

Pointers == Blocks \cup {Null}
Idle == [pc |-> "idle", op |-> "none", cur |-> Null, old |-> Null, exp |-> Null,
         des |-> Null, first |-> Null, cont |-> "idle", pos |-> 1, seen |-> {}]
(* A RetiredList: how often each block is in it.  (cleanup() treats every  *)
(* block of the list alike, so its order does not matter.)                 *)
FreshSlot(used) == [ptr |-> Null, used |-> used,
                    retired |-> [b \in Blocks |-> 0], since |-> 0]

Plus(f, p, n) == IF p = Null THEN f ELSE [f EXCEPT ![p] = @ + n]
Set(t, r) == th' = [th EXCEPT ![t] = r]
(* The call goes on after a release at th[t].cont.                         *)
Resume(t) == IF th[t].cont = "idle" THEN Idle
             ELSE [th[t] EXCEPT !.pc = th[t].cont, !.old = Null, !.pos = 1, !.seen = {}]
Call == calls < MaxCalls /\ calls' = calls + 1
At(t, pc) == th[t].pc = pc
(* The calling SharedPtr: the null one, or a handle that somebody has.     *)
Handles == {p \in Pointers : p = Null \/ shared[p] > 0}

(* An AtomicSharedPtr that owns a first object, and the slots that the     *)
(* constructor of HazardPointers makes; every thread will look for one.    *)
Init ==
    LET b == CHOOSE c \in Blocks : TRUE IN
        /\ cell = b
        /\ strong = [c \in Blocks |-> IF c = b THEN 1 ELSE 0]
        /\ zero = {}
        /\ weak = [c \in Blocks |-> IF c = b THEN 1 ELSE 0]
        /\ life = [c \in Blocks |-> IF c = b THEN "alive" ELSE "free"]
        /\ shared = [c \in Blocks |-> 0]
        /\ weakly = [c \in Blocks |-> 0]
        /\ slots = <<FreshSlot(FALSE)>>
        /\ slot = [t \in Threads |-> 0]
        /\ buf = [t \in Threads |-> <<>>]
        /\ th = [t \in Threads |-> [Idle EXCEPT !.pc = "find"]]
        /\ calls = 0

(* What the slot will hold when all stores of its owner are visible.       *)
Newest(t) == IF buf[t] = <<>> THEN slots[slot[t]].ptr ELSE Last(buf[t])

-----------------------------------------------------------------------------
(* get_slot(): take the slot if nobody uses it.                            *)
TakeSlot(t) ==
    /\ At(t, "find")
    /\ ~slots[th[t].pos].used
    /\ slots' = [slots EXCEPT ![th[t].pos].used = TRUE]
    /\ slot' = [slot EXCEPT ![t] = th[t].pos]
    /\ Set(t, Idle)
    /\ UNCHANGED <<cell, counts, buf, calls>>

(* get_slot(): go on to the next slot, or make one.                        *)
NextSlot(t) ==
    /\ At(t, "find")
    /\ slots[th[t].pos].used
    /\ IF th[t].pos < Len(slots)
         THEN Set(t, [th[t] EXCEPT !.pos = @ + 1])
         ELSE Set(t, [th[t] EXCEPT !.pc = "new"])
    /\ UNCHANGED <<cell, counts, hazard, calls>>

(* get_slot(): the new slot goes to the end, wherever that is by now.      *)
NewSlot(t) ==
    /\ At(t, "new")
    /\ Len(slots) < MaxSlots
    /\ slots' = Append(slots, FreshSlot(TRUE))
    /\ slot' = [slot EXCEPT ![t] = Len(slots) + 1]
    /\ Set(t, Idle)
    /\ UNCHANGED <<cell, counts, buf, calls>>

(* The thread ends: relinquish_slot() leaves the hazard pointer and the    *)
(* retired list to the slot's next owner.  A new thread takes its place.   *)
Exit(t) ==
    /\ At(t, "idle")
    /\ Call
    /\ slots' = [slots EXCEPT ![slot[t]] =
                    [@ EXCEPT !.used = FALSE, !.ptr = Newest(t)]]
    /\ slot' = [slot EXCEPT ![t] = 0]
    /\ buf' = [buf EXCEPT ![t] = <<>>]
    /\ Set(t, [Idle EXCEPT !.pc = "find"])
    /\ UNCHANGED <<cell, counts>>

(* A buffered store of a hazard pointer becomes visible.                   *)
Flush(t) ==
    /\ buf[t] # <<>>
    /\ slots' = [slots EXCEPT ![slot[t]].ptr = Head(buf[t])]
    /\ buf' = [buf EXCEPT ![t] = Tail(@)]
    /\ UNCHANGED <<cell, counts, slot, th, calls>>

-----------------------------------------------------------------------------
(* increment_strong_count() and, where it is known to succeed,             *)
(* increment_strong_count_if_nonzero().                                    *)
IncStrong(b) == strong' = [strong EXCEPT ![b] = @ + 1]

IncWeak(b) == weak' = [weak EXCEPT ![b] = @ + 1]

(* SharedPtr(new T) and make_shared: a block whose memory is free.         *)
Make(b) ==
    /\ Call
    /\ life[b] = "free"
    /\ life' = [life EXCEPT ![b] = "alive"]
    /\ strong' = [strong EXCEPT ![b] = 1]
    /\ weak' = [weak EXCEPT ![b] = 1]
    /\ zero' = zero \ {b}
    /\ shared' = [shared EXCEPT ![b] = 1]
    /\ UNCHANGED <<cell, weakly, hazard, th>>

(* SharedPtr(const SharedPtr &): increment_strong_count().                 *)
CopyShared(b) ==
    /\ Call
    /\ shared[b] > 0
    /\ IncStrong(b)
    /\ shared' = [shared EXCEPT ![b] = @ + 1]
    /\ UNCHANGED <<cell, zero, weak, life, weakly, hazard, th>>

(* WeakPtr(const SharedPtr &): increment_weak_count().                     *)
WeakFromShared(b) ==
    /\ Call
    /\ shared[b] > 0
    /\ IncWeak(b)
    /\ weakly' = [weakly EXCEPT ![b] = @ + 1]
    /\ UNCHANGED <<cell, strong, zero, life, shared, hazard, th>>

(* WeakPtr::lock() and SharedPtr(const WeakPtr &).                         *)
Lock(b) ==
    /\ Call
    /\ weakly[b] > 0
    /\ IF b \in zero
         THEN UNCHANGED <<strong, shared>>
         ELSE /\ IncStrong(b)
              /\ shared' = [shared EXCEPT ![b] = @ + 1]
    /\ UNCHANGED <<cell, zero, weak, life, weakly, hazard, th>>

(* ~SharedPtr(), reset(): release one handle's reference.                  *)
DropShared(t, b) ==
    /\ At(t, "idle")
    /\ Call
    /\ shared[b] > 0
    /\ shared' = [shared EXCEPT ![b] = @ - 1]
    /\ Set(t, [Idle EXCEPT !.pc = "dec", !.old = b])
    /\ UNCHANGED <<cell, strong, zero, weak, life, weakly, hazard>>

(* ~WeakPtr(): decrement_weak_count().                                     *)
DropWeak(t, b) ==
    /\ At(t, "idle")
    /\ Call
    /\ weakly[b] > 0
    /\ weakly' = [weakly EXCEPT ![b] = @ - 1]
    /\ Set(t, [Idle EXCEPT !.pc = "decweak", !.old = b])
    /\ UNCHANGED <<cell, strong, zero, weak, life, shared, hazard>>

-----------------------------------------------------------------------------
(* Mutant: the test for the last reference is off by one.                  *)
DecStrongOff(t) ==
    LET b == th[t].old IN
    /\ At(t, "dec")
    /\ strong' = [strong EXCEPT ![b] = @ - 1]
    /\ Set(t, IF strong[b] = 0 THEN [th[t] EXCEPT !.pc = "zero"] ELSE Resume(t))
    /\ UNCHANGED <<cell, zero, weak, life, shared, weakly, hazard, calls>>

(* decrement_strong_count(): the fetch_sub of strong_count.decrement().    *)
DecStrong(t) ==
    LET b == th[t].old IN
    /\ At(t, "dec")
    /\ strong' = [strong EXCEPT ![b] = @ - 1]
    /\ Set(t, IF strong[b] = 1 THEN [th[t] EXCEPT !.pc = "zero"] ELSE Resume(t))
    /\ UNCHANGED <<cell, zero, weak, life, shared, weakly, hazard, calls>>

(* Mutant: whoever reached zero disposes, without a second look.           *)
DisposeAnyway(t) ==
    LET b == th[t].old
        last == b \notin zero IN
    /\ At(t, "zero")
    /\ zero' = zero \cup {b}
    /\ life' = IF last THEN [life EXCEPT ![b] = "disposed"] ELSE life
    /\ Set(t, IF last THEN [th[t] EXCEPT !.pc = "decweak"] ELSE Resume(t))
    /\ UNCHANGED <<cell, strong, weak, shared, weakly, hazard, calls>>

(* decrement_strong_count(): the thread that finds the count still at zero *)
(* marks it and disposes of the object.                                    *)
Dispose(t) ==
    LET b == th[t].old
        last == strong[b] = 0 /\ b \notin zero IN
    /\ At(t, "zero")
    /\ zero' = IF last THEN zero \cup {b} ELSE zero
    /\ life' = IF last THEN [life EXCEPT ![b] = "disposed"] ELSE life
    /\ Set(t, IF last THEN [th[t] EXCEPT !.pc = "decweak"] ELSE Resume(t))
    /\ UNCHANGED <<cell, strong, weak, shared, weakly, hazard, calls>>

(* retire(): a slot s with the block pushed; after every Threshold of them *)
(* the count starts again and there is a cleanup.                          *)
Retire(s, b) ==
    [s EXCEPT !.retired = [s.retired EXCEPT ![b] = @ + 1],
              !.since = IF s.since + 1 >= Threshold THEN 0 ELSE s.since + 1]

(* decrement_weak_count(): the last one retires the block.                 *)
DecWeak(t) ==
    LET b == th[t].old
        last == weak[b] = 1
        full == slots[slot[t]].since + 1 >= Threshold IN
    /\ At(t, "decweak")
    /\ weak' = [weak EXCEPT ![b] = @ - 1]
    /\ slots' = IF last THEN [slots EXCEPT ![slot[t]] = Retire(@, b)] ELSE slots
    /\ Set(t, IF last /\ full THEN [th[t] EXCEPT !.pc = "fence"] ELSE Resume(t))
    /\ UNCHANGED <<cell, strong, zero, life, shared, weakly, slot, buf, calls>>

(* Mutant: no heavy fence before the scan.                                 *)
NoFence(t) ==
    /\ At(t, "fence")
    /\ Set(t, [th[t] EXCEPT !.pc = "scan"])
    /\ UNCHANGED <<cell, counts, hazard, calls>>

(* asymmetric_thread_fence_heavy(): membarrier or mprotect interrupts the  *)
(* other threads, which makes the stores they have issued visible.         *)
HeavyFence ==
    /\ slots' = [i \in DOMAIN slots |->
                   [slots[i] EXCEPT !.ptr = IF \E u \in Threads : slot[u] = i
                                            THEN Newest(CHOOSE u \in Threads : slot[u] = i)
                                            ELSE @]]
    /\ buf' = [u \in Threads |-> <<>>]

(* cleanup(): the heavy fence comes before the scan.                       *)
Fence(t) ==
    /\ At(t, "fence")
    /\ HeavyFence
    /\ Set(t, [th[t] EXCEPT !.pc = "scan"])
    /\ UNCHANGED <<cell, counts, slot, calls>>

(* cleanup(): scan_hazard_pointers() reads one slot after the other.       *)
Scan(t) ==
    LET i == th[t].pos IN
    /\ At(t, "scan")
    /\ Set(t, [th[t] EXCEPT !.seen = (@ \cup {slots[i].ptr}) \ {Null},
                            !.pos = IF i < Len(slots) THEN @ + 1 ELSE 1,
                            !.pc = IF i < Len(slots) THEN "scan" ELSE "destroy"])
    /\ UNCHANGED <<cell, counts, hazard, calls>>

(* Mutant: a destroyed block stays in the list.                            *)
DestroyKeepsList(t) ==
    LET mine == slots[slot[t]].retired IN
    /\ At(t, "destroy")
    /\ life' = [b \in Blocks |-> IF mine[b] > 0 /\ b \notin th[t].seen
                                 THEN "free" ELSE life[b]]
    /\ Set(t, Resume(t))
    /\ UNCHANGED <<cell, strong, zero, weak, shared, weakly, hazard, calls>>

(* cleanup(): RetiredList::cleanup destroys the blocks nobody announced.   *)
Destroy(t) ==
    LET mine == slots[slot[t]].retired
        seen == th[t].seen IN
    /\ At(t, "destroy")
    /\ life' = [b \in Blocks |-> IF mine[b] > 0 /\ b \notin seen THEN "free"
                                 ELSE life[b]]
    /\ slots' = [slots EXCEPT ![slot[t]].retired =
                    [b \in Blocks |-> IF b \in seen THEN mine[b] ELSE 0]]
    /\ Set(t, Resume(t))
    /\ UNCHANGED <<cell, strong, zero, weak, shared, weakly, slot, buf, calls>>

-----------------------------------------------------------------------------
(* AtomicSharedPtr::load(), and the load() of a failed compare_exchange.   *)
Load(t) ==
    /\ At(t, "idle")
    /\ Call
    /\ Set(t, [Idle EXCEPT !.pc = "read", !.op = "load"])
    /\ UNCHANGED <<cell, counts, hazard>>

(* The answer of load() is in `p': hand it to the caller, or move it into  *)
(* expected, whose old reference is released.                              *)
Loaded(t, p) ==
    LET r == [th[t] EXCEPT !.exp = p, !.cur = Null, !.old = th[t].exp,
                           !.cont = IF th[t].op = "strong" /\ p = th[t].first
                                      THEN "cas" ELSE "give"]
    IN  IF th[t].op = "load" THEN Set(t, Idle) /\ shared' = Plus(shared, p, 1)
        ELSE /\ Set(t, [r EXCEPT !.pc = IF r.old = Null THEN r.cont ELSE "dec"])
             /\ UNCHANGED shared

(* protect(): read the cell; there is nothing to protect in a null one.    *)
Read(t) ==
    /\ At(t, "read")
    /\ IF cell = Null
         THEN Loaded(t, Null)
         ELSE Set(t, [th[t] EXCEPT !.pc = "announce", !.cur = cell]) /\ UNCHANGED shared
    /\ UNCHANGED <<cell, strong, zero, weak, life, weakly, hazard, calls>>

(* protect(): announce what was read (which may be announced already).     *)
Announce(t) ==
    /\ At(t, "announce")
    /\ buf' = IF Newest(t) = th[t].cur THEN buf
              ELSE [buf EXCEPT ![t] = Append(@, th[t].cur)]
    /\ Set(t, [th[t] EXCEPT !.pc = "check"])
    /\ UNCHANGED <<cell, counts, slots, slot, calls>>

(* Mutant: starts over with the pointer that failed.                       *)
CheckStale(t) ==
    /\ At(t, "check")
    /\ Set(t, [th[t] EXCEPT !.pc = IF cell = th[t].cur THEN "inc" ELSE "announce"])
    /\ UNCHANGED <<cell, counts, hazard, calls>>

(* protect(): read the cell again, and start over if it has changed.       *)
Check(t) ==
    /\ At(t, "check")
    /\ CASE cell = th[t].cur -> Set(t, [th[t] EXCEPT !.pc = "inc"]) /\ UNCHANGED shared
         [] cell # th[t].cur /\ cell = Null -> Loaded(t, Null)
         [] OTHER -> /\ Set(t, [th[t] EXCEPT !.pc = "announce", !.cur = cell])
                     /\ UNCHANGED shared
    /\ UNCHANGED <<cell, strong, zero, weak, life, weakly, hazard, calls>>

(* load(): increment_strong_count_if_nonzero(), or start over.             *)
Increment(t) ==
    LET b == th[t].cur IN
    /\ At(t, "inc")
    /\ IF b \in zero
         THEN Set(t, [th[t] EXCEPT !.pc = "read", !.cur = Null])
              /\ UNCHANGED <<strong, shared>>
         ELSE Loaded(t, b) /\ IncStrong(b)
    /\ UNCHANGED <<cell, zero, weak, life, weakly, hazard, calls>>

(* store(desired): exchange, then release what the cell owned.             *)
Store(t, d) ==
    /\ At(t, "idle")
    /\ Call
    /\ cell' = d
    /\ shared' = Plus(shared, d, -1)
    /\ Set(t, IF cell = Null THEN Idle ELSE [Idle EXCEPT !.pc = "dec", !.old = cell])
    /\ UNCHANGED <<strong, zero, weak, life, weakly, hazard>>

(* exchange(desired): the caller gets what the cell owned.                 *)
Exchange(t, d) ==
    /\ At(t, "idle")
    /\ Call
    /\ cell' = d
    /\ shared' = Plus(Plus(shared, d, -1), cell, 1)
    /\ UNCHANGED <<strong, zero, weak, life, weakly, hazard, th>>

(* compare_exchange_weak and _strong(expected, desired), two handles.      *)
CompareExchange(t, op, e, d) ==
    /\ At(t, "idle")
    /\ Call
    /\ e = d /\ e # Null => shared[e] > 1
    /\ shared' = Plus(Plus(shared, e, -1), d, -1)
    /\ Set(t, [Idle EXCEPT !.pc = "cas", !.op = op, !.exp = e, !.des = d, !.first = e])
    /\ UNCHANGED <<cell, strong, zero, weak, life, weakly, hazard>>

(* Mutant: the reference of the cell to the expected block is kept.        *)
CasKeeps(t) ==
    /\ At(t, "cas")
    /\ cell = th[t].exp
    /\ cell' = th[t].des
    /\ shared' = Plus(shared, th[t].exp, 1)
    /\ Set(t, Idle)
    /\ UNCHANGED <<strong, zero, weak, life, weakly, hazard, calls>>

(* The exchange succeeds: release the cell's reference to the old block.   *)
CasSucceeds(t) ==
    /\ At(t, "cas")
    /\ cell = th[t].exp
    /\ cell' = th[t].des
    /\ shared' = Plus(shared, th[t].exp, 1)
    /\ Set(t, IF cell = Null THEN Idle ELSE [Idle EXCEPT !.pc = "dec", !.old = cell])
    /\ UNCHANGED <<strong, zero, weak, life, weakly, hazard, calls>>

(* It fails, perhaps spuriously: expected = load().                        *)
CasFails(t) ==
    /\ At(t, "cas")
    /\ Set(t, [th[t] EXCEPT !.pc = "read"])
    /\ UNCHANGED <<cell, counts, hazard, calls>>

(* The caller of a failed compare_exchange still has both handles.         *)
GiveBack(t) ==
    /\ At(t, "give")
    /\ shared' = Plus(Plus(shared, th[t].exp, 1), th[t].des, 1)
    /\ Set(t, Idle)
    /\ UNCHANGED <<cell, strong, zero, weak, life, weakly, hazard, calls>>

-----------------------------------------------------------------------------
Reclaim(t) ==
    \/ DecStrong(t) \/ Dispose(t) \/ DecWeak(t) \/ Fence(t) \/ Scan(t) \/ Destroy(t)

Proceed(t) ==
    \/ TakeSlot(t) \/ NextSlot(t) \/ NewSlot(t)
    \/ Read(t) \/ Announce(t) \/ Check(t) \/ Increment(t)
    \/ CasSucceeds(t) \/ CasFails(t) \/ GiveBack(t)
    \/ Reclaim(t)

Begin(t) ==
    \/ Exit(t) \/ Load(t)
    \/ \E b \in Blocks : DropShared(t, b) \/ DropWeak(t, b)
    \/ \E d \in Handles : Store(t, d) \/ Exchange(t, d)
    \/ \E op \in {"weak", "strong"}, e, d \in Handles : CompareExchange(t, op, e, d)

Next ==
    \/ \E t \in Threads : Flush(t) \/ Proceed(t) \/ Begin(t)
    \/ \E b \in Blocks : Make(b) \/ CopyShared(b) \/ WeakFromShared(b) \/ Lock(b)

Spec == Init /\ [][Next]_vars
FairSpec == Spec /\ \A t \in Threads : WF_vars(Proceed(t))

-----------------------------------------------------------------------------
TypeOK ==
    /\ cell \in Pointers
    /\ strong \in [Blocks -> Nat]
    /\ zero \subseteq Blocks
    /\ weak \in [Blocks -> Nat]
    /\ life \in [Blocks -> Lives]
    /\ shared \in [Blocks -> Nat]
    /\ weakly \in [Blocks -> Nat]
    /\ \A i \in DOMAIN slots : slots[i].ptr \in Pointers /\ slots[i].since < Threshold
    /\ \A t \in Threads : slot[t] \in 0 .. Len(slots) /\ buf[t] \in Seq(Blocks)
    /\ calls \in 0 .. MaxCalls

(* The threads with a reference to b in their registers.                   *)
Holding(b, f) == Cardinality({t \in Threads : th[t][f] = b /\ th[t].pc # "idle"})
Releasing(b, pcs) == Cardinality({t \in Threads : th[t].old = b /\ th[t].pc \in pcs})

(* Until its zero flag is set a strong count is the number of owners:      *)
(* handles, the cell, and the references that calls under way carry.       *)
StrongCountExact ==
    /\ TypeOK
    /\ \A b \in Blocks : (life[b] = "alive") =>
          strong[b] = shared[b] + (IF cell = b THEN 1 ELSE 0) + Holding(b, "exp")
                      + Holding(b, "des") + Releasing(b, {"dec"})

(* Handles, and the steps of a call that work on a block they may rely on: *)
(* one that was announced, or one they hold a reference to.                *)
Relied ==
    {b \in Blocks :
        \/ cell = b \/ shared[b] > 0 \/ weakly[b] > 0
        \/ Holding(b, "exp") + Holding(b, "des") > 0
        \/ Releasing(b, {"dec", "decweak"}) > 0
        \/ \E t \in Threads : At(t, "inc") /\ th[t].cur = b}

(* No control block is freed that a handle, a reference or a validated     *)
(* hazard pointer protects.                                                *)
NoUseAfterFree == \A b \in Relied : life[b] # "free"

(* "without risking data races": no control block is freed while a step of *)
(* any call is still to work on it, the second half of decrement included. *)
NoStepAfterFree ==
    \A b \in Blocks : Releasing(b, {"dec", "zero", "decweak"}) > 0 => life[b] # "free"

(* The managed object is there as long as somebody owns it.                *)
OwnedIsAlive ==
    \A b \in Blocks : (cell = b \/ shared[b] > 0) => life[b] = "alive"

(* A block waits for reclamation once, in one slot, and is not in use.     *)
RetiredOnce ==
    \A b \in Blocks, i \in DOMAIN slots :
        slots[i].retired[b] > 0 =>
            /\ slots[i].retired[b] = 1
            /\ \A k \in DOMAIN slots : slots[k].retired[b] > 0 => k = i
            /\ life[b] = "disposed"
            /\ weak[b] = 0

(* load() returns: it starts over only when the cell was changed.  (Calls  *)
(* are bounded, so that in the end no thread is in a load() at all.)       *)
LoadReturns == []<>(\A t \in Threads : th[t].op # "load")

(* An object nobody owns any more is disposed of, or somebody takes a      *)
(* reference to it again.                                                  *)
Disposed == []<>(\A b \in Blocks : ~(life[b] = "alive" /\ strong[b] = 0))
=============================================================================
