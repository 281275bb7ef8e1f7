--------------------------- MODULE StealingQueue ---------------------------
(***************************************************************************)
(* godby/StealingQueue.h: the Chase-Lev queue of the executor.             *)
(*                                                                         *)
(* One owner thread calls push() and pop(); any thread calls steal().  One *)
(* step of the model is one access to an atomic that another thread may    *)
(* touch in between; the fences of the code (release before M_bottom in    *)
(* push, seq_cst in pop and in steal) are what makes interleaving these    *)
(* accesses one at a time a sound model.                                   *)
(*                                                                         *)
(* The n-th item ever pushed is the number n.  A slot that was never       *)
(* written holds Blank, the value-initialized T.                           *)
(***************************************************************************)
EXTENDS Integers, Sequences

CONSTANTS Owner,        \* the thread that may push and pop
          Thieves,      \* the threads that steal
          Capacity,     \* constructor argument, a power of two
          Word,         \* size_t arithmetic is modulo Word
          MaxPush,      \* bound: how many items the owner pushes
          PopOnFresh    \* may the owner pop a queue that was never pushed to?

ASSUME CapacityAssumption == Capacity \in Nat \ {0}
ASSUME WordAssumption == /\ MaxPush \in Nat
                         /\ Word \in Nat
                         /\ Word > MaxPush + 1
ASSUME ThreadAssumption == Owner \notin Thieves
ASSUME FlagAssumption == PopOnFresh \in BOOLEAN

VARIABLES top,       \* M_top
          bottom,    \* M_bottom
          array,     \* M_array: the newest Array
          arrays,    \* every Array allocated: M_garbage, then *M_array
          pushes,    \* how many items were pushed (names the next item)
          own,       \* the owner's program counter and locals
          thief,     \* each thief's program counter and locals
          ret        \* each thread's answer: an item, Nothing, or Busy

vars == <<top, bottom, array, arrays, pushes, own, thief, ret>>

Nothing == 0         \* std::nullopt
Busy == -1           \* the call has not answered yet
Blank == -2          \* a slot no push has written

Item == 1..MaxPush
Slot == Item \cup {Blank}
Answer == Slot \cup {Nothing, Busy}

(* size_t arithmetic *)
Inc(x) == IF x = Word - 1 THEN 0 ELSE x + 1
Dec(x) == IF x = 0 THEN Word - 1 ELSE x - 1
Sub(x, y) == IF y <= x THEN x - y ELSE x - y + Word

(* Array: C slots, a power of two, indexed by i & (C - 1). *)
Mod(i, C) == i % C
NewArray(C) == [C |-> C, S |-> [i \in 0..(C - 1) |-> Blank]]
Get(a, i) == a.S[Mod(i, a.C)]
Put(a, i, x) == [C |-> a.C, S |-> [a.S EXCEPT ![Mod(i, a.C)] = x]]

(* Mutant: the copy starts one position too late.                          *)
ResizeSkipsTop(a, b, t) ==
    [C |-> 2 * a.C,
     S |-> [j \in 0..(2 * a.C - 1) |->
              IF \E i \in (t + 1)..(b - 1) : Mod(i, 2 * a.C) = j
              THEN Get(a, CHOOSE i \in (t + 1)..(b - 1) : Mod(i, 2 * a.C) = j)
              ELSE Blank]]

(* Array::resize: twice the slots, positions t up to b - 1 copied. *)
Resize(a, b, t) ==
    [C |-> 2 * a.C,
     S |-> [j \in 0..(2 * a.C - 1) |->
              IF \E i \in t..(b - 1) : Mod(i, 2 * a.C) = j
              THEN Get(a, CHOOSE i \in t..(b - 1) : Mod(i, 2 * a.C) = j)
              ELSE Blank]]

(* Outside a call the locals do not exist. *)
OwnerIdle == [pc |-> "idle", b |-> 0, t |-> 0, item |-> Nothing]
ThiefIdle == [pc |-> "idle", t |-> 0, a |-> 1, item |-> Nothing]

-----------------------------------------------------------------------------
Init ==
    /\ top = 0
    /\ bottom = 0
    /\ array = 1
    /\ arrays = [k \in {1} |-> NewArray(Capacity)]
    /\ pushes = 0
    /\ own = OwnerIdle
    /\ thief = [p \in Thieves |-> ThiefIdle]
    /\ ret = [p \in {Owner} \cup Thieves |-> Nothing]

-----------------------------------------------------------------------------
(* Mutant: the full test forgets the slot the new item needs.              *)
PushLoadOffByOne ==
    /\ own.pc = "idle"
    /\ pushes < MaxPush
    /\ own' = [own EXCEPT !.b = bottom, !.t = top,
                 !.pc = IF arrays[array].C < Sub(bottom, top)
                        THEN "grow" ELSE "write"]
    /\ UNCHANGED <<top, bottom, array, arrays, pushes, thief, ret>>

(* push(): load M_bottom and M_array (only the owner writes them), M_top.  *)
PushLoad ==
    /\ own.pc = "idle"
    /\ pushes < MaxPush
    /\ own' = [own EXCEPT !.b = bottom, !.t = top,
                 !.pc = IF arrays[array].C - 1 < Sub(bottom, top)
                        THEN "grow" ELSE "write"]
    /\ UNCHANGED <<top, bottom, array, arrays, pushes, thief, ret>>

(* push(): resize, keep the old Array in M_garbage, publish the new one.   *)
PushGrow ==
    /\ own.pc = "grow"
    /\ array' = array + 1
    /\ arrays' = [k \in 1..(array + 1) |->
                    IF k <= array THEN arrays[k]
                    ELSE Resize(arrays[array], own.b, own.t)]
    /\ own' = [own EXCEPT !.pc = "write"]
    /\ UNCHANGED <<top, bottom, pushes, thief, ret>>

(* push(): a->push(b, item).                                               *)
PushWrite ==
    /\ own.pc = "write"
    /\ arrays' = [arrays EXCEPT ![array] = Put(@, own.b, pushes + 1)]
    /\ own' = [own EXCEPT !.pc = "publish"]
    /\ UNCHANGED <<top, bottom, array, pushes, thief, ret>>

(* push(): M_bottom.store(b + 1) makes the item visible to the thieves.    *)
PushPublish ==
    /\ own.pc = "publish"
    /\ bottom' = Inc(own.b)
    /\ pushes' = pushes + 1
    /\ own' = OwnerIdle
    /\ UNCHANGED <<top, array, arrays, thief, ret>>

(* pop(): claim the back by storing b = M_bottom - 1.                      *)
PopClaim ==
    /\ own.pc = "idle"
    /\ PopOnFresh \/ bottom # 0
    /\ own' = [own EXCEPT !.pc = "check", !.b = Dec(bottom)]
    /\ bottom' = Dec(bottom)
    /\ ret' = [ret EXCEPT ![Owner] = Busy]
    /\ UNCHANGED <<top, array, arrays, pushes, thief>>

(* Mutant: the last item is taken without racing the thieves.              *)
PopManyNoRace ==
    /\ own.pc = "check"
    /\ top <= own.b
    /\ ret' = [ret EXCEPT ![Owner] = Get(arrays[array], own.b)]
    /\ own' = OwnerIdle
    /\ UNCHANGED <<top, bottom, array, arrays, pushes, thief>>

(* pop(): after the fence, load M_top; three cases by how many are left.   *)
PopMany ==
    /\ own.pc = "check"
    /\ top < own.b
    /\ ret' = [ret EXCEPT ![Owner] = Get(arrays[array], own.b)]
    /\ own' = OwnerIdle
    /\ UNCHANGED <<top, bottom, array, arrays, pushes, thief>>

PopLast ==
    /\ own.pc = "check"
    /\ top = own.b
    /\ own' = [own EXCEPT !.pc = "race", !.t = top,
                          !.item = Get(arrays[array], own.b)]
    /\ UNCHANGED <<top, bottom, array, arrays, pushes, thief, ret>>

PopNone ==
    /\ own.pc = "check"
    /\ top > own.b
    /\ own' = [own EXCEPT !.pc = "restore"]
    /\ ret' = [ret EXCEPT ![Owner] = Nothing]
    /\ UNCHANGED <<top, bottom, array, arrays, pushes, thief>>

(* pop(): M_top.compare_exchange_strong(t, t + 1) against the thieves.     *)
PopRace ==
    /\ own.pc = "race"
    /\ own' = [own EXCEPT !.pc = "restore"]
    /\ \/ /\ top = own.t
          /\ top' = Inc(own.t)
          /\ ret' = [ret EXCEPT ![Owner] = own.item]
       \/ /\ top # own.t
          /\ ret' = [ret EXCEPT ![Owner] = Nothing]
          /\ UNCHANGED top
    /\ UNCHANGED <<bottom, array, arrays, pushes, thief>>

(* pop(): M_bottom.store(b + 1).                                           *)
PopRestore ==
    /\ own.pc = "restore"
    /\ bottom' = Inc(own.b)
    /\ own' = OwnerIdle
    /\ UNCHANGED <<top, array, arrays, pushes, thief, ret>>

-----------------------------------------------------------------------------
(* steal(): load M_top.                                                    *)
StealTop(p) ==
    /\ thief[p].pc = "idle"
    /\ thief' = [thief EXCEPT ![p].pc = "bottom", ![p].t = top]
    /\ ret' = [ret EXCEPT ![p] = Busy]
    /\ UNCHANGED <<top, bottom, array, arrays, pushes, own>>

(* Mutant: the test for work is off by one.                                *)
StealBottomOffByOne(p) ==
    /\ thief[p].pc = "bottom"
    /\ \/ /\ thief[p].t + 1 < bottom
          /\ thief' = [thief EXCEPT ![p].pc = "array"]
          /\ UNCHANGED ret
       \/ /\ thief[p].t + 1 >= bottom
          /\ thief' = [thief EXCEPT ![p] = ThiefIdle]
          /\ ret' = [ret EXCEPT ![p] = Nothing]
    /\ UNCHANGED <<top, bottom, array, arrays, pushes, own>>

(* steal(): after the fence, load M_bottom.                                *)
StealBottom(p) ==
    /\ thief[p].pc = "bottom"
    /\ \/ /\ thief[p].t < bottom
          /\ thief' = [thief EXCEPT ![p].pc = "array"]
          /\ UNCHANGED ret
       \/ /\ thief[p].t >= bottom
          /\ thief' = [thief EXCEPT ![p] = ThiefIdle]
          /\ ret' = [ret EXCEPT ![p] = Nothing]
    /\ UNCHANGED <<top, bottom, array, arrays, pushes, own>>

(* steal(): load M_array.                                                  *)
StealArray(p) ==
    /\ thief[p].pc = "array"
    /\ thief' = [thief EXCEPT ![p].pc = "read", ![p].a = array]
    /\ UNCHANGED <<top, bottom, array, arrays, pushes, own, ret>>

(* steal(): item = a->pop(t), from an Array that may be garbage by now.    *)
StealRead(p) ==
    /\ thief[p].pc = "read"
    /\ thief' = [thief EXCEPT ![p].pc = "cas",
                   ![p].item = Get(arrays[thief[p].a], thief[p].t)]
    /\ UNCHANGED <<top, bottom, array, arrays, pushes, own, ret>>

(* steal(): M_top.compare_exchange_strong(t, t + 1) decides who owns it.   *)
StealCas(p) ==
    /\ thief[p].pc = "cas"
    /\ thief' = [thief EXCEPT ![p] = ThiefIdle]
    /\ \/ /\ top = thief[p].t
          /\ top' = Inc(top)
          /\ ret' = [ret EXCEPT ![p] = thief[p].item]
       \/ /\ top # thief[p].t
          /\ ret' = [ret EXCEPT ![p] = Nothing]
          /\ UNCHANGED top
    /\ UNCHANGED <<bottom, array, arrays, pushes, own>>

-----------------------------------------------------------------------------
OwnerNext ==
    \/ PushLoad \/ PushGrow \/ PushWrite \/ PushPublish
    \/ PopClaim \/ PopMany \/ PopLast \/ PopNone \/ PopRace \/ PopRestore

ThiefNext(p) ==
    StealTop(p) \/ StealBottom(p) \/ StealArray(p) \/ StealRead(p) \/ StealCas(p)

Next ==
    \/ OwnerNext
    \/ \E p \in Thieves : ThiefNext(p)

Spec == Init /\ [][Next]_vars

(* The owner finishes the operation it is in; thieves keep on stealing.    *)
Fairness ==
    /\ WF_vars(OwnerNext /\ own.pc # "idle")
    /\ \A p \in Thieves : WF_vars(ThiefNext(p))

FairSpec == Spec /\ Fairness

-----------------------------------------------------------------------------
(* The items in the queue.  While pop() has claimed the back and not yet   *)
(* decided (or is about to undo the claim), M_bottom is one too small.     *)
back == IF own.pc \in {"check", "race", "restore"} THEN Inc(bottom) ELSE bottom

content == [i \in 1..(back - top) |-> Get(arrays[array], top + i - 1)]

D == INSTANCE Deque WITH deque <- content

OwnerPc == {"idle", "grow", "write", "publish", "check", "race", "restore"}
ThiefPc == {"idle", "bottom", "array", "read", "cas"}

(* An Array is replaced only when full, so none has more slots than this.  *)
MaxCapacity == Capacity + 2 * MaxPush
ArrayOK(a) == /\ a.C \in 1..MaxCapacity
              /\ a.S \in [0..(a.C - 1) -> Slot]

(* Every variable of the queue holds a value of its C++ type, and no Array *)
(* outgrows twice what was pushed.                                         *)
TypeOK ==
    /\ top \in 0..(Word - 1)
    /\ bottom \in 0..(Word - 1)
    /\ pushes \in 0..MaxPush
    /\ array \in Nat \ {0}
    /\ arrays = [k \in 1..array |-> arrays[k]]
    /\ \A k \in 1..array : ArrayOK(arrays[k])
    /\ own \in [pc : OwnerPc, b : 0..(Word - 1), t : 0..(Word - 1),
               item : Slot \cup {Nothing}]
    /\ thief \in [Thieves -> [pc : ThiefPc, t : 0..(Word - 1), a : 1..array,
                              item : Slot \cup {Nothing}]]
    /\ ret \in [{Owner} \cup Thieves -> Answer]

(* push(), pop() and steal() implement a linearizable deque: every item    *)
(* that was pushed leaves exactly once, from the back to the owner or from *)
(* the front to a thief, across the last-item race and across resizes, and *)
(* pop() answers nullopt only when there is nothing to pop.                *)
Linearizable == D!Spec

(* A thief that will win the compare-exchange on M_top holds the item of   *)
(* that position, whatever the owner did to the array in between: wrapped  *)
(* around it, popped down to it or replaced it by a larger one.            *)
StolenItemIsCurrent ==
    \A p \in Thieves :
        thief[p].pc = "cas" /\ thief[p].t = top
            => content # <<>> /\ thief[p].item = content[1]

(* The inductive invariant behind StolenItemIsCurrent and Linearizable.    *)

(* The counters never cross, and the live positions fit in the Array.      *)
CountersOK ==
    /\ top <= back
    /\ bottom <= pushes
    /\ back <= pushes
    /\ back <= top + arrays[array].C

(* What the owner read before is still good enough at its next step.       *)
OwnerOK ==
    /\ own.pc \in {"grow", "write", "publish"} =>
          /\ own.b = bottom
          /\ own.t <= top
          /\ pushes < MaxPush
    /\ own.pc = "grow" => /\ own.b <= own.t + arrays[array].C
                          /\ arrays[array].C <= MaxPush
    /\ own.pc \in {"write", "publish"} => own.b < own.t + arrays[array].C
    /\ own.pc = "publish" => Get(arrays[array], own.b) = pushes + 1
    /\ own.pc \in {"check", "race", "restore"} => own.b = bottom
    /\ own.pc \in {"check", "race"} => ret[Owner] = Busy
    /\ own.pc = "race" => /\ own.t = own.b
                          /\ own.b <= top
                          /\ own.item = Get(arrays[array], own.b)
    /\ own.pc = "restore" => top = own.b + 1

(* Every live position holds an item that was pushed.                      *)
LiveOK == \A i \in top..(back - 1) : Get(arrays[array], i) \in 1..pushes

(* As long as M_top has not moved, what a thief saw is what is there.      *)
ThiefOK(p) ==
    /\ thief[p].pc # "idle" => ret[p] = Busy /\ thief[p].t <= top
    /\ thief[p].t = top =>
          /\ thief[p].pc \in {"array", "read", "cas"} => top < back
          /\ thief[p].pc = "read" =>
                Get(arrays[thief[p].a], top) = Get(arrays[array], top)
          /\ thief[p].pc = "cas" => thief[p].item = Get(arrays[array], top)

Inv == /\ TypeOK
       /\ CountersOK
       /\ OwnerOK
       /\ LiveOK
       /\ \A p \in Thieves : ThiefOK(p)

(* With thieves that keep stealing and an owner that finishes what it      *)
(* began, no item is stranded in the queue: it drains again and again.     *)
Drains == []<>(content = <<>>)
=============================================================================
