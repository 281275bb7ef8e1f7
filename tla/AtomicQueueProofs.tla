------------------------- MODULE AtomicQueueProofs -------------------------
(***************************************************************************)
(* The bounded queue is correct for any number of producers and consumers, *)
(* any size and any start of the tickets: a plain element has one user at  *)
(* a time, no element is lost or handed out twice, and a try call gives up *)
(* only for a reason.                                                      *)
(***************************************************************************)
EXTENDS AtomicQueue, FiniteSetTheorems, TLAPS

-----------------------------------------------------------------------------
(* The parts of the inductive invariant.                                   *)

Writing(p) == prod[p].pc \in {"write", "stored"}
Reading(c) == cons[c].pc \in {"read", "empty"}
PSlot(p) == SlotOf(prod[p].ticket)
CSlot(c) == SlotOf(cons[c].ticket)

(* Only users are inside a call, and with Spsc there is one of each kind.  *)
UsersOK ==
    /\ \A p \in Producers : prod[p].pc # "idle" => p \in users
    /\ \A c \in Consumers : cons[c].pc # "idle" => c \in users
    /\ Spsc => /\ \A p, q \in users \cap Producers : p = q
               /\ \A c, d \in users \cap Consumers : c = d

(* Who is at the plain element of a slot has marked the slot, or is alone  *)
(* (Spsc) and finds it as the other side left it.                          *)
AccessOK ==
    /\ \A p \in Producers : Writing(p) =>
          /\ Protocol = "any" \/ (Spsc /\ prod[p].pc = "write")
          /\ slots[PSlot(p)].state = IF Spsc THEN "EMPTY" ELSE "STORING"
          /\ (slots[PSlot(p)].elem = None) <=> (prod[p].pc = "write")
    /\ \A c \in Consumers : Reading(c) =>
          /\ Protocol = "any" \/ (Spsc /\ cons[c].pc = "read")
          /\ slots[CSlot(c)].state = IF Spsc THEN "STORED" ELSE "LOADING"
          /\ (slots[CSlot(c)].elem = None) <=> (cons[c].pc = "empty")

(* Two threads at one slot: at most one of them is at its element.         *)
AloneOK ==
    /\ \A p, q \in Producers : Writing(p) /\ Writing(q) /\ PSlot(p) = PSlot(q) => p = q
    /\ \A c, d \in Consumers : Reading(c) /\ Reading(d) /\ CSlot(c) = CSlot(d) => c = d

(* What the state of a slot says about its element.                        *)
SlotsOK ==
    \A s \in DOMAIN slots :
        /\ slots[s].state = "EMPTY" /\ slots[s].elem # None =>
              \E p \in Producers : Spsc /\ prod[p].pc = "stored" /\ PSlot(p) = s
        /\ slots[s].state = "STORED" /\ slots[s].elem = None =>
              \E c \in Consumers : Spsc /\ cons[c].pc = "empty" /\ CSlot(c) = s

(* When a thread has an element in its hands.                              *)
HandsOK ==
    /\ \A p \in Producers : (prod[p].elem = None) <=> (prod[p].pc \in {"idle", "stored"})
    /\ \A c \in Consumers : (cons[c].elem = None) <=> (cons[c].pc # "empty")

(* Only what was offered is anywhere.                                      *)
RangeOK ==
    /\ \A p \in Producers : prod[p].elem \in 0..offered
    /\ \A c \in Consumers : cons[c].elem \in 0..offered
    /\ \A s \in DOMAIN slots : slots[s].elem \in 0..offered
    /\ got \subseteq 1..offered

(* No element is in two places, ...                                        *)
OnceOK ==
    /\ \A p, q \in Producers : prod[p].elem = prod[q].elem /\ prod[p].elem # None => p = q
    /\ \A c, d \in Consumers : cons[c].elem = cons[d].elem /\ cons[c].elem # None => c = d
    /\ \A s, r \in DOMAIN slots :
          slots[s].elem = slots[r].elem /\ slots[s].elem # None => s = r
    /\ \A p \in Producers, s \in DOMAIN slots :
          prod[p].elem = slots[s].elem => prod[p].elem = None
    /\ \A p \in Producers, c \in Consumers :
          prod[p].elem = cons[c].elem => prod[p].elem = None
    /\ \A s \in DOMAIN slots, c \in Consumers :
          slots[s].elem = cons[c].elem => slots[s].elem = None
    /\ \A p \in Producers : prod[p].elem \notin got
    /\ \A c \in Consumers : cons[c].elem \notin got
    /\ \A s \in DOMAIN slots : slots[s].elem \notin got

(* ... and every element is in one.                                        *)
SomewhereOK ==
    \A e \in 1..offered :
        \/ \E p \in Producers : prod[p].elem = e
        \/ \E s \in DOMAIN slots : slots[s].elem = e
        \/ \E c \in Consumers : cons[c].elem = e
        \/ e \in got

Inv == /\ TypeOK /\ UsersOK /\ AccessOK /\ AloneOK /\ SlotsOK /\ HandsOK
       /\ RangeOK /\ OnceOK /\ SomewhereOK

-----------------------------------------------------------------------------
(* Arithmetic of tickets and slots.                                        *)

(* A ticket names a slot of the ring (do_push, do_pop).                    *)
LEMMA SlotRange ==
    ASSUME NEW x \in 0..(Word - 1)
    PROVE  SlotOf(x) \in 0..(Size - 1)
  BY SizeAssumption DEF SlotOf

(* A ticket after the last one is a ticket (unsigned arithmetic).          *)
LEMMA IncRange ==
    ASSUME NEW x \in 0..(Word - 1)
    PROVE  Inc(x) \in 0..(Word - 1)
  BY SizeAssumption DEF Inc

(* With one producer and one consumer no two are inside a call.            *)
LEMMA Solo ==
    ASSUME UsersOK, Spsc
    PROVE  /\ \A p, q \in Producers : prod[p].pc # "idle" /\ prod[q].pc # "idle" => p = q
           /\ \A c, d \in Consumers : cons[c].pc # "idle" /\ cons[d].pc # "idle" => c = d
  BY DEF UsersOK

(* The new queue satisfies the invariant.                                  *)
LEMMA InvInit == Init => Inv
<1> SUFFICES ASSUME Init PROVE Inv
  OBVIOUS
<1>1. TypeOK
  BY SizeAssumption, StartAssumption, BoundAssumption
     DEF Init, TypeOK, Frame, Idle, Pcs, Elements, None
<1>2. UsersOK
  <2>1. CASE Spsc
    <3>1. /\ IsFiniteSet(users \cap Producers) /\ Cardinality(users \cap Producers) = 1
          /\ IsFiniteSet(users \cap Consumers) /\ Cardinality(users \cap Consumers) = 1
      BY <2>1, ThreadAssumption, FS_Intersection DEF Init
    <3>2. (\E x : users \cap Producers = {x}) /\ (\E y : users \cap Consumers = {y})
      BY <3>1, FS_Singleton
    <3> QED
      BY <3>2 DEF Init, UsersOK, Idle
  <2>2. CASE ~Spsc
    BY <2>2 DEF Init, UsersOK, Idle
  <2> QED
    BY <2>1, <2>2
<1>3. AccessOK /\ AloneOK /\ SlotsOK /\ HandsOK
  BY DEF Init, AccessOK, AloneOK, SlotsOK, HandsOK, Writing, Reading, Idle, None
<1>4. RangeOK /\ OnceOK /\ SomewhereOK
  BY DEF Init, RangeOK, OnceOK, SomewhereOK, Idle, None
<1> QED
  BY <1>1, <1>2, <1>3, <1>4 DEF Inv


-----------------------------------------------------------------------------
(* Types.                                                                  *)

(* What TypeOK says about one thread and one slot.                         *)
LEMMA Typed ==
    ASSUME TypeOK
    PROVE  /\ \A p \in Producers : /\ prod[p].pc \in Pcs /\ prod[p].ticket \in 0..(Word - 1)
                                   /\ prod[p].elem \in 0..MaxPush
                                   /\ PSlot(p) \in 0..(Size - 1)
           /\ \A c \in Consumers : /\ cons[c].pc \in Pcs /\ cons[c].ticket \in 0..(Word - 1)
                                   /\ cons[c].elem \in 0..MaxPush
                                   /\ CSlot(c) \in 0..(Size - 1)
           /\ \A s \in 0..(Size - 1) : slots[s].elem \in 0..MaxPush
           /\ DOMAIN slots = 0..(Size - 1)
  BY SlotRange DEF TypeOK, Frame, Elements, PSlot, CSlot

(* What a thread writes into its frame: its next step, with a ticket, with *)
(* an element.                                                             *)
Turned(f, t, a) == [f EXCEPT ![t].pc = a]
Ticketed(f, t, a, k) == [f EXCEPT ![t].pc = a, ![t].ticket = k]
Loaded(f, t, a, k, e) == [f EXCEPT ![t].pc = a, ![t].ticket = k, ![t].elem = e]

(* The frames stay frames.                                                 *)
LEMMA FrameMoves ==
    ASSUME NEW T, NEW f \in [T -> Frame], NEW t \in T, NEW a \in Pcs
    PROVE  /\ Turned(f, t, a) \in [T -> Frame]
           /\ \A k \in 0..(Word - 1) : Ticketed(f, t, a, k) \in [T -> Frame]
           /\ \A k \in 0..(Word - 1), e \in Elements : Loaded(f, t, a, k, e) \in [T -> Frame]
<1>1. f[t] \in Frame
  OBVIOUS
<1>2. Turned(f, t, a) \in [T -> Frame]
  BY <1>1 DEF Turned, Frame
<1>3. ASSUME NEW k \in 0..(Word - 1) PROVE Ticketed(f, t, a, k) \in [T -> Frame]
  <2>1. [f[t] EXCEPT !.pc = a, !.ticket = k] \in Frame
    BY <1>1 DEF Frame
  <2> QED
    BY <1>1, <2>1 DEF Ticketed
<1>4. ASSUME NEW k \in 0..(Word - 1), NEW e \in Elements PROVE Loaded(f, t, a, k, e) \in [T -> Frame]
  <2>1. [f[t] EXCEPT !.pc = a, !.ticket = k, !.elem = e] \in Frame
    BY <1>1 DEF Frame
  <2> QED
    BY <1>1, <2>1 DEF Loaded
<1> QED
  BY <1>2, <1>3, <1>4

(* Every operation of the queue keeps the types.                           *)
LEMMA TypeStep == TypeOK /\ [Next]_vars => TypeOK'
<1> SUFFICES ASSUME TypeOK, [Next]_vars PROVE TypeOK'
  OBVIOUS
<1> USE SizeAssumption, BoundAssumption
<1>t. /\ head \in 0..(Word - 1) /\ tail \in 0..(Word - 1)
      /\ Inc(head) \in 0..(Word - 1) /\ Inc(tail) \in 0..(Word - 1)
      /\ \A p \in Producers : Inc(prod[p].ticket) \in 0..(Word - 1)
      /\ \A c \in Consumers : Inc(cons[c].ticket) \in 0..(Word - 1)
  BY IncRange, Typed DEF TypeOK
<1>e. /\ offered \in Nat /\ asked \in Nat /\ None \in Elements
      /\ (offered < MaxPush => offered + 1 \in Elements)
      /\ (asked < MaxPop => asked + 1 \in 0..MaxPop)
  BY DEF TypeOK, Elements, None
<1>f. Idle \in Frame
  BY <1>e DEF Idle, Frame, Pcs
<1>Push. ASSUME NEW p \in Producers, Push(p) PROVE TypeOK'
  <2>1. prod' \in [Producers -> Frame]
    <3>1. offered + 1 \in Elements /\ prod \in [Producers -> Frame] /\ "slot" \in Pcs
      BY <1>Push, <1>e DEF Push, TypeOK, Pcs
    <3>2. prod' = Loaded(prod, p, "slot", head, offered + 1)
      BY <1>Push DEF Push, Loaded
    <3> QED
      BY <1>t, <3>1, <3>2, FrameMoves
  <2>2. head' \in 0..(Word - 1) /\ offered' \in Elements
    BY <1>Push, <1>t, <1>e DEF Push, TypeOK
  <2> QED
    BY <1>Push, <2>1, <2>2 DEF Push, TypeOK
<1>TryPush. ASSUME NEW p \in Producers, TryPush(p) PROVE TypeOK'
  <2>1. prod' \in [Producers -> Frame]
    <3>1. offered + 1 \in Elements /\ prod \in [Producers -> Frame] /\ "check" \in Pcs
      BY <1>TryPush, <1>e DEF TryPush, TypeOK, Pcs
    <3>2. prod' = Loaded(prod, p, "check", head, offered + 1)
      BY <1>TryPush DEF TryPush, Loaded
    <3> QED
      BY <1>t, <3>1, <3>2, FrameMoves
  <2>2. head' \in 0..(Word - 1) /\ offered' \in Elements
    BY <1>TryPush, <1>t, <1>e DEF TryPush, TypeOK
  <2> QED
    BY <1>TryPush, <2>1, <2>2 DEF TryPush, TypeOK
<1>TryPushCheck. ASSUME NEW p \in Producers, TryPushCheck(p) PROVE TypeOK'
  <2>1. prod' \in [Producers -> Frame]
    <3>1. prod \in [Producers -> Frame]
      BY DEF TypeOK
    <3>2. PICK a \in Pcs : prod' = Turned(prod, p, a)
      BY <1>TryPushCheck DEF TryPushCheck, Pcs, Turned
    <3> QED
      BY <3>1, <3>2, FrameMoves
  <2>2. head' \in 0..(Word - 1) /\ offered' \in Elements
    BY <1>TryPushCheck, <1>t, <1>e DEF TryPushCheck, TypeOK
  <2> QED
    BY <1>TryPushCheck, <2>1, <2>2 DEF TryPushCheck, TypeOK
<1>TryPushAgain. ASSUME NEW p \in Producers, TryPushAgain(p) PROVE TypeOK'
  <2>1. prod' \in [Producers -> Frame]
    <3>1. prod \in [Producers -> Frame] /\ "check" \in Pcs
      BY DEF TypeOK, Pcs
    <3>2. prod' = Ticketed(prod, p, "check", head)
      BY <1>TryPushAgain DEF TryPushAgain, Ticketed
    <3> QED
      BY <1>t, <3>1, <3>2, FrameMoves
  <2>2. head' \in 0..(Word - 1) /\ offered' \in Elements
    BY <1>TryPushAgain, <1>t, <1>e DEF TryPushAgain, TypeOK
  <2> QED
    BY <1>TryPushAgain, <2>1, <2>2 DEF TryPushAgain, TypeOK
<1>TryPushCas. ASSUME NEW p \in Producers, TryPushCas(p) PROVE TypeOK'
  <2>1. prod' \in [Producers -> Frame]
    <3>1. prod \in [Producers -> Frame]
      BY DEF TypeOK
    <3>2. CASE prod' = [prod EXCEPT ![p].pc = "slot"]
      BY <3>1, <3>2 DEF Frame, Pcs
    <3>3. CASE prod' = [prod EXCEPT ![p].pc = "check", ![p].ticket = head]
      BY <1>t, <3>1, <3>3 DEF Frame, Pcs
    <3> QED
      BY <1>TryPushCas, <3>2, <3>3 DEF TryPushCas
  <2>2. head' \in 0..(Word - 1) /\ offered' \in Elements
    BY <1>TryPushCas, <1>t, <1>e DEF TryPushCas, TypeOK
  <2> QED
    BY <1>TryPushCas, <2>1, <2>2 DEF TryPushCas, TypeOK
<1>ClaimStore. ASSUME NEW p \in Producers, ClaimStore(p) PROVE TypeOK'
  <2>1. prod' \in [Producers -> Frame]
    BY <1>ClaimStore, <1>e, <1>f, ZenonT(60) DEF ClaimStore, TypeOK, Frame, Pcs
  <2>2. slots' \in [0..(Size - 1) ->
           [state : {"EMPTY", "STORING", "STORED", "LOADING"}, elem : Elements]]
    BY <1>ClaimStore, Typed, ZenonT(60) DEF ClaimStore, TypeOK, Elements, PSlot
  <2> QED
    BY <1>ClaimStore, <2>1, <2>2 DEF ClaimStore, TypeOK
<1>Write. ASSUME NEW p \in Producers, Write(p) PROVE TypeOK'
  <2>1. prod' \in [Producers -> Frame]
    BY <1>Write, <1>e, <1>f, ZenonT(60) DEF Write, TypeOK, Frame, Pcs
  <2>2. slots' \in [0..(Size - 1) ->
           [state : {"EMPTY", "STORING", "STORED", "LOADING"}, elem : Elements]]
    BY <1>Write, Typed, ZenonT(60) DEF Write, TypeOK, Elements, PSlot
  <2> QED
    BY <1>Write, <2>1, <2>2 DEF Write, TypeOK
<1>Stored. ASSUME NEW p \in Producers, Stored(p) PROVE TypeOK'
  <2>1. prod' \in [Producers -> Frame]
    BY <1>Stored, <1>e, <1>f DEF Stored, TypeOK
  <2>2. slots' \in [0..(Size - 1) ->
           [state : {"EMPTY", "STORING", "STORED", "LOADING"}, elem : Elements]]
    BY <1>Stored, Typed, ZenonT(60) DEF Stored, TypeOK, Elements, PSlot
  <2> QED
    BY <1>Stored, <2>1, <2>2 DEF Stored, TypeOK
<1>StoreAtomic. ASSUME NEW p \in Producers, StoreAtomic(p) PROVE TypeOK'
  <2>1. prod' \in [Producers -> Frame]
    BY <1>StoreAtomic, <1>e, <1>f DEF StoreAtomic, TypeOK
  <2>2. slots' \in [0..(Size - 1) ->
           [state : {"EMPTY", "STORING", "STORED", "LOADING"}, elem : Elements]]
    BY <1>StoreAtomic, Typed DEF StoreAtomic, TypeOK, Elements, PSlot
  <2> QED
    BY <1>StoreAtomic, <2>1, <2>2 DEF StoreAtomic, TypeOK
<1>Pop. ASSUME NEW c \in Consumers, Pop(c) PROVE TypeOK'
  <2>1. cons' \in [Consumers -> Frame]
    <3>1. cons \in [Consumers -> Frame] /\ "slot" \in Pcs
      BY DEF TypeOK, Pcs
    <3>2. cons' = Ticketed(cons, c, "slot", tail)
      BY <1>Pop DEF Pop, Ticketed
    <3> QED
      BY <1>t, <3>1, <3>2, FrameMoves
  <2>2. tail' \in 0..(Word - 1) /\ asked' \in 0..MaxPop
    BY <1>Pop, <1>t, <1>e DEF Pop, TypeOK
  <2> QED
    BY <1>Pop, <2>1, <2>2 DEF Pop, TypeOK
<1>TryPop. ASSUME NEW c \in Consumers, TryPop(c) PROVE TypeOK'
  <2>1. cons' \in [Consumers -> Frame]
    <3>1. cons \in [Consumers -> Frame] /\ "check" \in Pcs
      BY DEF TypeOK, Pcs
    <3>2. cons' = Ticketed(cons, c, "check", tail)
      BY <1>TryPop DEF TryPop, Ticketed
    <3> QED
      BY <1>t, <3>1, <3>2, FrameMoves
  <2>2. tail' \in 0..(Word - 1) /\ asked' \in 0..MaxPop
    BY <1>TryPop, <1>t, <1>e DEF TryPop, TypeOK
  <2> QED
    BY <1>TryPop, <2>1, <2>2 DEF TryPop, TypeOK
<1>TryPopCheck. ASSUME NEW c \in Consumers, TryPopCheck(c) PROVE TypeOK'
  <2>1. cons' \in [Consumers -> Frame]
    <3>1. cons \in [Consumers -> Frame]
      BY DEF TypeOK
    <3>2. PICK a \in Pcs : cons' = Turned(cons, c, a)
      BY <1>TryPopCheck DEF TryPopCheck, Pcs, Turned
    <3> QED
      BY <3>1, <3>2, FrameMoves
  <2>2. tail' \in 0..(Word - 1) /\ asked' \in 0..MaxPop
    BY <1>TryPopCheck, <1>t, <1>e DEF TryPopCheck, TypeOK
  <2> QED
    BY <1>TryPopCheck, <2>1, <2>2 DEF TryPopCheck, TypeOK
<1>TryPopAgain. ASSUME NEW c \in Consumers, TryPopAgain(c) PROVE TypeOK'
  <2>1. cons' \in [Consumers -> Frame]
    <3>1. cons \in [Consumers -> Frame] /\ "check" \in Pcs
      BY DEF TypeOK, Pcs
    <3>2. cons' = Ticketed(cons, c, "check", tail)
      BY <1>TryPopAgain DEF TryPopAgain, Ticketed
    <3> QED
      BY <1>t, <3>1, <3>2, FrameMoves
  <2>2. tail' \in 0..(Word - 1) /\ asked' \in 0..MaxPop
    BY <1>TryPopAgain, <1>t, <1>e DEF TryPopAgain, TypeOK
  <2> QED
    BY <1>TryPopAgain, <2>1, <2>2 DEF TryPopAgain, TypeOK
<1>TryPopCas. ASSUME NEW c \in Consumers, TryPopCas(c) PROVE TypeOK'
  <2>1. cons' \in [Consumers -> Frame]
    <3>1. cons \in [Consumers -> Frame]
      BY DEF TypeOK
    <3>2. CASE cons' = [cons EXCEPT ![c].pc = "slot"]
      BY <3>1, <3>2 DEF Frame, Pcs
    <3>3. CASE cons' = [cons EXCEPT ![c].pc = "check", ![c].ticket = tail]
      BY <1>t, <3>1, <3>3 DEF Frame, Pcs
    <3> QED
      BY <1>TryPopCas, <3>2, <3>3 DEF TryPopCas
  <2>2. tail' \in 0..(Word - 1) /\ asked' \in 0..MaxPop
    BY <1>TryPopCas, <1>t, <1>e DEF TryPopCas, TypeOK
  <2> QED
    BY <1>TryPopCas, <2>1, <2>2 DEF TryPopCas, TypeOK
<1>ClaimLoad. ASSUME NEW c \in Consumers, ClaimLoad(c) PROVE TypeOK'
  <2>1. cons' \in [Consumers -> Frame]
    BY <1>ClaimLoad, <1>f, Typed, ZenonT(60) DEF ClaimLoad, TypeOK, Frame, Pcs, Elements, CSlot
  <2>2. slots' \in [0..(Size - 1) ->
           [state : {"EMPTY", "STORING", "STORED", "LOADING"}, elem : Elements]]
    BY <1>ClaimLoad, <1>e, Typed, ZenonT(60) DEF ClaimLoad, TypeOK, Elements, CSlot
  <2> QED
    BY <1>ClaimLoad, <2>1, <2>2 DEF ClaimLoad, TypeOK
<1>Read. ASSUME NEW c \in Consumers, Read(c) PROVE TypeOK'
  <2>1. cons' \in [Consumers -> Frame]
    BY <1>Read, <1>f, Typed, ZenonT(60) DEF Read, TypeOK, Frame, Pcs, Elements, CSlot
  <2>2. slots' \in [0..(Size - 1) ->
           [state : {"EMPTY", "STORING", "STORED", "LOADING"}, elem : Elements]]
    BY <1>Read, <1>e, Typed, ZenonT(60) DEF Read, TypeOK, Elements, CSlot
  <2> QED
    BY <1>Read, <2>1, <2>2 DEF Read, TypeOK
<1>Emptied. ASSUME NEW c \in Consumers, Emptied(c) PROVE TypeOK'
  <2>1. cons' \in [Consumers -> Frame]
    BY <1>Emptied, <1>f, Typed DEF Emptied, TypeOK
  <2>2. slots' \in [0..(Size - 1) ->
           [state : {"EMPTY", "STORING", "STORED", "LOADING"}, elem : Elements]]
    BY <1>Emptied, <1>e, Typed, ZenonT(60) DEF Emptied, TypeOK, Elements, CSlot
  <2>3. got' \subseteq Elements
    BY <1>Emptied, Typed DEF Emptied, TypeOK, Elements, CSlot
  <2> QED
    BY <1>Emptied, <2>1, <2>2, <2>3 DEF Emptied, TypeOK
<1>LoadAtomic. ASSUME NEW c \in Consumers, LoadAtomic(c) PROVE TypeOK'
  <2>1. cons' \in [Consumers -> Frame]
    BY <1>LoadAtomic, <1>f, Typed DEF LoadAtomic, TypeOK
  <2>2. slots' \in [0..(Size - 1) ->
           [state : {"EMPTY", "STORING", "STORED", "LOADING"}, elem : Elements]]
    BY <1>LoadAtomic, <1>e, Typed DEF LoadAtomic, TypeOK, Elements, CSlot
  <2>3. got' \subseteq Elements
    BY <1>LoadAtomic, Typed DEF LoadAtomic, TypeOK, Elements, CSlot
  <2> QED
    BY <1>LoadAtomic, <2>1, <2>2, <2>3 DEF LoadAtomic, TypeOK
<1>u. CASE UNCHANGED vars
  BY <1>u DEF vars, TypeOK
<1> QED
  BY <1>u, <1>Push, <1>TryPush, <1>TryPushCheck, <1>TryPushAgain, <1>TryPushCas,
     <1>ClaimStore, <1>Write, <1>Stored, <1>StoreAtomic,
     <1>Pop, <1>TryPop, <1>TryPopCheck, <1>TryPopAgain, <1>TryPopCas,
     <1>ClaimLoad, <1>Read, <1>Emptied, <1>LoadAtomic
     DEF Next, ProducerNext, ConsumerNext

-----------------------------------------------------------------------------
(* Steps that stay away from the slots.                                    *)

(* A producer begins a call with the next element (push, try_push).        *)
LEMMA OfferPreserves ==
    ASSUME Inv, TypeOK', NEW p \in Producers, prod[p].pc = "idle", p \in users,
           UNCHANGED <<kind, users, slots, cons, got>>, offered' = offered + 1,
           prod'[p].pc \in {"check", "slot"}, prod'[p].elem = offered + 1,
           \A q \in Producers : q # p => prod'[q] = prod[q]
    PROVE  Inv'
<1>0. /\ TypeOK /\ UsersOK /\ AccessOK /\ AloneOK /\ SlotsOK /\ HandsOK
      /\ RangeOK /\ OnceOK /\ SomewhereOK
  BY DEF Inv
<1>1. UsersOK'
  BY <1>0 DEF UsersOK, Spsc
<1>2. AccessOK' /\ AloneOK'
  BY <1>0 DEF AccessOK, AloneOK, Writing, Reading, PSlot, CSlot, Spsc, Protocol
<1>3. SlotsOK'
  BY <1>0 DEF SlotsOK, PSlot, CSlot, Spsc
<1>4. HandsOK'
  BY <1>0 DEF HandsOK, None, TypeOK, Elements
<1>5. RangeOK'
  BY <1>0, SMTT(60) DEF RangeOK, TypeOK, Elements
<1>6. OnceOK'
  <2>1. /\ \A q \in Producers : prod[q].elem # offered + 1
        /\ \A c \in Consumers : cons[c].elem # offered + 1
        /\ \A s \in DOMAIN slots : slots[s].elem # offered + 1
        /\ offered + 1 \notin got
    BY <1>0 DEF RangeOK, TypeOK, Elements
  <2> QED
    BY <1>0, <2>1 DEF OnceOK
<1>7. SomewhereOK'
  BY <1>0, SMTT(60) DEF SomewhereOK, HandsOK, TypeOK, Elements, None
<1> QED
  BY <1>1, <1>2, <1>3, <1>4, <1>5, <1>6, <1>7 DEF Inv

(* A producer goes on in try_push() with its element in its hands.         *)
LEMMA TryPreserves ==
    ASSUME Inv, TypeOK', NEW p \in Producers, prod[p].pc \in {"check", "again", "cas"},
           UNCHANGED <<kind, users, slots, cons, got, offered>>,
           prod'[p].pc \in {"check", "again", "cas", "slot"}, prod'[p].elem = prod[p].elem,
           \A q \in Producers : q # p => prod'[q] = prod[q]
    PROVE  Inv'
<1>0. /\ TypeOK /\ UsersOK /\ AccessOK /\ AloneOK /\ SlotsOK /\ HandsOK
      /\ RangeOK /\ OnceOK /\ SomewhereOK
  BY DEF Inv
<1>1. UsersOK'
  BY <1>0 DEF UsersOK, Spsc
<1>2. AccessOK' /\ AloneOK'
  BY <1>0 DEF AccessOK, AloneOK, Writing, Reading, PSlot, CSlot, Spsc, Protocol
<1>3. SlotsOK'
  BY <1>0 DEF SlotsOK, PSlot, CSlot, Spsc
<1>4. HandsOK'
  BY <1>0 DEF HandsOK
<1>5. RangeOK' /\ SomewhereOK'
  BY <1>0 DEF RangeOK, SomewhereOK
<1>6. OnceOK'
  BY <1>0 DEF OnceOK
<1> QED
  BY <1>1, <1>2, <1>3, <1>4, <1>5, <1>6 DEF Inv

(* A consumer begins a call or goes on in try_pop(), with empty hands.     *)
LEMMA AskPreserves ==
    ASSUME Inv, TypeOK', NEW c \in Consumers, c \in users,
           cons[c].pc \in {"idle", "check", "again", "cas"},
           UNCHANGED <<kind, users, slots, prod, got, offered>>,
           cons'[c].pc \in {"check", "again", "cas", "slot"}, cons'[c].elem = cons[c].elem,
           \A d \in Consumers : d # c => cons'[d] = cons[d]
    PROVE  Inv'
<1>0. /\ TypeOK /\ UsersOK /\ AccessOK /\ AloneOK /\ SlotsOK /\ HandsOK
      /\ RangeOK /\ OnceOK /\ SomewhereOK
  BY DEF Inv
<1>1. UsersOK'
  BY <1>0 DEF UsersOK, Spsc
<1>2. AccessOK' /\ AloneOK'
  BY <1>0 DEF AccessOK, AloneOK, Writing, Reading, PSlot, CSlot, Spsc, Protocol
<1>3. SlotsOK'
  BY <1>0 DEF SlotsOK, PSlot, CSlot, Spsc
<1>4. HandsOK'
  BY <1>0 DEF HandsOK
<1>5. RangeOK' /\ SomewhereOK'
  BY <1>0 DEF RangeOK, SomewhereOK
<1>6. OnceOK'
  BY <1>0 DEF OnceOK
<1> QED
  BY <1>1, <1>2, <1>3, <1>4, <1>5, <1>6 DEF Inv

-----------------------------------------------------------------------------
(* Steps at a slot.                                                        *)

(* A producer takes an empty slot (do_push_any).                           *)
LEMMA ClaimStorePreserves ==
    ASSUME Inv, TypeOK', NEW p \in Producers, ClaimStore(p) PROVE Inv'
<1> DEFINE s == PSlot(p)
<1>0. /\ TypeOK /\ UsersOK /\ AccessOK /\ AloneOK /\ SlotsOK /\ HandsOK
      /\ RangeOK /\ OnceOK /\ SomewhereOK
  BY DEF Inv
<1>t. /\ s \in DOMAIN slots /\ DOMAIN slots' = DOMAIN slots
      /\ \A q \in Producers : PSlot(q) \in DOMAIN slots
      /\ \A d \in Consumers : CSlot(d) \in DOMAIN slots
  BY <1>0, Typed DEF TypeOK
<1>m. /\ prod'[p].pc = "write" /\ prod'[p].elem = prod[p].elem
      /\ prod'[p].ticket = prod[p].ticket /\ prod[p].pc = "slot"
      /\ \A q \in Producers : q # p => prod'[q] = prod[q]
      /\ UNCHANGED <<kind, users, cons, offered, got>>
  BY <1>0 DEF ClaimStore, TypeOK, Frame
<1>n. /\ Protocol = "any" \/ Spsc
      /\ slots[s].state = "EMPTY"
      /\ slots'[s].state = (IF Spsc THEN "EMPTY" ELSE "STORING")
      /\ slots'[s].elem = slots[s].elem
      /\ \A r \in DOMAIN slots : r # s => slots'[r] = slots[r]
  BY <1>0, <1>t DEF ClaimStore, TypeOK, PSlot
<1>a. Spsc => \A q \in Producers : prod[q].pc # "idle" => q = p
  BY <1>0, <1>m, Solo
<1>e. slots[s].elem = None
  BY <1>0, <1>t, <1>m, <1>n, <1>a DEF SlotsOK
<1>1. UsersOK'
  BY <1>0, <1>m DEF UsersOK, Spsc
<1>2. AccessOK'
  BY <1>0, <1>t, <1>m, <1>n, <1>a, <1>e DEF AccessOK, Writing, Reading, PSlot, CSlot, Spsc, Protocol
<1>3. AloneOK'
  BY <1>0, <1>t, <1>m, <1>n, <1>a DEF AccessOK, AloneOK, Writing, Reading, PSlot, CSlot, Spsc
<1>4. SlotsOK'
  BY <1>0, <1>t, <1>m, <1>n DEF SlotsOK, AccessOK, Writing, Reading, PSlot, CSlot, Spsc
<1>5. HandsOK'
  BY <1>0, <1>m DEF HandsOK
<1>6. RangeOK'
  BY <1>0, <1>t, <1>m, <1>n DEF RangeOK
<1>7. OnceOK'
  BY <1>0, <1>t, <1>m, <1>n DEF OnceOK
<1>8. SomewhereOK'
  BY <1>0, <1>t, <1>m, <1>n DEF SomewhereOK
<1> QED
  BY <1>1, <1>2, <1>3, <1>4, <1>5, <1>6, <1>7, <1>8 DEF Inv

(* A producer moves its element into its slot (do_push_any).               *)
LEMMA WritePreserves ==
    ASSUME Inv, TypeOK', NEW p \in Producers, Write(p) PROVE Inv'
<1> DEFINE s == PSlot(p)
<1>0. /\ TypeOK /\ UsersOK /\ AccessOK /\ AloneOK /\ SlotsOK /\ HandsOK
      /\ RangeOK /\ OnceOK /\ SomewhereOK
  BY DEF Inv
<1>t. /\ s \in DOMAIN slots /\ DOMAIN slots' = DOMAIN slots
      /\ \A q \in Producers : PSlot(q) \in DOMAIN slots
      /\ \A d \in Consumers : CSlot(d) \in DOMAIN slots
  BY <1>0, Typed DEF TypeOK
<1>m. /\ prod'[p].pc = "stored" /\ prod'[p].elem = None
      /\ prod'[p].ticket = prod[p].ticket /\ prod[p].pc = "write" /\ prod[p].elem # None
      /\ \A q \in Producers : q # p => prod'[q] = prod[q]
      /\ UNCHANGED <<kind, users, cons, offered, got>>
  BY <1>0 DEF Write, TypeOK, Frame, HandsOK
<1>e. slots[s].elem = None
  BY <1>0, <1>m DEF AccessOK, Writing
<1>n. /\ Protocol = "any"
      /\ slots'[s].state = slots[s].state
      /\ slots'[s].elem = prod[p].elem
      /\ \A r \in DOMAIN slots : r # s => slots'[r] = slots[r]
  BY <1>0, <1>t DEF Write, TypeOK, PSlot
<1>1. UsersOK'
  BY <1>0, <1>m DEF UsersOK, Spsc
<1>2. AccessOK'
  BY <1>0, <1>t, <1>m, <1>n DEF AccessOK, AloneOK, Writing, Reading, PSlot, CSlot, Spsc, Protocol
<1>3. AloneOK'
  BY <1>0, <1>t, <1>m, <1>n DEF AccessOK, AloneOK, Writing, Reading, PSlot, CSlot, Spsc, Protocol
<1>4. SlotsOK'
  BY <1>0, <1>t, <1>m, <1>n DEF SlotsOK, AccessOK, Writing, Reading, PSlot, CSlot, Spsc
<1>5. HandsOK'
  BY <1>0, <1>m DEF HandsOK
<1>6. RangeOK'
  <2>1. None \in 0..offered
    BY <1>0 DEF None, TypeOK, Elements
  <2> QED
    BY <1>0, <1>t, <1>m, <1>n, <2>1 DEF RangeOK
<1>7. OnceOK'
  BY <1>0, <1>t, <1>m, <1>n, <1>e DEF OnceOK
<1>8. SomewhereOK'
  BY <1>0, <1>t, <1>m, <1>n, <1>e DEF SomewhereOK, None
<1> QED
  BY <1>1, <1>2, <1>3, <1>4, <1>5, <1>6, <1>7, <1>8 DEF Inv

(* A producer publishes its element (do_push_any).                         *)
LEMMA StoredPreserves ==
    ASSUME Inv, TypeOK', NEW p \in Producers, Stored(p) PROVE Inv'
<1> DEFINE s == PSlot(p)
<1>0. /\ TypeOK /\ UsersOK /\ AccessOK /\ AloneOK /\ SlotsOK /\ HandsOK
      /\ RangeOK /\ OnceOK /\ SomewhereOK
  BY DEF Inv
<1>t. /\ s \in DOMAIN slots /\ DOMAIN slots' = DOMAIN slots
      /\ \A q \in Producers : PSlot(q) \in DOMAIN slots
      /\ \A d \in Consumers : CSlot(d) \in DOMAIN slots
  BY <1>0, Typed DEF TypeOK
<1>m. /\ prod'[p].pc = "idle" /\ prod'[p].elem = None
      /\ prod[p].pc = "stored" /\ prod[p].elem = None
      /\ \A q \in Producers : q # p => prod'[q] = prod[q]
      /\ UNCHANGED <<kind, users, cons, offered, got>>
  BY <1>0 DEF Stored, TypeOK, Idle, HandsOK
<1>n. /\ slots[s].elem # None
      /\ slots[s].state = (IF Spsc THEN "EMPTY" ELSE "STORING")
      /\ slots'[s].state = "STORED" /\ slots'[s].elem = slots[s].elem
      /\ \A r \in DOMAIN slots : r # s => slots'[r] = slots[r]
  BY <1>0, <1>t, <1>m DEF Stored, TypeOK, PSlot, AccessOK, Writing
<1>1. UsersOK'
  BY <1>0, <1>m DEF UsersOK, Spsc
<1>2. AccessOK'
  BY <1>0, <1>t, <1>m, <1>n DEF AccessOK, AloneOK, Writing, Reading, PSlot, CSlot, Spsc, Protocol
<1>3. AloneOK'
  BY <1>0, <1>t, <1>m, <1>n DEF AccessOK, AloneOK, Writing, Reading, PSlot, CSlot, Spsc, Protocol
<1>4. SlotsOK'
  BY <1>0, <1>t, <1>m, <1>n DEF SlotsOK, AccessOK, Writing, Reading, PSlot, CSlot, Spsc
<1>5. HandsOK'
  BY <1>0, <1>m DEF HandsOK
<1>6. RangeOK'
  BY <1>0, <1>t, <1>m, <1>n DEF RangeOK, None, TypeOK, Elements
<1>7. OnceOK'
  BY <1>0, <1>t, <1>m, <1>n DEF OnceOK
<1>8. SomewhereOK'
  BY <1>0, <1>t, <1>m, <1>n DEF SomewhereOK
<1> QED
  BY <1>1, <1>2, <1>3, <1>4, <1>5, <1>6, <1>7, <1>8 DEF Inv

(* A producer stores an atomic element (do_push_atomic).                   *)
LEMMA StoreAtomicPreserves ==
    ASSUME Inv, TypeOK', NEW p \in Producers, StoreAtomic(p) PROVE Inv'
<1> DEFINE s == PSlot(p)
<1>0. /\ TypeOK /\ UsersOK /\ AccessOK /\ AloneOK /\ SlotsOK /\ HandsOK
      /\ RangeOK /\ OnceOK /\ SomewhereOK
  BY DEF Inv
<1>t. /\ s \in DOMAIN slots /\ DOMAIN slots' = DOMAIN slots
      /\ \A q \in Producers : PSlot(q) \in DOMAIN slots
      /\ \A d \in Consumers : CSlot(d) \in DOMAIN slots
  BY <1>0, Typed DEF TypeOK
<1>m. /\ prod'[p].pc = "idle" /\ prod'[p].elem = None
      /\ prod[p].pc \in {"slot", "write"} /\ prod[p].elem # None
      /\ \A q \in Producers : q # p => prod'[q] = prod[q]
      /\ UNCHANGED <<kind, users, cons, offered, got>>
  BY <1>0 DEF StoreAtomic, TypeOK, Idle, HandsOK
<1>n. /\ Protocol = "atomic" /\ slots[s].state = "EMPTY"
      /\ (prod[p].pc = "slot" => ~Spsc) /\ (prod[p].pc = "write" => slots[s].elem = None)
      /\ slots'[s].state = "STORED" /\ slots'[s].elem = prod[p].elem
      /\ \A r \in DOMAIN slots : r # s => slots'[r] = slots[r]
  BY <1>0, <1>t, <1>m DEF StoreAtomic, TypeOK, PSlot, AccessOK, Writing
<1>e. slots[s].elem = None
  BY <1>0, <1>t, <1>m, <1>n DEF SlotsOK
<1>1. UsersOK'
  BY <1>0, <1>m DEF UsersOK, Spsc
<1>2. AccessOK'
  BY <1>0, <1>t, <1>m, <1>n DEF AccessOK, AloneOK, Writing, Reading, PSlot, CSlot, Spsc, Protocol
<1>3. AloneOK'
  BY <1>0, <1>t, <1>m, <1>n DEF AccessOK, AloneOK, Writing, Reading, PSlot, CSlot, Spsc, Protocol
<1>4. SlotsOK'
  BY <1>0, <1>t, <1>m, <1>n DEF SlotsOK, AccessOK, Writing, Reading, PSlot, CSlot, Spsc
<1>5. HandsOK'
  BY <1>0, <1>m DEF HandsOK
<1>6. RangeOK'
  <2>1. None \in 0..offered
    BY <1>0 DEF None, TypeOK, Elements
  <2> QED
    BY <1>0, <1>t, <1>m, <1>n, <2>1 DEF RangeOK
<1>7. OnceOK'
  BY <1>0, <1>t, <1>m, <1>n, <1>e DEF OnceOK
<1>8. SomewhereOK'
  BY <1>0, <1>t, <1>m, <1>n, <1>e DEF SomewhereOK, None
<1> QED
  BY <1>1, <1>2, <1>3, <1>4, <1>5, <1>6, <1>7, <1>8 DEF Inv

(* A consumer takes a full slot (do_pop_any).                              *)
LEMMA ClaimLoadPreserves ==
    ASSUME Inv, TypeOK', NEW c \in Consumers, ClaimLoad(c) PROVE Inv'
<1> DEFINE s == CSlot(c)
<1>0. /\ TypeOK /\ UsersOK /\ AccessOK /\ AloneOK /\ SlotsOK /\ HandsOK
      /\ RangeOK /\ OnceOK /\ SomewhereOK
  BY DEF Inv
<1>t. /\ s \in DOMAIN slots /\ DOMAIN slots' = DOMAIN slots
      /\ \A q \in Producers : PSlot(q) \in DOMAIN slots
      /\ \A d \in Consumers : CSlot(d) \in DOMAIN slots
  BY <1>0, Typed DEF TypeOK
<1>m. /\ cons'[c].pc = "read" /\ cons'[c].elem = cons[c].elem
      /\ cons'[c].ticket = cons[c].ticket /\ cons[c].pc = "slot"
      /\ \A d \in Consumers : d # c => cons'[d] = cons[d]
      /\ UNCHANGED <<kind, users, prod, offered, got>>
  BY <1>0 DEF ClaimLoad, TypeOK, Frame
<1>n. /\ Protocol = "any" \/ Spsc
      /\ slots[s].state = "STORED"
      /\ slots'[s].state = (IF Spsc THEN "STORED" ELSE "LOADING")
      /\ slots'[s].elem = slots[s].elem
      /\ \A r \in DOMAIN slots : r # s => slots'[r] = slots[r]
  BY <1>0, <1>t DEF ClaimLoad, TypeOK, CSlot
<1>a. Spsc => \A d \in Consumers : cons[d].pc # "idle" => d = c
  BY <1>0, <1>m, Solo
<1>e. slots[s].elem # None
  BY <1>0, <1>t, <1>m, <1>n, <1>a DEF SlotsOK
<1>1. UsersOK'
  BY <1>0, <1>m DEF UsersOK, Spsc
<1>2. AccessOK'
  BY <1>0, <1>t, <1>m, <1>n, <1>a, <1>e DEF AccessOK, Writing, Reading, PSlot, CSlot, Spsc, Protocol
<1>3. AloneOK'
  BY <1>0, <1>t, <1>m, <1>n, <1>a DEF AccessOK, AloneOK, Writing, Reading, PSlot, CSlot, Spsc
<1>4. SlotsOK'
  BY <1>0, <1>t, <1>m, <1>n DEF SlotsOK, AccessOK, Writing, Reading, PSlot, CSlot, Spsc
<1>5. HandsOK'
  BY <1>0, <1>m DEF HandsOK
<1>6. RangeOK'
  BY <1>0, <1>t, <1>m, <1>n DEF RangeOK
<1>7. OnceOK'
  BY <1>0, <1>t, <1>m, <1>n DEF OnceOK
<1>8. SomewhereOK'
  BY <1>0, <1>t, <1>m, <1>n DEF SomewhereOK
<1> QED
  BY <1>1, <1>2, <1>3, <1>4, <1>5, <1>6, <1>7, <1>8 DEF Inv

(* A consumer moves the element out of its slot (do_pop_any).              *)
LEMMA ReadPreserves ==
    ASSUME Inv, TypeOK', NEW c \in Consumers, Read(c) PROVE Inv'
<1> DEFINE s == CSlot(c)
<1>0. /\ TypeOK /\ UsersOK /\ AccessOK /\ AloneOK /\ SlotsOK /\ HandsOK
      /\ RangeOK /\ OnceOK /\ SomewhereOK
  BY DEF Inv
<1>t. /\ s \in DOMAIN slots /\ DOMAIN slots' = DOMAIN slots
      /\ \A q \in Producers : PSlot(q) \in DOMAIN slots
      /\ \A d \in Consumers : CSlot(d) \in DOMAIN slots
  BY <1>0, Typed DEF TypeOK
<1>m. /\ cons'[c].pc = "empty" /\ cons'[c].elem = slots[s].elem
      /\ cons'[c].ticket = cons[c].ticket /\ cons[c].pc = "read" /\ cons[c].elem = None
      /\ \A d \in Consumers : d # c => cons'[d] = cons[d]
      /\ UNCHANGED <<kind, users, prod, offered, got>>
  BY <1>0 DEF Read, TypeOK, Frame, HandsOK, CSlot
<1>e. slots[s].elem # None
  BY <1>0, <1>m DEF AccessOK, Reading
<1>n. /\ Protocol = "any"
      /\ slots'[s].state = slots[s].state
      /\ slots'[s].elem = None
      /\ \A r \in DOMAIN slots : r # s => slots'[r] = slots[r]
  BY <1>0, <1>t, SMTT(60) DEF Read, TypeOK, CSlot
<1>1. UsersOK'
  BY <1>0, <1>m DEF UsersOK, Spsc
<1>2. AccessOK'
  BY <1>0, <1>t, <1>m, <1>n DEF AccessOK, AloneOK, Writing, Reading, PSlot, CSlot, Spsc, Protocol
<1>3. AloneOK'
  BY <1>0, <1>t, <1>m, <1>n DEF AccessOK, AloneOK, Writing, Reading, PSlot, CSlot, Spsc, Protocol
<1>4. SlotsOK'
  BY <1>0, <1>t, <1>m, <1>n DEF SlotsOK, AccessOK, Writing, Reading, PSlot, CSlot, Spsc
<1>5. HandsOK'
  BY <1>0, <1>m, <1>e DEF HandsOK
<1>6. RangeOK'
  BY <1>0, <1>t, <1>m, <1>n DEF RangeOK, None, TypeOK, Elements
<1>7. OnceOK'
  BY <1>0, <1>t, <1>m, <1>n DEF OnceOK
<1>8. SomewhereOK'
  BY <1>0, <1>t, <1>m, <1>n DEF SomewhereOK
<1> QED
  BY <1>1, <1>2, <1>3, <1>4, <1>5, <1>6, <1>7, <1>8 DEF Inv

(* A consumer frees its slot and returns the element (do_pop_any).         *)
LEMMA EmptiedPreserves ==
    ASSUME Inv, TypeOK', NEW c \in Consumers, Emptied(c) PROVE Inv'
<1> DEFINE s == CSlot(c)
<1>0. /\ TypeOK /\ UsersOK /\ AccessOK /\ AloneOK /\ SlotsOK /\ HandsOK
      /\ RangeOK /\ OnceOK /\ SomewhereOK
  BY DEF Inv
<1>t. /\ s \in DOMAIN slots /\ DOMAIN slots' = DOMAIN slots
      /\ \A q \in Producers : PSlot(q) \in DOMAIN slots
      /\ \A d \in Consumers : CSlot(d) \in DOMAIN slots
  BY <1>0, Typed DEF TypeOK
<1>m. /\ cons'[c].pc = "idle" /\ cons'[c].elem = None
      /\ cons[c].pc = "empty" /\ cons[c].elem # None
      /\ \A d \in Consumers : d # c => cons'[d] = cons[d]
      /\ UNCHANGED <<kind, users, prod, offered>> /\ got' = got \cup {cons[c].elem}
  BY <1>0 DEF Emptied, TypeOK, Idle, HandsOK
<1>n. /\ slots[s].elem = None
      /\ slots[s].state = (IF Spsc THEN "STORED" ELSE "LOADING")
      /\ slots'[s].state = "EMPTY" /\ slots'[s].elem = slots[s].elem
      /\ \A r \in DOMAIN slots : r # s => slots'[r] = slots[r]
  BY <1>0, <1>t, <1>m DEF Emptied, TypeOK, CSlot, AccessOK, Reading
<1>1. UsersOK'
  BY <1>0, <1>m DEF UsersOK, Spsc
<1>2. AccessOK'
  BY <1>0, <1>t, <1>m, <1>n DEF AccessOK, AloneOK, Writing, Reading, PSlot, CSlot, Spsc, Protocol
<1>3. AloneOK'
  BY <1>0, <1>t, <1>m, <1>n DEF AccessOK, AloneOK, Writing, Reading, PSlot, CSlot, Spsc, Protocol
<1>4. SlotsOK'
  BY <1>0, <1>t, <1>m, <1>n DEF SlotsOK, AccessOK, Writing, Reading, PSlot, CSlot, Spsc
<1>5. HandsOK'
  BY <1>0, <1>m DEF HandsOK
<1>6. RangeOK'
  <2>1. None \in 0..offered
    BY <1>0 DEF None, TypeOK, Elements
  <2>2. cons[c].elem \in 1..offered
    BY <1>0, <1>t, <1>m DEF RangeOK, None, TypeOK, Elements
  <2>3. got' \subseteq 1..offered
    BY <1>0, <1>m, <2>2 DEF RangeOK
  <2> QED
    BY <1>0, <1>t, <1>m, <1>n, <2>1, <2>3 DEF RangeOK
<1>7. OnceOK'
  BY <1>0, <1>t, <1>m, <1>n DEF OnceOK
<1>8. SomewhereOK'
  BY <1>0, <1>t, <1>m, <1>n DEF SomewhereOK
<1> QED
  BY <1>1, <1>2, <1>3, <1>4, <1>5, <1>6, <1>7, <1>8 DEF Inv

(* A consumer takes an atomic element (do_pop_atomic).                     *)
LEMMA LoadAtomicPreserves ==
    ASSUME Inv, TypeOK', NEW c \in Consumers, LoadAtomic(c) PROVE Inv'
<1> DEFINE s == CSlot(c)
<1>0. /\ TypeOK /\ UsersOK /\ AccessOK /\ AloneOK /\ SlotsOK /\ HandsOK
      /\ RangeOK /\ OnceOK /\ SomewhereOK
  BY DEF Inv
<1>t. /\ s \in DOMAIN slots /\ DOMAIN slots' = DOMAIN slots
      /\ \A q \in Producers : PSlot(q) \in DOMAIN slots
      /\ \A d \in Consumers : CSlot(d) \in DOMAIN slots
  BY <1>0, Typed DEF TypeOK
<1>m. /\ cons'[c].pc = "idle" /\ cons'[c].elem = None
      /\ cons[c].pc \in {"slot", "read"} /\ cons[c].elem = None
      /\ \A d \in Consumers : d # c => cons'[d] = cons[d]
      /\ UNCHANGED <<kind, users, prod, offered>> /\ got' = got \cup {slots[s].elem}
  BY <1>0 DEF LoadAtomic, TypeOK, Idle, HandsOK, CSlot
<1>n. /\ Protocol = "atomic" /\ slots[s].state = "STORED"
      /\ (cons[c].pc = "slot" => ~Spsc) /\ (cons[c].pc = "read" => slots[s].elem # None)
      /\ slots'[s].state = "EMPTY" /\ slots'[s].elem = None
      /\ \A r \in DOMAIN slots : r # s => slots'[r] = slots[r]
  BY <1>0, <1>t, <1>m DEF LoadAtomic, TypeOK, CSlot, AccessOK, Reading
<1>e. slots[s].elem # None
  BY <1>0, <1>t, <1>m, <1>n DEF SlotsOK
<1>1. UsersOK'
  BY <1>0, <1>m DEF UsersOK, Spsc
<1>2. AccessOK'
  BY <1>0, <1>t, <1>m, <1>n DEF AccessOK, AloneOK, Writing, Reading, PSlot, CSlot, Spsc, Protocol
<1>3. AloneOK'
  BY <1>0, <1>t, <1>m, <1>n DEF AccessOK, AloneOK, Writing, Reading, PSlot, CSlot, Spsc, Protocol
<1>4. SlotsOK'
  BY <1>0, <1>t, <1>m, <1>n DEF SlotsOK, AccessOK, Writing, Reading, PSlot, CSlot, Spsc
<1>5. HandsOK'
  BY <1>0, <1>m DEF HandsOK
<1>6. RangeOK'
  <2>1. None \in 0..offered
    BY <1>0 DEF None, TypeOK, Elements
  <2>2. slots[s].elem \in 1..offered
    BY <1>0, <1>t, <1>m, <1>e DEF RangeOK, None, TypeOK, Elements
  <2>3. got' \subseteq 1..offered
    BY <1>0, <1>m, <2>2 DEF RangeOK
  <2> QED
    BY <1>0, <1>t, <1>m, <1>n, <2>1, <2>3 DEF RangeOK
<1>7. OnceOK'
  BY <1>0, <1>t, <1>m, <1>n, <1>e DEF OnceOK
<1>8. SomewhereOK'
  BY <1>0, <1>t, <1>m, <1>n DEF SomewhereOK
<1> QED
  BY <1>1, <1>2, <1>3, <1>4, <1>5, <1>6, <1>7, <1>8 DEF Inv

-----------------------------------------------------------------------------
(* The invariant, and what follows from it.                                *)

(* Every step of every thread preserves the invariant.                     *)
LEMMA InvStep == Inv /\ [Next]_vars => Inv'
<1> SUFFICES ASSUME Inv, [Next]_vars PROVE Inv'
  OBVIOUS
<1>0. TypeOK /\ TypeOK'
  BY TypeStep DEF Inv
<1>1. ASSUME NEW p \in Producers, Push(p) \/ TryPush(p) PROVE Inv'
  <2>1. /\ prod[p].pc = "idle" /\ p \in users /\ offered' = offered + 1
        /\ prod'[p].pc \in {"check", "slot"} /\ prod'[p].elem = offered + 1
        /\ \A q \in Producers : q # p => prod'[q] = prod[q]
        /\ UNCHANGED <<kind, users, slots, cons, got>>
    BY <1>0, <1>1 DEF Push, TryPush, TypeOK, Frame
  <2> QED
    BY <1>0, <2>1, OfferPreserves
<1>2. ASSUME NEW p \in Producers, TryPushCheck(p) \/ TryPushAgain(p) \/ TryPushCas(p)
      PROVE  Inv'
  <2>1. /\ prod[p].pc \in {"check", "again", "cas"}
        /\ UNCHANGED <<kind, users, slots, cons, got, offered>>
    BY <1>2 DEF TryPushCheck, TryPushAgain, TryPushCas
  <2>2. /\ prod'[p].pc \in {"check", "again", "cas", "slot"}
        /\ prod'[p].elem = prod[p].elem
        /\ \A q \in Producers : q # p => prod'[q] = prod[q]
    BY <1>0, <1>2 DEF TryPushCheck, TryPushAgain, TryPushCas, TypeOK, Frame
  <2> QED
    BY <1>0, <2>1, <2>2, TryPreserves
<1>3. ASSUME NEW c \in Consumers,
             \/ Pop(c) \/ TryPop(c) \/ TryPopCheck(c) \/ TryPopAgain(c) \/ TryPopCas(c)
      PROVE  Inv'
  <2>1. /\ cons[c].pc \in {"idle", "check", "again", "cas"}
        /\ UNCHANGED <<kind, users, slots, prod, got, offered>>
    BY <1>3 DEF Pop, TryPop, TryPopCheck, TryPopAgain, TryPopCas
  <2>2. c \in users
    BY <1>3 DEF Pop, TryPop, TryPopCheck, TryPopAgain, TryPopCas, Inv, UsersOK
  <2>3. /\ cons'[c].pc \in {"check", "again", "cas", "slot"}
        /\ cons'[c].elem = cons[c].elem
        /\ \A d \in Consumers : d # c => cons'[d] = cons[d]
    BY <1>0, <1>3 DEF Pop, TryPop, TryPopCheck, TryPopAgain, TryPopCas, TypeOK, Frame
  <2> QED
    BY <1>0, <2>1, <2>2, <2>3, AskPreserves
<1>4. CASE UNCHANGED vars
  BY <1>4 DEF vars, Inv, TypeOK, UsersOK, AccessOK, AloneOK, SlotsOK, HandsOK, RangeOK,
              OnceOK, SomewhereOK, Writing, Reading, PSlot, CSlot, Spsc, Protocol
<1> QED
  BY <1>0, <1>1, <1>2, <1>3, <1>4, ClaimStorePreserves, WritePreserves, StoredPreserves,
     StoreAtomicPreserves, ClaimLoadPreserves, ReadPreserves, EmptiedPreserves,
     LoadAtomicPreserves DEF Next, ProducerNext, ConsumerNext

(* The invariant holds in every reachable state.                           *)
THEOREM QueueInvariant == Spec => []Inv
  BY InvInit, InvStep, PTL DEF Spec

(* The plain element of a slot is never accessed by two threads at a time: *)
(* the states of a slot are a lock (do_push_any, do_pop_any).              *)
THEOREM AccessIsExclusive == Spec => []ExclusiveAccess
<1>1. Inv => ExclusiveAccess
  <2> SUFFICES ASSUME Inv PROVE ExclusiveAccess
    OBVIOUS
  <2>1. AccessOK /\ AloneOK
    BY DEF Inv
  <2> QED
    BY <2>1 DEF ExclusiveAccess, AccessOK, AloneOK, Writing, Reading, PSlot, CSlot
<1> QED
  BY <1>1, QueueInvariant, PTL

(* An element in exactly one place: the invariant says which one.          *)
LEMMA OnePlace ==
    ASSUME Inv, NEW e \in 1..offered
    PROVE  \E x : Places(e) = {x}
<1>0. OnceOK /\ SomewhereOK /\ e # None
  BY DEF Inv, None
<1>1. CASE \E p \in Producers : prod[p].elem = e
  <2>1. PICK p \in Producers : prod[p].elem = e
    BY <1>1
  <2>2. /\ {q \in Producers : prod[q].elem = e} = {p}
        /\ {s \in DOMAIN slots : slots[s].elem = e} = {}
        /\ {c \in Consumers : cons[c].elem = e} = {}
        /\ e \notin got
    BY <1>0, <2>1 DEF OnceOK
  <2>3. Places(e) = {<<"p", p>>}
    BY <2>2 DEF Places
  <2> QED
    BY <2>3
<1>2. CASE \E s \in DOMAIN slots : slots[s].elem = e
  <2>1. PICK s \in DOMAIN slots : slots[s].elem = e
    BY <1>2
  <2>2. /\ {q \in Producers : prod[q].elem = e} = {}
        /\ {r \in DOMAIN slots : slots[r].elem = e} = {s}
        /\ {c \in Consumers : cons[c].elem = e} = {}
        /\ e \notin got
    BY <1>0, <2>1 DEF OnceOK
  <2>3. Places(e) = {<<"s", s>>}
    BY <2>2 DEF Places
  <2> QED
    BY <2>3
<1>3. CASE \E c \in Consumers : cons[c].elem = e
  <2>1. PICK c \in Consumers : cons[c].elem = e
    BY <1>3
  <2>2. /\ {q \in Producers : prod[q].elem = e} = {}
        /\ {r \in DOMAIN slots : slots[r].elem = e} = {}
        /\ {d \in Consumers : cons[d].elem = e} = {c}
        /\ e \notin got
    BY <1>0, <2>1 DEF OnceOK
  <2>3. Places(e) = {<<"c", c>>}
    BY <2>2 DEF Places
  <2> QED
    BY <2>3
<1>4. CASE e \in got
  <2>1. /\ {q \in Producers : prod[q].elem = e} = {}
        /\ {r \in DOMAIN slots : slots[r].elem = e} = {}
        /\ {d \in Consumers : cons[d].elem = e} = {}
    BY <1>0, <1>4 DEF OnceOK
  <2>2. Places(e) = {<<"got", e>>}
    BY <1>4, <2>1 DEF Places
  <2> QED
    BY <2>2
<1> QED
  BY <1>0, <1>1, <1>2, <1>3, <1>4 DEF SomewhereOK

(* No element is lost and none is handed out twice, for any number of      *)
(* threads at a slot and across the wrap-around of the tickets.            *)
THEOREM ElementsAreSafe == Spec => []EachElementOnce
<1>1. Inv => EachElementOnce
  <2> SUFFICES ASSUME Inv PROVE EachElementOnce
    OBVIOUS
  <2>1. ASSUME NEW e \in 1..offered PROVE Cardinality(Places(e)) = 1
    BY OnePlace, FS_Singleton
  <2>2. TypeOK /\ None \notin got
    BY DEF Inv, RangeOK, TypeOK, Elements, None
  <2> QED
    BY <2>1, <2>2 DEF EachElementOnce
<1> QED
  BY <1>1, QueueInvariant, PTL

-----------------------------------------------------------------------------
(* Tickets, counted without wrap-around.                                   *)

(* Division with remainder, ...                                            *)
LEMMA DivMod ==
    ASSUME NEW W \in Nat \ {0}, NEW x \in Int
    PROVE  \E q \in Int : x = W * q + (x % W) /\ x % W \in 0..(W - 1)
<1>1. x = W * (x \div W) + (x % W)
  OBVIOUS
<1>2. x \div W \in Int
  OBVIOUS
<1>3. x % W \in 0..(W - 1)
  OBVIOUS
<1> QED
  BY <1>1, <1>2, <1>3

(* ... by Word, as unsigned arithmetic does it, ...                        *)
LEMMA Division ==
    ASSUME NEW x \in Int
    PROVE  \E q \in Int : x = Word * q + (x % Word) /\ x % Word \in 0..(Word - 1)
<1>1. Word \in Nat \ {0}
  BY SizeAssumption
<1> QED
  BY <1>1, DivMod

(* Multiples of Word are at least Word apart.                              *)
LEMMA Apart ==
    ASSUME NEW q \in Int, NEW p \in Int, q < p
    PROVE  Word * q + Word <= Word * p
<1>0. Word \in Nat \ {0}
  BY SizeAssumption
<1>1. PICK d \in Nat : p = q + 1 + d
  <2>1. p - q - 1 \in Nat /\ p = q + 1 + (p - q - 1)
    OBVIOUS
  <2> QED
    BY <2>1
<1>2. Word * p = Word * q + Word + Word * d
  BY <1>0, <1>1, Z3
<1>3. Word * d \in Nat /\ Word * q \in Int
  BY <1>0, Z3
<1> QED
  BY <1>0, <1>2, <1>3

(* ... whose remainder is unique.                                          *)
LEMMA Remainder ==
    ASSUME NEW x \in Int, NEW q \in Int, NEW r \in 0..(Word - 1), x = Word * q + r
    PROVE  x % Word = r
<1>0. Word \in Nat \ {0}
  BY SizeAssumption
<1>1. PICK p \in Int : x = Word * p + (x % Word) /\ x % Word \in 0..(Word - 1)
  BY Division
<1>2. Word * p \in Int /\ Word * q \in Int
  BY <1>0, Z3
<1>3. PICK y \in 0..(Word - 1) : y = x % Word
  BY <1>1
<1>4. Word * p + y = Word * q + r
  <2>1. Word * p + y = x
    BY <1>1, <1>3
  <2> QED
    BY <2>1
<1>5. ~(q < p)
  BY <1>0, <1>2, <1>3, <1>4, Apart
<1>6. ~(p < q)
  BY <1>0, <1>2, <1>3, <1>4, Apart
<1>7. p = q
  BY <1>5, <1>6
<1>8. y = r
  BY <1>2, <1>4, <1>7
<1> QED
  BY <1>3, <1>8

(* The n-th ticket of head_ or tail_ from the beginning.                   *)
Wrap(n) == (Start + n) % Word

(* A ticket is what remains of its count.                                  *)
LEMMA WrapSplit ==
    ASSUME NEW n \in Nat
    PROVE  \E q \in Int, r \in 0..(Word - 1) : Start + n = Word * q + r /\ r = Wrap(n)
<1>1. Start + n \in Int
  BY SizeAssumption, StartAssumption
<1>2. PICK q \in Int :
         Start + n = Word * q + ((Start + n) % Word) /\ (Start + n) % Word \in 0..(Word - 1)
  BY <1>1, Division
<1> QED
  BY <1>2 DEF Wrap

(* The ticket after the n-th one (fetch_add) is the next one.              *)
LEMMA WrapInc ==
    ASSUME NEW n \in Nat
    PROVE  Inc(Wrap(n)) = Wrap(n + 1)
<1>0. Word \in Nat \ {0} /\ Start + n \in Int /\ Start + (n + 1) \in Int
  BY SizeAssumption, StartAssumption
<1>1. PICK q \in Int, r \in 0..(Word - 1) : Start + n = Word * q + r /\ r = Wrap(n)
  BY WrapSplit
<1>2. Word * q \in Int
  BY <1>0, Z3
<1>3. PICK p \in Int, y \in 0..(Word - 1) : r + 1 = Word * p + y /\ y = Inc(r)
  <2>1. r + 1 \in Int
    OBVIOUS
  <2>2. PICK p \in Int : r + 1 = Word * p + ((r + 1) % Word) /\ (r + 1) % Word \in 0..(Word - 1)
    BY <2>1, Division
  <2> QED
    BY <2>2 DEF Inc
<1>4. Word * p \in Int /\ Word * (q + p) = Word * q + Word * p
  BY <1>0, Z3
<1>5. Start + (n + 1) = Word * (q + p) + y
  BY <1>0, <1>1, <1>2, <1>3, <1>4, StartAssumption
<1>6. Wrap(n + 1) = y
  BY <1>0, <1>5, Remainder DEF Wrap
<1> QED
  BY <1>1, <1>3, <1>6

(* The difference of two tickets is the difference of their counts.        *)
LEMMA WrapDifference ==
    ASSUME NEW m \in Nat, NEW n \in Nat
    PROVE  (Wrap(m) - Wrap(n)) % Word = (m - n) % Word
<1>0. Word \in Nat \ {0} /\ Start \in Int /\ Start + m \in Int /\ Start + n \in Int
  BY SizeAssumption, StartAssumption
<1>1. PICK q \in Int, r \in 0..(Word - 1) : Start + m = Word * q + r /\ r = Wrap(m)
  BY <1>0, WrapSplit
<1>2. PICK p \in Int, y \in 0..(Word - 1) : Start + n = Word * p + y /\ y = Wrap(n)
  BY <1>0, WrapSplit
<1>3. PICK k \in Int, z \in 0..(Word - 1) : r - y = Word * k + z /\ z = (r - y) % Word
  <2>1. r - y \in Int
    BY <1>0
  <2> QED
    BY <2>1, Division
<1>4. /\ Word * q \in Int /\ Word * p \in Int /\ Word * k \in Int
      /\ Word * (q - p + k) = Word * q - Word * p + Word * k
  BY <1>0, Z3
<1>5. m - n = Word * (q - p + k) + z
  BY <1>0, <1>1, <1>2, <1>3, <1>4
<1>6. (m - n) % Word = z
  BY <1>0, <1>5, Remainder
<1> QED
  BY <1>1, <1>2, <1>3, <1>6

(* Counts below Word: the remainder of a difference, negative or not.      *)
LEMMA SmallDifference ==
    ASSUME NEW m \in 0..MaxPush, NEW n \in 0..MaxPop
    PROVE  (m - n) % Word = IF m >= n THEN m - n ELSE m - n + Word
<1>0. /\ Word \in Nat \ {0} /\ m - n \in Int
      /\ MaxPush < Word /\ MaxPop < Word /\ MaxPush \in Nat /\ MaxPop \in Nat
  BY SizeAssumption, RoomAssumption, BoundAssumption
<1>1. CASE m >= n
  <2>1. m - n \in 0..(Word - 1) /\ m - n = Word * 0 + (m - n)
    BY <1>0, <1>1
  <2> QED
    BY <1>0, <1>1, <2>1, Remainder
<1>2. CASE m < n
  <2>1. m - n + Word \in 0..(Word - 1) /\ m - n = Word * (-1) + (m - n + Word)
    BY <1>0, <1>2
  <2> QED
    BY <1>0, <1>2, <2>1, Remainder
<1> QED
  BY <1>1, <1>2

(* The signed difference of two counters, as try_push() and try_pop()      *)
(* compute it, is the true one however often the counters wrapped.         *)
LEMMA WrapDistance ==
    ASSUME NEW m \in 0..MaxPush, NEW n \in 0..MaxPop
    PROVE  /\ Distance(Wrap(m), Wrap(n)) = m - n
           /\ (head = Wrap(m) /\ tail = Wrap(n)) => Ahead = m - n
<1>0. Word \in Nat \ {0} /\ MaxPush < Word \div 2 /\ MaxPop < Word \div 2
      /\ MaxPush \in Nat /\ MaxPop \in Nat
  BY SizeAssumption, RoomAssumption, BoundAssumption
<1>1. (Wrap(m) - Wrap(n)) % Word = IF m >= n THEN m - n ELSE m - n + Word
  <2>1. m \in Nat /\ n \in Nat
    BY <1>0
  <2>2. (Wrap(m) - Wrap(n)) % Word = (m - n) % Word
    BY <2>1, WrapDifference
  <2> QED
    BY <2>2, SmallDifference
<1> DEFINE d == (Wrap(m) - Wrap(n)) % Word
<1>2. /\ Distance(Wrap(m), Wrap(n)) = IF 2 * d < Word THEN d ELSE d - Word
      /\ (head = Wrap(m) /\ tail = Wrap(n)) =>
           Ahead = IF d < Word \div 2 THEN d ELSE d - Word
  BY DEF Distance, Ahead
<1> HIDE DEF d
<1>3. d = IF m >= n THEN m - n ELSE m - n + Word
  BY <1>1 DEF d
<1> QED
  BY <1>0, <1>2, <1>3

(* The producers' tickets, counted without wrap-around: head_ is the h-th, *)
(* no ticket loaded by try_push() is beyond it (it is the h-th with Spsc), *)
(* and every call that still wants a ticket can have one.                  *)
Pushers == {p \in Producers : prod[p].pc \in {"check", "again", "cas"}}
PushTickets(h) ==
    /\ head = Wrap(h) /\ h + Cardinality(Pushers) <= offered
    /\ \A p \in Pushers : \E k \in 0..h : prod[p].ticket = Wrap(k) /\ (Spsc => k = h)
PushTicketsOK == \E h \in 0..MaxPush : PushTickets(h)

(* No producer's step harms the count of tickets.                          *)
LEMMA PushTicketsStep == Inv /\ PushTicketsOK /\ [Next]_vars => PushTicketsOK'
<1> SUFFICES ASSUME Inv, PushTicketsOK, [Next]_vars PROVE PushTicketsOK'
  OBVIOUS
<1>0. TypeOK /\ UsersOK
  BY DEF Inv
<1>1. PICK h \in 0..MaxPush : PushTickets(h)
  BY DEF PushTicketsOK
<1>2. IsFiniteSet(Pushers) /\ Cardinality(Pushers) \in Nat
  BY ThreadAssumption, FS_Subset, FS_CardinalityType DEF Pushers
<1>3. offered \in Nat /\ offered <= MaxPush /\ h \in Nat /\ MaxPush \in Nat
  BY <1>0, BoundAssumption DEF TypeOK, Elements
(* A step that leaves head_ and the calls that want a ticket alone.        *)
<1>same. ASSUME head' = head, offered' = offered, kind' = kind,
                \A p \in Producers : prod'[p] = prod[p] \/ {prod[p].pc, prod'[p].pc}
                                       \cap {"check", "again", "cas"} = {}
         PROVE  PushTicketsOK'
  <2>1. /\ Pushers' = Pushers
        /\ \A p \in Pushers : prod'[p].ticket = prod[p].ticket
    BY <1>same DEF Pushers
  <2>2. PushTickets(h)'
    BY <1>1, <1>same, <2>1 DEF PushTickets, Spsc, Wrap
  <2> QED
    BY <2>2 DEF PushTicketsOK
<1>Push. ASSUME NEW p \in Producers, Push(p) PROVE PushTicketsOK'
  <2>1. /\ prod[p].pc = "idle" /\ prod'[p].pc = "slot" /\ kind' = kind
        /\ \A q \in Producers : q # p => prod'[q] = prod[q]
        /\ head' = Inc(head) /\ offered' = offered + 1 /\ offered < MaxPush
    BY <1>0, <1>Push DEF Push, TypeOK, Frame
  <2>2. Pushers' = Pushers
    BY <2>1 DEF Pushers
  <2>3. h + 1 \in 0..MaxPush
    BY <1>1, <1>2, <1>3, <2>1 DEF PushTickets
  <2>4. head' = Wrap(h + 1) /\ (h + 1) + Cardinality(Pushers') <= offered'
    BY <1>1, <1>2, <1>3, <2>1, <2>2, WrapInc DEF PushTickets
  <2>5. ASSUME NEW q \in Pushers'
        PROVE  \E k \in 0..(h + 1) : prod'[q].ticket = Wrap(k) /\ (Spsc' => k = h + 1)
    <3>1. q \in Producers /\ q \in Pushers /\ q # p /\ prod'[q] = prod[q]
      BY <2>1, <2>2, <2>5 DEF Pushers
    <3>2. ~Spsc
      BY <1>0, <1>Push, <3>1 DEF Push, Pushers, UsersOK
    <3>3. PICK k \in 0..h : prod[q].ticket = Wrap(k)
      BY <1>1, <3>1 DEF PushTickets
    <3>4. k \in 0..(h + 1) /\ ~Spsc'
      BY <1>3, <2>1, <3>2, <3>3 DEF Spsc
    <3> QED
      BY <3>1, <3>3, <3>4
  <2>6. PushTickets(h + 1)'
    BY <2>4, <2>5 DEF PushTickets, Wrap
  <2> QED
    BY <2>3, <2>6 DEF PushTicketsOK
<1>TryPush. ASSUME NEW p \in Producers, TryPush(p) PROVE PushTicketsOK'
  <2>1. /\ prod[p].pc = "idle" /\ prod'[p].pc = "check" /\ prod'[p].ticket = head
        /\ kind' = kind /\ \A q \in Producers : q # p => prod'[q] = prod[q]
        /\ head' = head /\ offered' = offered + 1
    BY <1>0, <1>TryPush DEF TryPush, TypeOK, Frame
  <2>2. Pushers' = Pushers \cup {p} /\ p \notin Pushers
    BY <2>1 DEF Pushers
  <2>3. Cardinality(Pushers') = Cardinality(Pushers) + 1
    BY <1>2, <2>2, FS_AddElement
  <2>4. ASSUME NEW q \in Pushers'
        PROVE  \E k \in 0..h : prod'[q].ticket = Wrap(k) /\ (Spsc' => k = h)
    <3>1. CASE q = p
      BY <1>1, <1>3, <2>1, <3>1 DEF PushTickets
    <3>2. CASE q # p
      BY <1>1, <2>1, <2>2, <2>4, <3>2 DEF PushTickets, Pushers, Spsc
    <3> QED
      BY <3>1, <3>2
  <2>5. PushTickets(h)'
    BY <1>1, <1>2, <1>3, <2>1, <2>3, <2>4 DEF PushTickets, Wrap
  <2> QED
    BY <2>5 DEF PushTicketsOK
(* try_push() goes on with the ticket it has, or with the one it reloads.  *)
<1>keep. ASSUME NEW p \in Pushers, p \in Pushers', prod'[p].ticket \in {prod[p].ticket, head},
                \A q \in Producers : q # p => prod'[q] = prod[q],
                UNCHANGED <<kind, head, offered>>
         PROVE  PushTicketsOK'
  <2>1. Pushers' = Pushers
    BY <1>keep DEF Pushers
  <2>2. ASSUME NEW q \in Pushers
        PROVE  \E k \in 0..h : prod'[q].ticket = Wrap(k) /\ (Spsc' => k = h)
    <3>1. prod'[q].ticket = prod[q].ticket \/ prod'[q].ticket = Wrap(h)
      BY <1>1, <1>keep, <2>2 DEF PushTickets, Pushers
    <3>2. CASE prod'[q].ticket = prod[q].ticket
      BY <1>1, <1>keep, <3>2 DEF PushTickets, Spsc
    <3>3. CASE prod'[q].ticket = Wrap(h)
      BY <1>3, <3>3
    <3> QED
      BY <3>1, <3>2, <3>3
  <2>3. PushTickets(h)'
    BY <1>1, <1>keep, <2>1, <2>2 DEF PushTickets, Wrap
  <2> QED
    BY <2>3 DEF PushTicketsOK
<1>TryPushCheck. ASSUME NEW p \in Producers, TryPushCheck(p) \/ TryPushAgain(p)
                 PROVE  PushTicketsOK'
  <2>1. /\ prod[p].pc \in {"check", "again"} /\ prod'[p].pc \in {"check", "again", "cas"}
        /\ prod'[p].ticket \in {prod[p].ticket, head}
        /\ \A q \in Producers : q # p => prod'[q] = prod[q]
        /\ UNCHANGED <<kind, head, offered>>
    BY <1>0, <1>TryPushCheck DEF TryPushCheck, TryPushAgain, TypeOK, Frame
  <2>2. p \in Pushers /\ p \in Pushers'
    BY <2>1 DEF Pushers
  <2> QED
    BY <1>keep, <2>1, <2>2
<1>TryPushCas. ASSUME NEW p \in Producers, TryPushCas(p) PROVE PushTicketsOK'
  <2>0. p \in Pushers /\ UNCHANGED <<kind, offered>>
    BY <1>TryPushCas DEF TryPushCas, Pushers
  <2>1. CASE prod'[p].pc = "check"
    <3>1. /\ prod'[p].ticket = head /\ head' = head
          /\ \A q \in Producers : q # p => prod'[q] = prod[q]
      BY <1>0, <1>TryPushCas, <2>1 DEF TryPushCas, TypeOK, Frame
    <3>2. p \in Pushers'
      BY <2>0, <2>1 DEF Pushers
    <3> QED
      BY <1>keep, <2>0, <3>1, <3>2
  <2>2. CASE prod'[p].pc # "check"
    <3>1. /\ head = prod[p].ticket \/ Spsc
          /\ head' = Inc(prod[p].ticket) /\ prod'[p].pc = "slot"
          /\ \A q \in Producers : q # p => prod'[q] = prod[q]
      BY <1>0, <1>TryPushCas, <2>2 DEF TryPushCas, TypeOK, Frame
    <3>2. Pushers' = Pushers \ {p}
      BY <2>0, <3>1 DEF Pushers
    <3>3. Cardinality(Pushers') = Cardinality(Pushers) - 1
      BY <1>2, <2>0, <3>2, FS_RemoveElement
    <3>4. prod[p].ticket = Wrap(h)
      BY <1>1, <2>0, <3>1 DEF PushTickets
    <3>5. h + 1 \in 0..MaxPush /\ head' = Wrap(h + 1) /\ (h + 1) + Cardinality(Pushers') <= offered'
      <4>1. Cardinality(Pushers') \in Nat
        BY <1>2, <3>2, FS_Subset, FS_CardinalityType
      <4> QED
        BY <1>1, <1>2, <1>3, <2>0, <3>1, <3>3, <3>4, <4>1, WrapInc DEF PushTickets
    <3>6. ASSUME NEW q \in Pushers'
          PROVE  \E k \in 0..(h + 1) : prod'[q].ticket = Wrap(k) /\ (Spsc' => k = h + 1)
      <4>1. q \in Pushers /\ q \in Producers /\ q # p /\ prod'[q] = prod[q]
        BY <3>1, <3>2, <3>6 DEF Pushers
      <4>2. ~Spsc
        BY <1>0, <2>0, <4>1, Solo DEF Pushers
      <4>3. PICK k \in 0..h : prod[q].ticket = Wrap(k)
        BY <1>1, <4>1 DEF PushTickets
      <4>4. k \in 0..(h + 1) /\ ~Spsc'
        BY <1>3, <2>0, <4>2, <4>3 DEF Spsc
      <4> QED
        BY <4>1, <4>3, <4>4
    <3>7. PushTickets(h + 1)'
      BY <3>5, <3>6 DEF PushTickets, Wrap
    <3> QED
      BY <3>5, <3>7 DEF PushTicketsOK
  <2> QED
    BY <2>1, <2>2
<1>slot. ASSUME NEW p \in Producers, ClaimStore(p) \/ Write(p) \/ Stored(p) \/ StoreAtomic(p)
         PROVE  PushTicketsOK'
  <2>1. /\ UNCHANGED <<kind, head, offered>>
        /\ prod[p].pc \in {"slot", "write", "stored"}
    BY <1>slot DEF ClaimStore, Write, Stored, StoreAtomic
  <2>2. /\ prod'[p].pc \in {"write", "stored", "idle"}
        /\ \A q \in Producers : q # p => prod'[q] = prod[q]
    BY <1>0, <1>slot DEF ClaimStore, Write, Stored, StoreAtomic, TypeOK, Frame, Idle
  <2> QED
    BY <1>same, <2>1, <2>2
<1>other. ASSUME NEW c \in Consumers, ConsumerNext(c) PROVE PushTicketsOK'
  <2>1. UNCHANGED <<kind, head, offered, prod>>
    BY <1>other DEF ConsumerNext, Pop, TryPop, TryPopCheck, TryPopAgain, TryPopCas,
                    ClaimLoad, Read, Emptied, LoadAtomic
  <2> QED
    BY <1>same, <2>1
<1>u. CASE UNCHANGED vars
  BY <1>same, <1>u DEF vars
<1> QED
  BY <1>u, <1>Push, <1>TryPush, <1>TryPushCheck, <1>TryPushCas, <1>slot, <1>other
     DEF Next, ProducerNext

(* The consumers' tickets, counted without wrap-around: tail_ is the h-th, *)
(* no ticket loaded by try_pop() is beyond it (it is the h-th with Spsc),  *)
(* and every call that still wants a ticket can have one.                  *)
Poppers == {p \in Consumers : cons[p].pc \in {"check", "again", "cas"}}
PopTickets(h) ==
    /\ tail = Wrap(h) /\ h + Cardinality(Poppers) <= asked
    /\ \A p \in Poppers : \E k \in 0..h : cons[p].ticket = Wrap(k) /\ (Spsc => k = h)
PopTicketsOK == \E h \in 0..MaxPop : PopTickets(h)

(* No consumer's step harms the count of tickets.                          *)
LEMMA PopTicketsStep == Inv /\ PopTicketsOK /\ [Next]_vars => PopTicketsOK'
<1> SUFFICES ASSUME Inv, PopTicketsOK, [Next]_vars PROVE PopTicketsOK'
  OBVIOUS
<1>0. TypeOK /\ UsersOK
  BY DEF Inv
<1>1. PICK h \in 0..MaxPop : PopTickets(h)
  BY DEF PopTicketsOK
<1>2. IsFiniteSet(Poppers) /\ Cardinality(Poppers) \in Nat
  BY ThreadAssumption, FS_Subset, FS_CardinalityType DEF Poppers
<1>3. asked \in Nat /\ asked <= MaxPop /\ h \in Nat /\ MaxPop \in Nat
  BY <1>0, BoundAssumption DEF TypeOK, Elements
(* A step that leaves tail_ and the calls that want a ticket alone.        *)
<1>same. ASSUME tail' = tail, asked' = asked, kind' = kind,
                \A p \in Consumers : cons'[p] = cons[p] \/ {cons[p].pc, cons'[p].pc}
                                       \cap {"check", "again", "cas"} = {}
         PROVE  PopTicketsOK'
  <2>1. /\ Poppers' = Poppers
        /\ \A p \in Poppers : cons'[p].ticket = cons[p].ticket
    BY <1>same DEF Poppers
  <2>2. PopTickets(h)'
    BY <1>1, <1>same, <2>1 DEF PopTickets, Spsc, Wrap
  <2> QED
    BY <2>2 DEF PopTicketsOK
<1>Pop. ASSUME NEW p \in Consumers, Pop(p) PROVE PopTicketsOK'
  <2>1. /\ cons[p].pc = "idle" /\ cons'[p].pc = "slot" /\ kind' = kind
        /\ \A q \in Consumers : q # p => cons'[q] = cons[q]
        /\ tail' = Inc(tail) /\ asked' = asked + 1 /\ asked < MaxPop
    BY <1>0, <1>Pop DEF Pop, TypeOK, Frame
  <2>2. Poppers' = Poppers
    BY <2>1 DEF Poppers
  <2>3. h + 1 \in 0..MaxPop
    BY <1>1, <1>2, <1>3, <2>1 DEF PopTickets
  <2>4. tail' = Wrap(h + 1) /\ (h + 1) + Cardinality(Poppers') <= asked'
    BY <1>1, <1>2, <1>3, <2>1, <2>2, WrapInc DEF PopTickets
  <2>5. ASSUME NEW q \in Poppers'
        PROVE  \E k \in 0..(h + 1) : cons'[q].ticket = Wrap(k) /\ (Spsc' => k = h + 1)
    <3>1. q \in Consumers /\ q \in Poppers /\ q # p /\ cons'[q] = cons[q]
      BY <2>1, <2>2, <2>5 DEF Poppers
    <3>2. ~Spsc
      BY <1>0, <1>Pop, <3>1 DEF Pop, Poppers, UsersOK
    <3>3. PICK k \in 0..h : cons[q].ticket = Wrap(k)
      BY <1>1, <3>1 DEF PopTickets
    <3>4. k \in 0..(h + 1) /\ ~Spsc'
      BY <1>3, <2>1, <3>2, <3>3 DEF Spsc
    <3> QED
      BY <3>1, <3>3, <3>4
  <2>6. PopTickets(h + 1)'
    BY <2>4, <2>5 DEF PopTickets, Wrap
  <2> QED
    BY <2>3, <2>6 DEF PopTicketsOK
<1>TryPop. ASSUME NEW p \in Consumers, TryPop(p) PROVE PopTicketsOK'
  <2>1. /\ cons[p].pc = "idle" /\ cons'[p].pc = "check" /\ cons'[p].ticket = tail
        /\ kind' = kind /\ \A q \in Consumers : q # p => cons'[q] = cons[q]
        /\ tail' = tail /\ asked' = asked + 1
    BY <1>0, <1>TryPop DEF TryPop, TypeOK, Frame
  <2>2. Poppers' = Poppers \cup {p} /\ p \notin Poppers
    BY <2>1 DEF Poppers
  <2>3. Cardinality(Poppers') = Cardinality(Poppers) + 1
    BY <1>2, <2>2, FS_AddElement
  <2>4. ASSUME NEW q \in Poppers'
        PROVE  \E k \in 0..h : cons'[q].ticket = Wrap(k) /\ (Spsc' => k = h)
    <3>1. CASE q = p
      BY <1>1, <1>3, <2>1, <3>1 DEF PopTickets
    <3>2. CASE q # p
      BY <1>1, <2>1, <2>2, <2>4, <3>2 DEF PopTickets, Poppers, Spsc
    <3> QED
      BY <3>1, <3>2
  <2>5. PopTickets(h)'
    BY <1>1, <1>2, <1>3, <2>1, <2>3, <2>4 DEF PopTickets, Wrap
  <2> QED
    BY <2>5 DEF PopTicketsOK
(* try_pop() goes on with the ticket it has, or with the one it reloads.   *)
<1>keep. ASSUME NEW p \in Poppers, p \in Poppers', cons'[p].ticket \in {cons[p].ticket, tail},
                \A q \in Consumers : q # p => cons'[q] = cons[q],
                UNCHANGED <<kind, tail, asked>>
         PROVE  PopTicketsOK'
  <2>1. Poppers' = Poppers
    BY <1>keep DEF Poppers
  <2>2. ASSUME NEW q \in Poppers
        PROVE  \E k \in 0..h : cons'[q].ticket = Wrap(k) /\ (Spsc' => k = h)
    <3>1. cons'[q].ticket = cons[q].ticket \/ cons'[q].ticket = Wrap(h)
      BY <1>1, <1>keep, <2>2 DEF PopTickets, Poppers
    <3>2. CASE cons'[q].ticket = cons[q].ticket
      BY <1>1, <1>keep, <3>2 DEF PopTickets, Spsc
    <3>3. CASE cons'[q].ticket = Wrap(h)
      BY <1>3, <3>3
    <3> QED
      BY <3>1, <3>2, <3>3
  <2>3. PopTickets(h)'
    BY <1>1, <1>keep, <2>1, <2>2 DEF PopTickets, Wrap
  <2> QED
    BY <2>3 DEF PopTicketsOK
<1>TryPopCheck. ASSUME NEW p \in Consumers, TryPopCheck(p) \/ TryPopAgain(p)
                 PROVE  PopTicketsOK'
  <2>1. /\ cons[p].pc \in {"check", "again"} /\ cons'[p].pc \in {"check", "again", "cas"}
        /\ cons'[p].ticket \in {cons[p].ticket, tail}
        /\ \A q \in Consumers : q # p => cons'[q] = cons[q]
        /\ UNCHANGED <<kind, tail, asked>>
    BY <1>0, <1>TryPopCheck DEF TryPopCheck, TryPopAgain, TypeOK, Frame
  <2>2. p \in Poppers /\ p \in Poppers'
    BY <2>1 DEF Poppers
  <2> QED
    BY <1>keep, <2>1, <2>2
<1>TryPopCas. ASSUME NEW p \in Consumers, TryPopCas(p) PROVE PopTicketsOK'
  <2>0. p \in Poppers /\ UNCHANGED <<kind, asked>>
    BY <1>TryPopCas DEF TryPopCas, Poppers
  <2>1. CASE cons'[p].pc = "check"
    <3>1. /\ cons'[p].ticket = tail /\ tail' = tail
          /\ \A q \in Consumers : q # p => cons'[q] = cons[q]
      BY <1>0, <1>TryPopCas, <2>1 DEF TryPopCas, TypeOK, Frame
    <3>2. p \in Poppers'
      BY <2>0, <2>1 DEF Poppers
    <3> QED
      BY <1>keep, <2>0, <3>1, <3>2
  <2>2. CASE cons'[p].pc # "check"
    <3>1. /\ tail = cons[p].ticket \/ Spsc
          /\ tail' = Inc(cons[p].ticket) /\ cons'[p].pc = "slot"
          /\ \A q \in Consumers : q # p => cons'[q] = cons[q]
      BY <1>0, <1>TryPopCas, <2>2 DEF TryPopCas, TypeOK, Frame
    <3>2. Poppers' = Poppers \ {p}
      BY <2>0, <3>1 DEF Poppers
    <3>3. Cardinality(Poppers') = Cardinality(Poppers) - 1
      BY <1>2, <2>0, <3>2, FS_RemoveElement
    <3>4. cons[p].ticket = Wrap(h)
      BY <1>1, <2>0, <3>1 DEF PopTickets
    <3>5. h + 1 \in 0..MaxPop /\ tail' = Wrap(h + 1) /\ (h + 1) + Cardinality(Poppers') <= asked'
      <4>1. Cardinality(Poppers') \in Nat
        BY <1>2, <3>2, FS_Subset, FS_CardinalityType
      <4> QED
        BY <1>1, <1>2, <1>3, <2>0, <3>1, <3>3, <3>4, <4>1, WrapInc DEF PopTickets
    <3>6. ASSUME NEW q \in Poppers'
          PROVE  \E k \in 0..(h + 1) : cons'[q].ticket = Wrap(k) /\ (Spsc' => k = h + 1)
      <4>1. q \in Poppers /\ q \in Consumers /\ q # p /\ cons'[q] = cons[q]
        BY <3>1, <3>2, <3>6 DEF Poppers
      <4>2. ~Spsc
        BY <1>0, <2>0, <4>1, Solo DEF Poppers
      <4>3. PICK k \in 0..h : cons[q].ticket = Wrap(k)
        BY <1>1, <4>1 DEF PopTickets
      <4>4. k \in 0..(h + 1) /\ ~Spsc'
        BY <1>3, <2>0, <4>2, <4>3 DEF Spsc
      <4> QED
        BY <4>1, <4>3, <4>4
    <3>7. PopTickets(h + 1)'
      BY <3>5, <3>6 DEF PopTickets, Wrap
    <3> QED
      BY <3>5, <3>7 DEF PopTicketsOK
  <2> QED
    BY <2>1, <2>2
<1>slot. ASSUME NEW p \in Consumers, ClaimLoad(p) \/ Read(p) \/ Emptied(p) \/ LoadAtomic(p)
         PROVE  PopTicketsOK'
  <2>1. /\ UNCHANGED <<kind, tail, asked>>
        /\ cons[p].pc \in {"slot", "read", "empty"}
    BY <1>slot DEF ClaimLoad, Read, Emptied, LoadAtomic
  <2>2. /\ cons'[p].pc \in {"read", "empty", "idle"}
        /\ \A q \in Consumers : q # p => cons'[q] = cons[q]
    BY <1>0, <1>slot DEF ClaimLoad, Read, Emptied, LoadAtomic, TypeOK, Frame, Idle
  <2> QED
    BY <1>same, <2>1, <2>2
<1>other. ASSUME NEW c \in Producers, ProducerNext(c) PROVE PopTicketsOK'
  <2>1. UNCHANGED <<kind, tail, asked, cons>>
    BY <1>other DEF ProducerNext, Push, TryPush, TryPushCheck, TryPushAgain, TryPushCas,
                    ClaimStore, Write, Stored, StoreAtomic
  <2> QED
    BY <1>same, <2>1
<1>u. CASE UNCHANGED vars
  BY <1>same, <1>u DEF vars
<1> QED
  BY <1>u, <1>Pop, <1>TryPop, <1>TryPopCheck, <1>TryPopCas, <1>slot, <1>other
     DEF Next, ConsumerNext

(* The new queue has handed out no ticket beyond the first.                *)
LEMMA TicketsInit == Init => PushTicketsOK /\ PopTicketsOK
<1> SUFFICES ASSUME Init PROVE PushTicketsOK /\ PopTicketsOK
  OBVIOUS
<1>1. Wrap(0) = Start
  BY SizeAssumption, StartAssumption DEF Wrap
<1>2. Pushers = {} /\ Poppers = {}
  BY DEF Init, Idle, Pushers, Poppers
<1>3. PushTickets(0) /\ PopTickets(0)
  BY <1>1, <1>2, FS_EmptySet DEF Init, PushTickets, PopTickets
<1> QED
  BY <1>3, BoundAssumption DEF PushTicketsOK, PopTicketsOK

(* A try call gives up only when the queue really is full or empty at that *)
(* instant: the counter it loaded before can only have grown (try_push,    *)
(* try_pop), and differences survive the wrap-around of the counters.      *)
THEOREM TryIsTruthful == Spec => TryFailsTruthfully
<1> DEFINE IInv == Inv /\ PushTicketsOK /\ PopTicketsOK
           Truthful ==
             /\ \A p \in Producers :
                   prod[p].pc = "check" /\ prod'[p].pc = "again" => Ahead >= Size
             /\ \A c \in Consumers :
                   cons[c].pc = "check" /\ cons'[c].pc = "again" => Ahead <= 0
<1>1. Init => IInv
  BY InvInit, TicketsInit
<1>2. IInv /\ [Next]_vars => IInv'
  BY InvStep, PushTicketsStep, PopTicketsStep
<1>3. IInv /\ [Next]_vars => [Truthful]_vars
  <2> SUFFICES ASSUME IInv, Next PROVE Truthful
    OBVIOUS
  <2>0. TypeOK
    BY DEF Inv
  <2>1. PICK h \in 0..MaxPush, t \in 0..MaxPop : PushTickets(h) /\ PopTickets(t)
    BY DEF PushTicketsOK, PopTicketsOK
  <2>2. head = Wrap(h) /\ tail = Wrap(t)
    BY <2>1 DEF PushTickets, PopTickets
  <2>3. Ahead = h - t
    BY <2>2, WrapDistance
  <2>4. MaxPush \in Nat /\ MaxPop \in Nat /\ Size \in Nat
    BY BoundAssumption, SizeAssumption
  <2>5. ASSUME NEW p \in Producers, prod[p].pc = "check", prod'[p].pc = "again"
        PROVE  Ahead >= Size
    <3>1. Full(prod[p].ticket, tail)
      <4>1. ASSUME NEW q \in Producers, ProducerNext(q) PROVE q = p /\ TryPushCheck(p)
        <5>1. q = p
          BY <2>0, <2>5, <4>1 DEF ProducerNext, Push, TryPush, TryPushCheck, TryPushAgain,
             TryPushCas, ClaimStore, Write, Stored, StoreAtomic, TypeOK
        <5> QED
          BY <2>0, <2>5, <4>1, <5>1 DEF ProducerNext, Push, TryPush, TryPushCheck,
             TryPushAgain, TryPushCas, ClaimStore, Write, Stored, StoreAtomic
      <4>2. ASSUME NEW c \in Consumers, ConsumerNext(c) PROVE FALSE
        BY <2>5, <4>2 DEF ConsumerNext, Pop, TryPop, TryPopCheck, TryPopAgain,
           TryPopCas, ClaimLoad, Read, Emptied, LoadAtomic
      <4>3. TryPushCheck(p)
        BY <4>1, <4>2 DEF Next
      <4> QED
        BY <2>0, <2>5, <4>3 DEF TryPushCheck, TypeOK, Frame
    <3>2. PICK k \in 0..h : prod[p].ticket = Wrap(k)
      BY <2>1, <2>5 DEF PushTickets, Pushers
    <3>3. k \in 0..MaxPush
      BY <2>4, <3>2
    <3>4. Distance(Wrap(k), Wrap(t)) = k - t
      BY <3>3, WrapDistance
    <3> QED
      BY <2>2, <2>3, <2>4, <3>1, <3>2, <3>4 DEF Full
  <2>6. ASSUME NEW c \in Consumers, cons[c].pc = "check", cons'[c].pc = "again"
        PROVE  Ahead <= 0
    <3>1. Empty(head, cons[c].ticket)
      <4>1. ASSUME NEW q \in Consumers, ConsumerNext(q) PROVE q = c /\ TryPopCheck(c)
        <5>1. q = c
          BY <2>0, <2>6, <4>1 DEF ConsumerNext, Pop, TryPop, TryPopCheck, TryPopAgain,
             TryPopCas, ClaimLoad, Read, Emptied, LoadAtomic, TypeOK
        <5> QED
          BY <2>0, <2>6, <4>1, <5>1 DEF ConsumerNext, Pop, TryPop, TryPopCheck,
             TryPopAgain, TryPopCas, ClaimLoad, Read, Emptied, LoadAtomic
      <4>2. ASSUME NEW p \in Producers, ProducerNext(p) PROVE FALSE
        BY <2>6, <4>2 DEF ProducerNext, Push, TryPush, TryPushCheck, TryPushAgain,
           TryPushCas, ClaimStore, Write, Stored, StoreAtomic
      <4>3. TryPopCheck(c)
        BY <4>1, <4>2 DEF Next
      <4> QED
        BY <2>0, <2>6, <4>3 DEF TryPopCheck, TypeOK, Frame
    <3>2. PICK k \in 0..t : cons[c].ticket = Wrap(k)
      BY <2>1, <2>6 DEF PopTickets, Poppers
    <3>3. k \in 0..MaxPop
      BY <2>4, <3>2
    <3>4. Distance(Wrap(h), Wrap(k)) = h - k
      BY <3>3, WrapDistance
    <3> QED
      BY <2>2, <2>3, <2>4, <3>1, <3>2, <3>4 DEF Empty
  <2> QED
    BY <2>5, <2>6
<1> QED
  BY <1>1, <1>2, <1>3, PTL DEF Spec, TryFailsTruthfully
=============================================================================
