------------------------ MODULE StealingQueueProofs ------------------------
(***************************************************************************)
(* The work-stealing queue is correct for any number of thieves, any       *)
(* capacity, any number of pushes that size_t can count and any number of  *)
(* threads that ask for its size.                                          *)
(***************************************************************************)
EXTENDS StealingQueueQueries, SequenceTheorems, TLAPS

-----------------------------------------------------------------------------
(* Positions and slots.                                                    *)

(* An index masked by the capacity is a slot of the array (Array::push).   *)
LEMMA ModRange ==
    ASSUME NEW C \in Nat \ {0}, NEW i \in Nat
    PROVE  Mod(i, C) \in 0..(C - 1)
  BY DEF Mod

(* Division with remainder.                                                *)
LEMMA DivMod ==
    ASSUME NEW C \in Nat \ {0}, NEW i \in Nat
    PROVE  i = C * (i \div C) + (i % C) /\ i \div C \in Nat
  OBVIOUS

(* Multiples of C are at least C apart.                                    *)
LEMMA MultiplesApart ==
    ASSUME NEW C \in Nat \ {0}, NEW p \in Nat, NEW q \in Nat, p < q
    PROVE  C * p + C <= C * q
<1>1. PICK d \in Nat : q = p + 1 + d
  <2>1. q - p - 1 \in Nat /\ q = p + 1 + (q - p - 1)
    OBVIOUS
  <2> QED
    BY <2>1
<1>2. C * q = C * p + C + C * d
  BY <1>1, Z3
<1>3. C * d \in Nat /\ C * p \in Nat
  BY Z3
<1> QED
  BY <1>2, <1>3

(* Two positions less than C apart use different slots of an array of C    *)
(* slots: the reason why push() only grows the array when it is full.      *)
LEMMA SlotsDiffer ==
    ASSUME NEW C \in Nat \ {0}, NEW i \in Nat, NEW j \in Nat,
           i < j, j < i + C
    PROVE  Mod(i, C) # Mod(j, C)
<1> SUFFICES ASSUME i % C = j % C
             PROVE  FALSE
  BY DEF Mod
<1>1. PICK p \in Nat : i = C * p + (i % C)
  BY DivMod
<1>2. PICK q \in Nat : j = C * q + (j % C)
  BY DivMod
<1>3. PICK r \in Nat : r = i % C
  OBVIOUS
<1>4. C * p \in Nat /\ C * q \in Nat
  BY Z3
<1>5. CASE p < q
  BY MultiplesApart, <1>1, <1>2, <1>3, <1>4, <1>5
<1>6. CASE q < p
  BY MultiplesApart, <1>1, <1>2, <1>3, <1>4, <1>6
<1>7. CASE p = q
  BY <1>1, <1>2, <1>3, <1>4, <1>7
<1> QED
  BY <1>5, <1>6, <1>7

(* Reading a well-formed array yields a slot value.                        *)
LEMMA GetType ==
    ASSUME NEW a, ArrayOK(a), NEW i \in Nat
    PROVE  Get(a, i) \in Slot
<1>1. a.C \in Nat \ {0}
  BY CapacityAssumption, WordAssumption DEF ArrayOK, MaxCapacity
<1>2. Mod(i, a.C) \in 0..(a.C - 1)
  BY <1>1, ModRange
<1> QED
  BY <1>2 DEF ArrayOK, Get

(* Array::push changes the slot of its own position and no other live one. *)
LEMMA PutGet ==
    ASSUME NEW a, ArrayOK(a), NEW i \in Nat, NEW x \in Slot
    PROVE  /\ ArrayOK(Put(a, i, x))
           /\ Put(a, i, x).C = a.C
           /\ Get(Put(a, i, x), i) = x
           /\ \A j \in Nat : (j < i /\ i < j + a.C)
                                => Get(Put(a, i, x), j) = Get(a, j)
<1>1. a.C \in Nat \ {0}
  BY CapacityAssumption, WordAssumption DEF ArrayOK, MaxCapacity
<1>2. Mod(i, a.C) \in 0..(a.C - 1)
  BY <1>1, ModRange
<1>3. Put(a, i, x).C = a.C /\ Put(a, i, x).S = [a.S EXCEPT ![Mod(i, a.C)] = x]
  BY DEF Put
<1>4. ArrayOK(Put(a, i, x)) /\ Get(Put(a, i, x), i) = x
  BY <1>2, <1>3 DEF ArrayOK, Get
<1>5. ASSUME NEW j \in Nat, j < i, i < j + a.C
      PROVE  Get(Put(a, i, x), j) = Get(a, j)
  <2>1. Mod(j, a.C) # Mod(i, a.C) /\ Mod(j, a.C) \in 0..(a.C - 1)
    BY <1>1, <1>5, SlotsDiffer, ModRange
  <2> QED
    BY <1>2, <1>3, <2>1 DEF ArrayOK, Get
<1> QED
  BY <1>3, <1>4, <1>5

(* Array::resize doubles the capacity and keeps every position it copies.  *)
LEMMA ResizeGet ==
    ASSUME NEW a, ArrayOK(a), 2 * a.C <= MaxCapacity,
           NEW b \in Nat, NEW t \in Nat, b <= t + a.C
    PROVE  /\ ArrayOK(Resize(a, b, t))
           /\ Resize(a, b, t).C = 2 * a.C
           /\ \A i \in t..(b - 1) : Get(Resize(a, b, t), i) = Get(a, i)
<1> DEFINE D2 == 2 * a.C
           Copied(j) == \E i \in t..(b - 1) : Mod(i, D2) = j
           Src(j) == CHOOSE i \in t..(b - 1) : Mod(i, D2) = j
           R == Resize(a, b, t)
<1>1. a.C \in Nat \ {0} /\ D2 \in Nat \ {0} /\ D2 \in 1..MaxCapacity
  BY CapacityAssumption, WordAssumption DEF ArrayOK, MaxCapacity
<1>2. R.C = D2 /\ R.S = [j \in 0..(D2 - 1) |->
                            IF Copied(j) THEN Get(a, Src(j)) ELSE Blank]
  BY DEF Resize
<1>3. ASSUME NEW j, Copied(j)
      PROVE  Src(j) \in t..(b - 1) /\ Mod(Src(j), D2) = j
  BY <1>3
<1>4. ASSUME NEW j \in 0..(D2 - 1)
      PROVE  (IF Copied(j) THEN Get(a, Src(j)) ELSE Blank) \in Slot
  <2>1. CASE Copied(j)
    <3>1. Src(j) \in Nat
      BY <1>3, <2>1
    <3> QED
      BY <2>1, <3>1, GetType
  <2>2. CASE ~Copied(j)
    BY <2>2 DEF Slot
  <2> QED
    BY <2>1, <2>2
<1>5. ArrayOK(R)
  <2>1. R.S \in [0..(D2 - 1) -> Slot]
    BY <1>2, <1>4
  <2> HIDE DEF R, D2
  <2> QED
    BY <1>1, <1>2, <2>1 DEF ArrayOK
<1>6. ASSUME NEW i \in t..(b - 1)
      PROVE  Get(R, i) = Get(a, i)
  <2> DEFINE j == Mod(i, D2)
  <2>1. i \in Nat /\ j \in 0..(D2 - 1)
    <3>1. i \in Nat
      OBVIOUS
    <3> HIDE DEF D2
    <3> QED
      BY <1>1, <3>1, ModRange
  <2>2. Copied(j)
    OBVIOUS
  <2>3. Src(j) = i
    <3>1. Src(j) \in t..(b - 1) /\ Mod(Src(j), D2) = Mod(i, D2)
      BY <1>3, <2>2
    <3> HIDE DEF Src
    <3>2. ~(Src(j) < i) /\ ~(i < Src(j))
      BY <1>1, <2>1, <3>1, SlotsDiffer
    <3> QED
      BY <2>1, <3>1, <3>2
  <2> HIDE DEF Src, Copied
  <2> QED
    BY <1>2, <2>1, <2>2, <2>3 DEF Get
<1> QED
  BY <1>2, <1>5, <1>6

-----------------------------------------------------------------------------
(* The inductive invariant.                                                *)

(* A new queue satisfies the invariant.                                    *)
LEMMA InitInv == Init => Inv
<1> SUFFICES ASSUME Init PROVE Inv
  OBVIOUS
<1> USE CapacityAssumption, WordAssumption
<1>1. ArrayOK(NewArray(Capacity)) /\ NewArray(Capacity).C = Capacity
  BY DEF ArrayOK, NewArray, MaxCapacity, Slot
<1>2. TypeOK
  BY <1>1 DEF Init, TypeOK, OwnerPc, ThiefPc, OwnerIdle, ThiefIdle, Answer,
              Nothing, Slot
<1>3. CountersOK
  BY <1>1 DEF Init, CountersOK, back, OwnerIdle
<1>4. OwnerOK
  BY DEF Init, OwnerOK, OwnerIdle
<1>5. LiveOK
  BY DEF Init, LiveOK, back, OwnerIdle
<1>6. \A p \in Thieves : ThiefOK(p)
  BY DEF Init, ThiefOK, ThiefIdle
<1> QED
  BY <1>2, <1>3, <1>4, <1>5, <1>6 DEF Inv

(* What the invariant says about the counters: nothing wraps around.       *)
Bounded ==
    /\ arrays[array].C \in Nat \ {0}
    /\ ArrayOK(arrays[array])
    /\ top \in Nat /\ bottom \in Nat /\ back \in Nat /\ pushes \in Nat
    /\ Inc(bottom) = bottom + 1
    /\ Inc(top) = top + 1
    /\ back = IF own.pc \in {"check", "race", "restore"}
              THEN bottom + 1 ELSE bottom
    /\ top + 1 < Word /\ bottom + 1 < Word

(* What the arithmetic of the other proofs needs: counters far from Word.  *)
LEMMA InvBounded ==
    ASSUME Inv
    PROVE  Bounded
<1> USE CapacityAssumption, WordAssumption
<1>1. ArrayOK(arrays[array]) /\ arrays[array].C \in Nat \ {0}
  BY SMTT(30) DEF Inv, TypeOK, ArrayOK, MaxCapacity
<1>2. bottom \in Nat /\ top \in Nat /\ pushes \in Nat /\ bottom + 1 < Word
  BY DEF Inv, TypeOK, CountersOK
<1>3. Inc(bottom) = bottom + 1
  BY <1>2 DEF Inc
<1>4. back = IF own.pc \in {"check", "race", "restore"}
             THEN bottom + 1 ELSE bottom
  BY <1>3 DEF back
<1>5. top + 1 < Word /\ Inc(top) = top + 1
  BY <1>2, <1>4 DEF Inv, TypeOK, CountersOK, Inc
<1> QED
  BY <1>1, <1>2, <1>3, <1>4, <1>5 DEF Bounded

(* push() loads: the full test decides whether the live positions and one  *)
(* more fit.                                                               *)
LEMMA PushLoadInv == Inv /\ PushLoad => Inv'
<1> SUFFICES ASSUME Inv, PushLoad PROVE Inv'
  OBVIOUS
<1>0. Bounded
  BY InvBounded
<1> USE CapacityAssumption, WordAssumption, <1>0 DEF Bounded
<1>1. back' = back /\ top <= bottom
  BY DEF PushLoad, back, Inv, CountersOK
<1>2. Sub(bottom, top) = bottom - top
  BY <1>1 DEF Sub
<1>3. TypeOK'
  BY DEF Inv, TypeOK, PushLoad, OwnerPc
<1>4. CountersOK'
  BY <1>1 DEF Inv, CountersOK, PushLoad
<1>5. OwnerOK'
  <2>1. /\ own'.b = bottom /\ own'.t = top
        /\ own'.pc = IF arrays[array].C - 1 < bottom - top
                     THEN "grow" ELSE "write"
    BY <1>2 DEF Inv, TypeOK, PushLoad
  <2>2. /\ pushes < MaxPush /\ bottom <= pushes /\ bottom <= top + arrays[array].C
        /\ own.pc = "idle"
        /\ UNCHANGED <<top, bottom, array, arrays, pushes>>
    BY <1>1 DEF Inv, CountersOK, PushLoad
  <2> QED
    BY <1>1, <2>1, <2>2 DEF OwnerOK
<1>6. LiveOK'
  BY <1>1 DEF Inv, LiveOK, PushLoad
<1>7. \A p \in Thieves : ThiefOK(p)'
  BY <1>1 DEF Inv, ThiefOK, PushLoad
<1> QED
  BY <1>3, <1>4, <1>5, <1>6, <1>7 DEF Inv

(* push() grows: the copy keeps every live position, for thieves that read *)
(* the old array as for those that read the new one.                       *)
LEMMA PushGrowInv == Inv /\ PushGrow => Inv'
<1> SUFFICES ASSUME Inv, PushGrow PROVE Inv'
  OBVIOUS
<1>0. Bounded
  BY InvBounded
<1> USE CapacityAssumption, WordAssumption, <1>0 DEF Bounded
<1> DEFINE A == arrays[array]
           B == Resize(A, own.b, own.t)
<1>1. /\ own.pc = "grow" /\ own.b = bottom /\ own.t <= top /\ pushes < MaxPush
      /\ own.b <= own.t + A.C /\ A.C <= MaxPush /\ own.t \in Nat
      /\ back = bottom /\ own.b \in Nat
  BY DEF Inv, TypeOK, OwnerOK, PushGrow
<1>2. /\ ArrayOK(B) /\ B.C = 2 * A.C
      /\ \A i \in own.t..(own.b - 1) : Get(B, i) = Get(A, i)
  <2>1. 2 * A.C <= MaxCapacity
    BY <1>1 DEF MaxCapacity
  <2> QED
    BY <1>1, <2>1, ResizeGet
<1>3. /\ array' = array + 1 /\ arrays'[array'] = B
      /\ \A k \in 1..array : arrays'[k] = arrays[k]
      /\ array \in Nat \ {0}
      /\ arrays' = [k \in 1..array' |-> arrays'[k]]
  <2>1. array \in Nat \ {0} /\ array' = array + 1
    BY DEF PushGrow, Inv, TypeOK
  <2>2. arrays' = [k \in 1..(array + 1) |-> IF k <= array THEN arrays[k] ELSE B]
    BY DEF PushGrow
  <2> HIDE DEF B
  <2> QED
    BY <2>1, <2>2
<1>4. /\ own' = [own EXCEPT !.pc = "write"] /\ own'.pc = "write"
      /\ own'.b = own.b /\ own'.t = own.t
      /\ UNCHANGED <<top, bottom, pushes, thief, ret>>
  BY DEF PushGrow, Inv, TypeOK
<1>5. back' = back
  BY <1>1, <1>4 DEF back
<1> HIDE DEF B
<1>6. TypeOK'
  <2>1. \A k \in 1..array' : ArrayOK(arrays'[k])
    <3>1. \A k \in 1..array : ArrayOK(arrays[k])
      BY DEF Inv, TypeOK
    <3>2. \A k \in 1..array' : k \in 1..array \/ k = array'
      BY <1>3
    <3> QED
      BY <1>2, <1>3, <3>1, <3>2
  <2>2. thief \in [Thieves -> [pc : ThiefPc, t : 0..(Word - 1), a : 1..array',
                               item : Slot \cup {Nothing}]]
    <3>1. 1..array \subseteq 1..array'
      BY <1>3
    <3>2. thief \in [Thieves -> [pc : ThiefPc, t : 0..(Word - 1), a : 1..array,
                                 item : Slot \cup {Nothing}]]
      BY DEF Inv, TypeOK
    <3> QED
      BY <3>1, <3>2
  <2>3. /\ top' \in 0..(Word - 1) /\ bottom' \in 0..(Word - 1)
        /\ pushes' \in 0..MaxPush
        /\ own' \in [pc : OwnerPc, b : 0..(Word - 1), t : 0..(Word - 1),
                     item : Slot \cup {Nothing}]
        /\ ret' \in [{Owner} \cup Thieves -> Answer]
    BY <1>4 DEF Inv, TypeOK, OwnerPc
  <2> QED
    BY <1>3, <1>4, <2>1, <2>2, <2>3, SMTT(30) DEF TypeOK
<1>12. arrays'[array'].C = 2 * A.C
  BY <1>2, <1>3
<1>7. CountersOK'
  <2>1. top <= back /\ bottom <= pushes /\ back <= pushes /\ back <= top + A.C
    BY DEF Inv, CountersOK
  <2> QED
    BY <1>4, <1>5, <1>12, <2>1 DEF CountersOK
<1>8. OwnerOK'
  BY <1>1, <1>4, <1>12 DEF OwnerOK
<1>9. \A i \in top..(back - 1) : i \in own.t..(own.b - 1)
  BY <1>1
<1>10. LiveOK'
  BY <1>2, <1>3, <1>4, <1>5, <1>9 DEF Inv, LiveOK
<1>11. ASSUME NEW p \in Thieves PROVE ThiefOK(p)'
  <2>1. thief[p].a \in 1..array
    BY DEF Inv, TypeOK
  <2>2. arrays'[thief[p].a] = arrays[thief[p].a]
    BY <1>3, <2>1
  <2>3. top < back => Get(B, top) = Get(A, top)
    BY <1>1, <1>2
  <2> QED
    BY <1>3, <1>4, <1>5, <2>2, <2>3 DEF Inv, ThiefOK
<1> QED
  BY <1>6, <1>7, <1>8, <1>10, <1>11 DEF Inv

(* push() writes: the slot it takes is not the slot of a live position.    *)
LEMMA PushWriteInv == Inv /\ PushWrite => Inv'
<1> SUFFICES ASSUME Inv, PushWrite PROVE Inv'
  OBVIOUS
<1>0. Bounded
  BY InvBounded
<1> USE CapacityAssumption, WordAssumption, <1>0 DEF Bounded
<1> DEFINE A == arrays[array]
           B == Put(A, own.b, pushes + 1)
<1>1. /\ own.pc = "write" /\ own.b = bottom /\ own.t <= top /\ pushes < MaxPush
      /\ own.b < own.t + A.C /\ own.t \in Nat /\ own.b \in Nat
      /\ back = bottom
  BY DEF Inv, TypeOK, OwnerOK, PushWrite
<1>2. /\ ArrayOK(B) /\ B.C = A.C /\ Get(B, own.b) = pushes + 1
      /\ \A i \in Nat : i < own.b /\ own.b < i + A.C => Get(B, i) = Get(A, i)
  <2>1. pushes + 1 \in Slot
    BY <1>1 DEF Slot, Item
  <2>2. ArrayOK(A) /\ own.b \in Nat
    BY <1>1
  <2> HIDE <1>0 DEF A, Bounded
  <2> QED
    BY <2>1, <2>2, PutGet
<1>3. /\ array \in Nat \ {0} /\ array' = array /\ arrays'[array] = B
      /\ \A k \in 1..array : k # array => arrays'[k] = arrays[k]
      /\ arrays' = [k \in 1..array' |-> arrays'[k]]
  <2>1. arrays = [k \in 1..array |-> arrays[k]] /\ array \in Nat \ {0}
    BY DEF Inv, TypeOK
  <2>2. arrays' = [arrays EXCEPT ![array] = B] /\ array' = array
    BY DEF PushWrite
  <2> HIDE DEF B
  <2>3. arrays' = [k \in 1..array |-> IF k = array THEN B ELSE arrays[k]]
    BY <2>1, <2>2
  <2> QED
    BY <2>1, <2>2, <2>3, SMTT(30)
<1>4. /\ own' = [own EXCEPT !.pc = "publish"] /\ own'.pc = "publish"
      /\ own'.b = own.b /\ own'.t = own.t
      /\ UNCHANGED <<top, bottom, pushes, thief, ret>>
  BY DEF PushWrite, Inv, TypeOK
<1>5. back' = back
  BY <1>1, <1>4 DEF back
<1> HIDE DEF B
<1>6. TypeOK'
  <2>1. \A k \in 1..array' : ArrayOK(arrays'[k])
    BY <1>2, <1>3 DEF Inv, TypeOK
  <2> QED
    BY <1>3, <1>4, <2>1 DEF Inv, TypeOK, OwnerPc
<1>7. CountersOK'
  BY <1>2, <1>3, <1>4, <1>5 DEF Inv, CountersOK
<1>8. OwnerOK'
  BY <1>1, <1>2, <1>3, <1>4 DEF OwnerOK
<1>9. \A i \in top..(back - 1) : Get(B, i) = Get(A, i)
  BY <1>1, <1>2
<1>10. LiveOK'
  BY <1>3, <1>4, <1>5, <1>9 DEF Inv, LiveOK
<1>11. ASSUME NEW p \in Thieves PROVE ThiefOK(p)'
  <2>1. thief[p].a \in 1..array
    BY DEF Inv, TypeOK
  <2>2. thief[p].a # array => arrays'[thief[p].a] = arrays[thief[p].a]
    BY <1>3, <2>1
  <2>3. top < back => Get(B, top) = Get(A, top)
    BY <1>9
  <2> QED
    BY <1>3, <1>4, <1>5, <2>2, <2>3 DEF Inv, ThiefOK
<1> QED
  BY <1>6, <1>7, <1>8, <1>10, <1>11 DEF Inv

(* push() publishes the item it wrote.                                     *)
LEMMA PushPublishInv == Inv /\ PushPublish => Inv'
<1> SUFFICES ASSUME Inv, PushPublish PROVE Inv'
  OBVIOUS
<1>0. Bounded
  BY InvBounded
<1> USE CapacityAssumption, WordAssumption, <1>0 DEF Bounded
<1>1. /\ own.pc = "publish" /\ own.b = bottom /\ own.t <= top
      /\ own.b < own.t + arrays[array].C /\ own.t \in Nat
      /\ Get(arrays[array], bottom) = pushes + 1
      /\ back = bottom /\ pushes < MaxPush
  BY DEF Inv, TypeOK, OwnerOK, PushPublish
<1>2. /\ own' = OwnerIdle /\ bottom' = bottom + 1 /\ pushes' = pushes + 1
      /\ UNCHANGED <<top, array, arrays, thief, ret>>
  BY <1>1 DEF PushPublish
<1>3. back' = back + 1 /\ own'.pc = "idle"
  BY <1>1, <1>2 DEF back, OwnerIdle
<1>4. TypeOK'
  <2>1. top' \in 0..(Word - 1) /\ bottom' \in 0..(Word - 1) /\ pushes' \in 0..MaxPush
    BY <1>1, <1>2, SMTT(30) DEF Inv, TypeOK
  <2>2. own' \in [pc : OwnerPc, b : 0..(Word - 1), t : 0..(Word - 1),
                 item : Slot \cup {Nothing}]
    BY <1>2 DEF OwnerIdle, OwnerPc
  <2>3. /\ array' \in Nat \ {0} /\ arrays' = [k \in 1..array' |-> arrays'[k]]
        /\ ret' \in [{Owner} \cup Thieves -> Answer]
    BY <1>2 DEF Inv, TypeOK
  <2>4. \A k \in 1..array' : ArrayOK(arrays'[k])
    BY <1>2 DEF Inv, TypeOK
  <2>5. thief' \in [Thieves -> [pc : ThiefPc, t : 0..(Word - 1), a : 1..array',
                                item : Slot \cup {Nothing}]]
    BY <1>2 DEF Inv, TypeOK
  <2> QED
    BY <2>1, <2>2, <2>3, <2>4, <2>5 DEF TypeOK
<1>5. CountersOK'
  BY <1>1, <1>2, <1>3 DEF Inv, CountersOK
<1>6. OwnerOK'
  BY <1>3 DEF OwnerOK
<1>7. LiveOK'
  BY <1>1, <1>2, <1>3 DEF Inv, LiveOK
<1>8. \A p \in Thieves : ThiefOK(p)'
  BY <1>2, <1>3 DEF Inv, ThiefOK
<1> QED
  BY <1>4, <1>5, <1>6, <1>7, <1>8 DEF Inv

(* pop() claims the back; the claimed position still counts as live.       *)
LEMMA PopClaimInv == ~PopOnFresh /\ Inv /\ PopClaim => Inv'
<1> SUFFICES ASSUME ~PopOnFresh, Inv, PopClaim PROVE Inv'
  OBVIOUS
<1>0. Bounded
  BY InvBounded
<1> USE CapacityAssumption, WordAssumption, <1>0 DEF Bounded
<1>1. own.pc = "idle" /\ bottom # 0 /\ back = bottom /\ Dec(bottom) = bottom - 1
  BY DEF PopClaim, Dec
<1>2. /\ own' = [own EXCEPT !.pc = "check", !.b = bottom - 1]
      /\ bottom' = bottom - 1
      /\ ret' = [ret EXCEPT ![Owner] = Busy]
      /\ UNCHANGED <<top, array, arrays, pushes, thief>>
  BY <1>1 DEF PopClaim
<1>3. own'.pc = "check" /\ own'.b = bottom - 1
  BY <1>2 DEF Inv, TypeOK
<1>4. back' = back
  BY <1>1, <1>2, <1>3 DEF back, Inc
<1>5. TypeOK'
  <2>1. ret' \in [{Owner} \cup Thieves -> Answer]
    BY <1>2 DEF Inv, TypeOK, Answer
  <2>2. own' \in [pc : OwnerPc, b : 0..(Word - 1), t : 0..(Word - 1),
                  item : Slot \cup {Nothing}]
    <3>1. bottom - 1 \in 0..(Word - 1) /\ "check" \in OwnerPc
      BY <1>1 DEF OwnerPc
    <3> HIDE <1>0 DEF Bounded
    <3> QED
      BY <1>2, <3>1 DEF Inv, TypeOK
  <2> QED
    BY <1>1, <1>2, <2>1, <2>2 DEF Inv, TypeOK
<1>6. CountersOK'
  BY <1>1, <1>2, <1>4 DEF Inv, CountersOK
<1>7. OwnerOK'
  <2>1. ret'[Owner] = Busy
    BY <1>2 DEF Inv, TypeOK
  <2> QED
    BY <1>2, <1>3, <2>1 DEF OwnerOK
<1>8. LiveOK'
  BY <1>2, <1>4 DEF Inv, LiveOK
<1>9. ASSUME NEW p \in Thieves PROVE ThiefOK(p)'
  <2>1. ret'[p] = ret[p]
    BY <1>2, ThreadAssumption DEF Inv, TypeOK
  <2> QED
    BY <1>2, <1>4, <2>1 DEF Inv, ThiefOK
<1> QED
  BY <1>5, <1>6, <1>7, <1>8, <1>9 DEF Inv

(* pop() with more than one item left takes the back without a race: a     *)
(* thief can only win the position M_top, which is smaller.                *)
LEMMA PopManyInv == Inv /\ PopMany => Inv'
<1> SUFFICES ASSUME Inv, PopMany PROVE Inv'
  OBVIOUS
<1>0. Bounded
  BY InvBounded
<1> USE CapacityAssumption, WordAssumption, <1>0 DEF Bounded
<1>1. own.pc = "check" /\ own.b = bottom /\ top < bottom /\ back = bottom + 1
  BY DEF Inv, OwnerOK, PopMany
<1>2. /\ own' = OwnerIdle
      /\ ret' = [ret EXCEPT ![Owner] = Get(arrays[array], bottom)]
      /\ UNCHANGED <<top, bottom, array, arrays, pushes, thief>>
  BY <1>1 DEF PopMany
<1>3. own'.pc = "idle" /\ back' = bottom
  BY <1>2 DEF OwnerIdle, back
<1>4. TypeOK'
  <2>1. Get(arrays[array], bottom) \in Answer
    BY GetType DEF Answer
  <2>2. ret' \in [{Owner} \cup Thieves -> Answer]
    BY <1>2, <2>1 DEF Inv, TypeOK
  <2> QED
    BY <1>2, <2>2, SMTT(60) DEF Inv, TypeOK, OwnerIdle, OwnerPc
<1>5. CountersOK'
  BY <1>1, <1>2, <1>3 DEF Inv, CountersOK
<1>6. OwnerOK'
  BY <1>3 DEF OwnerOK
<1>7. LiveOK'
  BY <1>1, <1>2, <1>3 DEF Inv, LiveOK
<1>8. ASSUME NEW p \in Thieves PROVE ThiefOK(p)'
  <2>1. ret'[p] = ret[p]
    BY <1>2, ThreadAssumption DEF Inv, TypeOK
  <2> QED
    BY <1>1, <1>2, <1>3, <2>1 DEF Inv, ThiefOK
<1> QED
  BY <1>4, <1>5, <1>6, <1>7, <1>8 DEF Inv

(* pop() with one item left must race the thieves for it.                  *)
LEMMA PopLastInv == Inv /\ PopLast => Inv'
<1> SUFFICES ASSUME Inv, PopLast PROVE Inv'
  OBVIOUS
<1>0. Bounded
  BY InvBounded
<1> USE CapacityAssumption, WordAssumption, <1>0 DEF Bounded
<1>1. own.pc = "check" /\ own.b = bottom /\ top = bottom /\ ret[Owner] = Busy
  BY DEF Inv, OwnerOK, PopLast
<1>2. /\ own' = [own EXCEPT !.pc = "race", !.t = top,
                            !.item = Get(arrays[array], bottom)]
      /\ UNCHANGED <<top, bottom, array, arrays, pushes, thief, ret>>
  BY <1>1 DEF PopLast
<1>3. /\ own'.pc = "race" /\ own'.t = bottom /\ own'.b = bottom
      /\ own'.item = Get(arrays[array], bottom)
  BY <1>1, <1>2 DEF Inv, TypeOK
<1>4. back' = back
  BY <1>1, <1>2, <1>3 DEF back
<1>5. TypeOK'
  <2>1. Get(arrays[array], bottom) \in Slot
    BY GetType
  <2> QED
    BY <1>2, <2>1 DEF Inv, TypeOK, OwnerPc
<1>6. CountersOK'
  BY <1>2, <1>4 DEF Inv, CountersOK
<1>7. OwnerOK'
  BY <1>1, <1>2, <1>3 DEF OwnerOK
<1>8. LiveOK'
  BY <1>2, <1>4 DEF Inv, LiveOK
<1>9. \A p \in Thieves : ThiefOK(p)'
  BY <1>2, <1>4 DEF Inv, ThiefOK
<1> QED
  BY <1>5, <1>6, <1>7, <1>8, <1>9 DEF Inv

(* pop() finds the item it claimed already stolen.                         *)
LEMMA PopNoneInv == Inv /\ PopNone => Inv'
<1> SUFFICES ASSUME Inv, PopNone PROVE Inv'
  OBVIOUS
<1>0. Bounded
  BY InvBounded
<1> USE CapacityAssumption, WordAssumption, <1>0 DEF Bounded
<1>1. own.pc = "check" /\ own.b = bottom /\ top = bottom + 1 /\ back = bottom + 1
  BY DEF Inv, OwnerOK, CountersOK, PopNone
<1>2. /\ own' = [own EXCEPT !.pc = "restore"]
      /\ ret' = [ret EXCEPT ![Owner] = Nothing]
      /\ UNCHANGED <<top, bottom, array, arrays, pushes, thief>>
  BY DEF PopNone
<1>3. own'.pc = "restore" /\ own'.b = bottom
  BY <1>1, <1>2 DEF Inv, TypeOK
<1>4. back' = back
  BY <1>1, <1>2, <1>3 DEF back
<1>5. TypeOK'
  <2>1. ret' \in [{Owner} \cup Thieves -> Answer]
    BY <1>2 DEF Inv, TypeOK, Answer
  <2> QED
    BY <1>2, <2>1 DEF Inv, TypeOK, OwnerPc
<1>6. CountersOK'
  BY <1>2, <1>4 DEF Inv, CountersOK
<1>7. OwnerOK'
  BY <1>1, <1>2, <1>3 DEF OwnerOK
<1>8. LiveOK'
  BY <1>2, <1>4 DEF Inv, LiveOK
<1>9. ASSUME NEW p \in Thieves PROVE ThiefOK(p)'
  <2>1. ret'[p] = ret[p]
    BY <1>2, ThreadAssumption DEF Inv, TypeOK
  <2> QED
    BY <1>2, <1>4, <2>1 DEF Inv, ThiefOK
<1> QED
  BY <1>5, <1>6, <1>7, <1>8, <1>9 DEF Inv

(* pop() wins or loses the last item; either way nothing is left.          *)
LEMMA PopRaceInv == Inv /\ PopRace => Inv'
<1> SUFFICES ASSUME Inv, PopRace PROVE Inv'
  OBVIOUS
<1>0. Bounded
  BY InvBounded
<1> USE CapacityAssumption, WordAssumption, <1>0 DEF Bounded
<1>1. /\ own.pc = "race" /\ own.b = bottom /\ own.t = bottom
      /\ bottom <= top /\ back = bottom + 1 /\ top <= back
      /\ own.item \in Answer
  BY DEF Inv, OwnerOK, CountersOK, PopRace, TypeOK, Answer
<1>2. /\ own' = [own EXCEPT !.pc = "restore"]
      /\ top' = bottom + 1
      /\ UNCHANGED <<bottom, array, arrays, pushes, thief>>
  BY <1>1 DEF PopRace
<1>3. own'.pc = "restore" /\ own'.b = bottom
  BY <1>1, <1>2 DEF Inv, TypeOK
<1>4. back' = back
  BY <1>1, <1>2, <1>3 DEF back
<1>5. PICK x \in Answer : ret' = [ret EXCEPT ![Owner] = x]
  BY <1>1 DEF PopRace, Answer
<1>6. TypeOK'
  <2>1. ret' \in [{Owner} \cup Thieves -> Answer]
    BY <1>5 DEF Inv, TypeOK
  <2>2. own' \in [pc : OwnerPc, b : 0..(Word - 1), t : 0..(Word - 1),
                  item : Slot \cup {Nothing}]
    BY <1>2 DEF Inv, TypeOK, OwnerPc
  <2>3. top' \in 0..(Word - 1)
    BY <1>2
  <2> QED
    BY <1>2, <2>1, <2>2, <2>3 DEF Inv, TypeOK
<1>7. CountersOK'
  BY <1>1, <1>2, <1>4 DEF Inv, CountersOK
<1>8. OwnerOK'
  BY <1>1, <1>2, <1>3 DEF OwnerOK
<1>9. LiveOK'
  BY <1>1, <1>2, <1>4 DEF LiveOK
<1>10. ASSUME NEW p \in Thieves PROVE ThiefOK(p)'
  <2>1. ret'[p] = ret[p]
    BY <1>5, ThreadAssumption DEF Inv, TypeOK
  <2>2. thief[p].pc # "idle" => ret[p] = Busy /\ thief[p].t <= top
    BY DEF Inv, ThiefOK
  <2>3. thief[p].t = top /\ thief[p].pc \in {"array", "read", "cas"} => top < back
    BY DEF Inv, ThiefOK
  <2>4. thief[p].t \in Nat /\ thief' = thief
    BY <1>2 DEF Inv, TypeOK
  <2> QED
    BY <1>1, <1>2, <1>4, <2>1, <2>2, <2>3, <2>4 DEF ThiefOK
<1> QED
  BY <1>6, <1>7, <1>8, <1>9, <1>10 DEF Inv

(* pop() gives the claim back.                                             *)
LEMMA PopRestoreInv == Inv /\ PopRestore => Inv'
<1> SUFFICES ASSUME Inv, PopRestore PROVE Inv'
  OBVIOUS
<1>0. Bounded
  BY InvBounded
<1> USE CapacityAssumption, WordAssumption, <1>0 DEF Bounded
<1>1. own.pc = "restore" /\ own.b = bottom /\ back = bottom + 1
  BY DEF Inv, OwnerOK, PopRestore
<1>2. /\ own' = OwnerIdle /\ bottom' = bottom + 1
      /\ UNCHANGED <<top, array, arrays, pushes, thief, ret>>
  BY <1>1 DEF PopRestore
<1>3. own'.pc = "idle" /\ back' = back
  BY <1>1, <1>2 DEF back, OwnerIdle
<1>4. TypeOK'
  BY <1>2, SMTT(30) DEF Inv, TypeOK, OwnerIdle, OwnerPc
<1>5. CountersOK'
  BY <1>1, <1>2, <1>3 DEF Inv, CountersOK
<1>6. OwnerOK'
  BY <1>3 DEF OwnerOK
<1>7. LiveOK'
  BY <1>2, <1>3 DEF Inv, LiveOK
<1>8. \A p \in Thieves : ThiefOK(p)'
  BY <1>2, <1>3 DEF Inv, ThiefOK
<1> QED
  BY <1>4, <1>5, <1>6, <1>7, <1>8 DEF Inv

(* A step of one thief leaves the owner and the other thieves alone.       *)
LEMMA OtherThieves ==
    ASSUME Inv, NEW p \in Thieves, NEW q \in Thieves, q # p,
           UNCHANGED <<bottom, array, arrays, pushes, own>>,
           top' = top \/ top' = top + 1,
           thief'[q] = thief[q], ret'[q] = ret[q]
    PROVE  ThiefOK(q)'
<1>0. Bounded
  BY InvBounded
<1> USE <1>0 DEF Bounded
<1>1. back' = back
  BY DEF back
<1>2. ThiefOK(q) /\ thief[q].t \in Nat
  BY DEF Inv, TypeOK
<1>3. CASE top' = top
  BY <1>1, <1>2, <1>3 DEF ThiefOK
<1>4. CASE top' = top + 1
  <2>1. thief[q].pc # "idle" => thief[q].t # top'
    BY <1>2, <1>4 DEF ThiefOK
  <2> QED
    BY <1>1, <1>2, <1>4, <2>1 DEF ThiefOK
<1> QED
  BY <1>3, <1>4

(* steal() before its compare-exchange touches nothing but its own locals. *)
LEMMA StealReadInv ==
    ASSUME NEW p \in Thieves, Inv,
           StealTop(p) \/ StealBottom(p) \/ StealArray(p) \/ StealRead(p)
    PROVE  Inv'
<1>0. Bounded
  BY InvBounded
<1> USE CapacityAssumption, WordAssumption, <1>0 DEF Bounded
<1>1. UNCHANGED <<top, bottom, array, arrays, pushes, own>>
  BY DEF StealTop, StealBottom, StealArray, StealRead
<1>2. back' = back
  BY <1>1 DEF back
<1>3. /\ thief[p] \in [pc : ThiefPc, t : 0..(Word - 1), a : 1..array,
                       item : Slot \cup {Nothing}]
      /\ array \in Nat \ {0} /\ thief[p].t \in Nat
      /\ \A k \in 1..array : ArrayOK(arrays[k])
      /\ ThiefOK(p)
  BY DEF Inv, TypeOK
<1>4. PICK r \in [pc : ThiefPc, t : 0..(Word - 1), a : 1..array,
                  item : Slot \cup {Nothing}] :
        /\ thief' = [thief EXCEPT ![p] = r]
        /\ r.pc # "idle" => r.t <= top
        /\ r.t = top =>
             /\ r.pc \in {"array", "read", "cas"} => top < back
             /\ r.pc = "read" => Get(arrays[r.a], top) = Get(arrays[array], top)
             /\ r.pc = "cas" => r.item = Get(arrays[array], top)
  <2>1. CASE StealTop(p)
    <3> DEFINE r == [thief[p] EXCEPT !.pc = "bottom", !.t = top]
    <3>1. /\ r \in [pc : ThiefPc, t : 0..(Word - 1), a : 1..array,
                    item : Slot \cup {Nothing}]
          /\ r.pc = "bottom" /\ r.t = top
      <4>1. top \in 0..(Word - 1)
        OBVIOUS
      <4> QED
        BY <1>3, <4>1 DEF ThiefPc
    <3>2. thief' = [thief EXCEPT ![p] = r]
      BY <2>1 DEF StealTop, Inv, TypeOK
    <3> HIDE DEF r
    <3>3. r.t <= top /\ r.pc \notin {"array", "read", "cas"}
      BY <3>1
    <3> QED
      BY <3>1, <3>2, <3>3
  <2>2. CASE StealBottom(p) /\ thief[p].t < bottom
    <3> DEFINE r == [thief[p] EXCEPT !.pc = "array"]
    <3>1. /\ r \in [pc : ThiefPc, t : 0..(Word - 1), a : 1..array,
                    item : Slot \cup {Nothing}]
          /\ r.pc = "array" /\ r.t = thief[p].t
      BY <1>3 DEF ThiefPc
    <3>2. thief' = [thief EXCEPT ![p] = r] /\ thief[p].t <= top
      BY <2>2, <1>3, SMTT(30) DEF StealBottom, Inv, TypeOK, ThiefOK
    <3> HIDE DEF r
    <3>3. r.t <= top /\ r.pc \notin {"read", "cas"} /\ (r.t = top => top < back)
      BY <2>2, <3>1, <3>2
    <3> QED
      BY <3>1, <3>2, <3>3
  <2>3. CASE StealBottom(p) /\ ~(thief[p].t < bottom)
    <3>1. thief' = [thief EXCEPT ![p] = ThiefIdle]
      BY <2>3 DEF StealBottom
    <3>2. /\ ThiefIdle \in [pc : ThiefPc, t : 0..(Word - 1), a : 1..array,
                            item : Slot \cup {Nothing}]
          /\ ThiefIdle.pc = "idle"
      BY <1>3 DEF ThiefIdle, ThiefPc
    <3> QED
      BY <3>1, <3>2
  <2>4. CASE StealArray(p)
    <3> DEFINE r == [thief[p] EXCEPT !.pc = "read", !.a = array]
    <3>1. /\ r \in [pc : ThiefPc, t : 0..(Word - 1), a : 1..array,
                    item : Slot \cup {Nothing}]
          /\ r.pc = "read" /\ r.t = thief[p].t /\ r.a = array
      <4>1. array \in 1..array
        BY <1>3
      <4> QED
        BY <1>3, <4>1 DEF ThiefPc
    <3>2. /\ thief' = [thief EXCEPT ![p] = r]
          /\ thief[p].t <= top
          /\ thief[p].t = top => top < back
      BY <2>4, <1>3 DEF StealArray, Inv, TypeOK, ThiefOK
    <3> HIDE DEF r
    <3> QED
      BY <3>1, <3>2
  <2>5. CASE StealRead(p)
    <3> DEFINE x == Get(arrays[thief[p].a], thief[p].t)
               r == [thief[p] EXCEPT !.pc = "cas", !.item = x]
    <3>1. x \in Slot
      BY <1>3, GetType
    <3>2. /\ r \in [pc : ThiefPc, t : 0..(Word - 1), a : 1..array,
                    item : Slot \cup {Nothing}]
          /\ r.pc = "cas" /\ r.t = thief[p].t /\ r.item = x
      BY <1>3, <3>1 DEF ThiefPc
    <3>3. /\ thief' = [thief EXCEPT ![p] = r]
          /\ thief[p].t <= top
          /\ thief[p].t = top => top < back /\ x = Get(arrays[array], top)
      BY <2>5, <1>3 DEF StealRead, Inv, TypeOK, ThiefOK
    <3> HIDE DEF r, x
    <3> QED
      BY <3>2, <3>3
  <2> QED
    BY <2>1, <2>2, <2>3, <2>4, <2>5
<1>5. /\ thief'[p] = r
      /\ \A q \in Thieves : q # p => thief'[q] = thief[q]
  BY <1>4 DEF Inv, TypeOK
<1>6. /\ ret' = ret \/ \E x \in {Busy, Nothing} : ret' = [ret EXCEPT ![p] = x]
      /\ r.pc # "idle" => ret'[p] = Busy
  <2>1. CASE StealTop(p)
    BY <2>1 DEF StealTop, Inv, TypeOK
  <2>2. CASE StealBottom(p) /\ thief[p].t < bottom
    BY <2>2, <1>3 DEF StealBottom, ThiefOK
  <2>3. CASE StealBottom(p) /\ ~(thief[p].t < bottom)
    <3>1. thief'[p].pc = "idle"
      BY <2>3, SMTT(30) DEF StealBottom, Inv, TypeOK, ThiefIdle
    <3> QED
      BY <2>3, <3>1, <1>5 DEF StealBottom
  <2>4. CASE StealArray(p) \/ StealRead(p)
    BY <2>4, <1>3 DEF StealArray, StealRead, ThiefOK
  <2> QED
    BY <2>1, <2>2, <2>3, <2>4
<1>7. ret' \in [{Owner} \cup Thieves -> Answer] /\ ret'[Owner] = ret[Owner]
  BY <1>6, ThreadAssumption DEF Inv, TypeOK, Answer
<1>8. TypeOK'
  <2>1. thief' \in [Thieves -> [pc : ThiefPc, t : 0..(Word - 1), a : 1..array,
                                item : Slot \cup {Nothing}]]
    BY <1>4 DEF Inv, TypeOK
  <2> QED
    BY <1>1, <1>7, <2>1 DEF Inv, TypeOK
<1>9. CountersOK' /\ LiveOK'
  BY <1>1, <1>2 DEF Inv, CountersOK, LiveOK
<1>10. OwnerOK'
  BY <1>1, <1>7 DEF Inv, OwnerOK
<1>11. ASSUME NEW q \in Thieves PROVE ThiefOK(q)'
  <2>1. CASE q = p
    BY <1>1, <1>2, <1>4, <1>5, <1>6, <2>1 DEF ThiefOK
  <2>2. CASE q # p
    <3>1. ret'[q] = ret[q]
      BY <1>6, <2>2 DEF Inv, TypeOK
    <3> QED
      BY <1>1, <1>5, <2>2, <3>1, OtherThieves
  <2> QED
    BY <2>1, <2>2
<1> QED
  BY <1>8, <1>9, <1>10, <1>11 DEF Inv

(* steal() decides: M_top moves by one for the winner and for no one else. *)
LEMMA StealCasInv ==
    ASSUME NEW p \in Thieves, Inv, StealCas(p)
    PROVE  Inv'
<1>0. Bounded
  BY InvBounded
<1> USE CapacityAssumption, WordAssumption, <1>0 DEF Bounded
<1>1. /\ UNCHANGED <<bottom, array, arrays, pushes, own>>
      /\ thief' = [thief EXCEPT ![p] = ThiefIdle]
      /\ thief[p].pc = "cas"
      /\ top' = top \/ (top' = top + 1 /\ thief[p].t = top)
  BY DEF StealCas
<1>2. back' = back
  BY <1>1 DEF back
<1>3. thief[p].item \in Answer /\ ThiefOK(p)
  BY DEF Inv, TypeOK, Answer
<1>4. PICK x \in Answer : ret' = [ret EXCEPT ![p] = x]
  BY <1>3 DEF StealCas, Answer
<1>5. /\ thief'[p] = ThiefIdle
      /\ \A q \in Thieves : q # p => thief'[q] = thief[q] /\ ret'[q] = ret[q]
      /\ ret'[Owner] = ret[Owner]
      /\ ret' \in [{Owner} \cup Thieves -> Answer]
  BY <1>1, <1>4, ThreadAssumption DEF Inv, TypeOK
<1>6. top' = top + 1 => top < back
  BY <1>1, <1>3 DEF ThiefOK
<1>7. TypeOK'
  <2>1. thief' \in [Thieves -> [pc : ThiefPc, t : 0..(Word - 1), a : 1..array,
                                item : Slot \cup {Nothing}]]
    <3>1. ThiefIdle \in [pc : ThiefPc, t : 0..(Word - 1), a : 1..array,
                         item : Slot \cup {Nothing}]
      BY SMTT(30) DEF ThiefIdle, ThiefPc, Inv, TypeOK
    <3> QED
      BY <1>1, <3>1 DEF Inv, TypeOK
  <2>2. top' \in 0..(Word - 1)
    BY <1>1
  <2> QED
    BY <1>1, <1>5, <2>1, <2>2 DEF Inv, TypeOK
<1>8. CountersOK' /\ LiveOK'
  BY <1>1, <1>2, <1>6 DEF Inv, CountersOK, LiveOK
<1>9. OwnerOK'
  <2>1. own.pc = "restore" => top' = top
    BY <1>6, <1>1 DEF Inv, OwnerOK
  <2>2. own.pc \in {"grow", "write", "publish"} => own.t \in Nat
    BY DEF Inv, TypeOK
  <2>3. own.pc = "race" => own.b \in Nat
    BY DEF Inv, TypeOK
  <2> QED
    BY <1>1, <1>5, <2>1, <2>2, <2>3 DEF Inv, OwnerOK
<1>10. ASSUME NEW q \in Thieves PROVE ThiefOK(q)'
  <2>1. CASE q = p
    BY <1>5, <2>1 DEF ThiefOK, ThiefIdle
  <2>2. CASE q # p
    BY <1>1, <1>5, <2>2, OtherThieves
  <2> QED
    BY <2>1, <2>2
<1> QED
  BY <1>7, <1>8, <1>9, <1>10 DEF Inv

(* The invariant speaks of nothing but vars.                               *)
LEMMA StutterInv == Inv /\ UNCHANGED vars => Inv'
  BY DEF Inv, TypeOK, CountersOK, OwnerOK, LiveOK, ThiefOK, back, vars

(* Every step of the owner or of a thief preserves the invariant.          *)
LEMMA NextInv == ~PopOnFresh /\ Inv /\ [Next]_vars => Inv'
  BY PushLoadInv, PushGrowInv, PushWriteInv, PushPublishInv, PopClaimInv,
     PopManyInv, PopLastInv, PopNoneInv, PopRaceInv, PopRestoreInv,
     StealReadInv, StealCasInv, StutterInv
     DEF Next, OwnerNext, ThiefNext

(* Type correctness: every variable keeps its type and no array outgrows   *)
(* twice what was pushed, provided the owner never pops a fresh queue.     *)
THEOREM TypeCorrect ==
    ASSUME ~PopOnFresh
    PROVE  Spec => []TypeOK
<1>1. Init => Inv
  BY InitInv
<1>2. Inv /\ [Next]_vars => Inv'
  BY NextInv
<1>3. Inv => TypeOK
  BY DEF Inv
<1> QED
  BY <1>1, <1>2, <1>3, PTL DEF Spec

(* The inductive invariant holds of every behaviour.                       *)
THEOREM Invariance ==
    ASSUME ~PopOnFresh
    PROVE  Spec => []Inv
<1>1. Init => Inv
  BY InitInv
<1>2. Inv /\ [Next]_vars => Inv'
  BY NextInv
<1> QED
  BY <1>1, <1>2, PTL DEF Spec

(* A thief whose compare-exchange will succeed holds the front item.       *)
THEOREM StealCorrect ==
    ASSUME ~PopOnFresh
    PROVE  Spec => []StolenItemIsCurrent
<1>1. Inv => StolenItemIsCurrent
  <2> SUFFICES ASSUME Inv, NEW p \in Thieves,
                      thief[p].pc = "cas", thief[p].t = top
               PROVE  content # <<>> /\ thief[p].item = content[1]
    BY DEF StolenItemIsCurrent
  <2>1. Bounded
    BY InvBounded
  <2>2. top < back /\ thief[p].item = Get(arrays[array], top)
    BY DEF Inv, ThiefOK
  <2>3. top \in Nat /\ back \in Nat /\ 1 \in 1..(back - top) /\ top + 1 - 1 = top
    BY <2>1, <2>2 DEF Bounded
  <2>4. DOMAIN content = 1..(back - top) /\ content[1] = Get(arrays[array], top)
    BY <2>3 DEF content
  <2>5. content # <<>>
    BY <2>3, <2>4
  <2> QED
    BY <2>2, <2>4, <2>5
<1> QED
  BY <1>1, Invariance, PTL

-----------------------------------------------------------------------------
(* Refinement: the queue implements the abstract deque.                    *)

(* The items at positions lo to hi - 1 of an array, as a sequence.         *)
Window(a, lo, hi) == [i \in 1..(hi - lo) |-> Get(a, lo + i - 1)]

(* The items of the queue are a window of the current array.               *)
LEMMA ContentWindow == content = Window(arrays[array], top, back)
  BY DEF content, Window

(* A window is a sequence; its i-th element is the i-th position.          *)
LEMMA WindowSeq ==
    ASSUME NEW a, NEW lo \in Nat, NEW hi \in Nat, lo <= hi,
           \A i \in lo..(hi - 1) : Get(a, i) \in Nat
    PROVE  /\ Window(a, lo, hi) \in Seq(Nat)
           /\ Len(Window(a, lo, hi)) = hi - lo
           /\ \A i \in 1..(hi - lo) : Window(a, lo, hi)[i] = Get(a, lo + i - 1)
<1>1. hi - lo \in Nat
  OBVIOUS
<1>2. \A i \in 1..(hi - lo) : lo + i - 1 \in lo..(hi - 1)
  OBVIOUS
<1>3. Window(a, lo, hi) \in [1..(hi - lo) -> Nat]
  BY <1>2 DEF Window
<1>4. \A i \in 1..(hi - lo) : Window(a, lo, hi)[i] = Get(a, lo + i - 1)
  BY DEF Window
<1>5. Window(a, lo, hi) \in Seq(Nat) /\ Len(Window(a, lo, hi)) = hi - lo
  BY <1>1, <1>3
<1> QED
  BY <1>4, <1>5

(* Sequences with the same elements are equal.                             *)
LEMMA EqualSeqs ==
    ASSUME NEW s \in Seq(Nat), NEW u \in Seq(Nat), Len(s) = Len(u),
           \A i \in 1..Len(s) : s[i] = u[i]
    PROVE  s = u
  OBVIOUS

(* steal() takes the first element of the window.                          *)
LEMMA WindowTail ==
    ASSUME NEW a, NEW lo \in Nat, NEW hi \in Nat, lo < hi,
           \A i \in lo..(hi - 1) : Get(a, i) \in Nat
    PROVE  /\ Window(a, lo, hi) # <<>>
           /\ Head(Window(a, lo, hi)) = Get(a, lo)
           /\ Window(a, lo + 1, hi) = Tail(Window(a, lo, hi))
<1> DEFINE w == Window(a, lo, hi)
           v == Window(a, lo + 1, hi)
<1>1. w \in Seq(Nat) /\ Len(w) = hi - lo /\ \A i \in 1..(hi - lo) : w[i] = Get(a, lo + i - 1)
  BY WindowSeq
<1>2. v \in Seq(Nat) /\ Len(v) = hi - lo - 1 /\ \A i \in 1..(hi - lo - 1) : v[i] = Get(a, lo + i)
  <2>1. /\ v \in Seq(Nat) /\ Len(v) = hi - (lo + 1)
        /\ \A i \in 1..(hi - (lo + 1)) : v[i] = Get(a, (lo + 1) + i - 1)
    <3>1. lo + 1 \in Nat /\ lo + 1 <= hi
      OBVIOUS
    <3>2. \A i \in (lo + 1)..(hi - 1) : Get(a, i) \in Nat
      OBVIOUS
    <3> QED
      BY <3>1, <3>2, WindowSeq
  <2>2. hi - (lo + 1) = hi - lo - 1
    OBVIOUS
  <2>3. \A i \in 1..(hi - lo - 1) : (lo + 1) + i - 1 = lo + i
    OBVIOUS
  <2> HIDE DEF v
  <2> QED
    BY <2>1, <2>2, <2>3
<1> HIDE DEF w, v
<1>3. w # <<>> /\ Head(w) = Get(a, lo)
  <2>1. 1 \in 1..(hi - lo) /\ lo + 1 - 1 = lo
    OBVIOUS
  <2> QED
    BY <1>1, <2>1
<1>4. Tail(w) \in Seq(Nat) /\ Len(Tail(w)) = hi - lo - 1 /\ \A i \in 1..(hi - lo - 1) : Tail(w)[i] = w[i + 1]
  BY <1>1, <1>3
<1>5. \A i \in 1..(hi - lo - 1) : Tail(w)[i] = v[i]
  <2> TAKE i \in 1..(hi - lo - 1)
  <2>1. i + 1 \in 1..(hi - lo) /\ lo + (i + 1) - 1 = lo + i
    OBVIOUS
  <2> QED
    BY <1>1, <1>2, <1>4, <2>1
<1>6. v = Tail(w)
  BY <1>2, <1>4, <1>5, EqualSeqs
<1> QED
  BY <1>3, <1>6 DEF w, v

(* pop() takes the last element of the window and push() adds one.         *)
LEMMA WindowFront ==
    ASSUME NEW a, NEW lo \in Nat, NEW hi \in Nat, lo <= hi,
           \A i \in lo..hi : Get(a, i) \in Nat
    PROVE  /\ Len(Window(a, lo, hi + 1)) = hi - lo + 1
           /\ Window(a, lo, hi + 1)[hi - lo + 1] = Get(a, hi)
           /\ Window(a, lo, hi) = SubSeq(Window(a, lo, hi + 1), 1, hi - lo)
           /\ Window(a, lo, hi + 1) = Append(Window(a, lo, hi), Get(a, hi))
<1> DEFINE w == Window(a, lo, hi + 1)
           v == Window(a, lo, hi)
<1>1. /\ v \in Seq(Nat) /\ Len(v) = hi - lo
      /\ \A i \in 1..(hi - lo) : v[i] = Get(a, lo + i - 1)
  BY WindowSeq
<1>2. /\ w \in Seq(Nat) /\ Len(w) = hi - lo + 1
      /\ \A i \in 1..(hi - lo + 1) : w[i] = Get(a, lo + i - 1)
  <2>1. hi + 1 \in Nat /\ lo <= hi + 1 /\ (hi + 1) - lo = hi - lo + 1
        /\ lo..((hi + 1) - 1) = lo..hi
    OBVIOUS
  <2>2. /\ w \in Seq(Nat) /\ Len(w) = (hi + 1) - lo
        /\ \A i \in 1..((hi + 1) - lo) : w[i] = Get(a, lo + i - 1)
    BY <2>1, WindowSeq
  <2> HIDE DEF w
  <2> QED
    BY <2>1, <2>2
<1> HIDE DEF w, v
<1>3. w[hi - lo + 1] = Get(a, hi)
  <2>1. hi - lo + 1 \in 1..(hi - lo + 1) /\ lo + (hi - lo + 1) - 1 = hi
    OBVIOUS
  <2> QED
    BY <1>2, <2>1
<1>4. v = SubSeq(w, 1, hi - lo)
  <2> DEFINE u == SubSeq(w, 1, hi - lo)
  <2>1. /\ u \in Seq(Nat) /\ Len(u) = hi - lo
        /\ \A i \in 1..(hi - lo) : u[i] = w[i]
    BY <1>2
  <2> HIDE DEF u
  <2>2. \A i \in 1..(hi - lo) : u[i] = v[i]
    BY <1>1, <1>2, <2>1
  <2>3. u = v
    BY <1>1, <2>1, <2>2, EqualSeqs
  <2> QED
    BY <2>3 DEF u
<1>5. w = Append(v, Get(a, hi))
  <2> DEFINE u == Append(v, Get(a, hi))
  <2>0. Get(a, hi) \in Nat
    OBVIOUS
  <2>1. /\ u \in Seq(Nat) /\ Len(u) = hi - lo + 1
        /\ u[hi - lo + 1] = Get(a, hi)
        /\ \A i \in 1..(hi - lo) : u[i] = v[i]
    <3>1. /\ u \in Seq(Nat) /\ Len(u) = Len(v) + 1
          /\ u[Len(v) + 1] = Get(a, hi)
          /\ \A i \in 1..Len(v) : u[i] = v[i]
      BY <1>1, <2>0, AppendProperties
    <3> HIDE DEF u
    <3> QED
      BY <1>1, <3>1
  <2> HIDE DEF u
  <2>2. \A i \in 1..(hi - lo + 1) : u[i] = w[i]
    <3> TAKE i \in 1..(hi - lo + 1)
    <3>1. CASE i = hi - lo + 1
      BY <1>3, <2>1, <3>1
    <3>2. CASE i # hi - lo + 1
      <4>1. i \in 1..(hi - lo)
        BY <3>2
      <4> QED
        BY <1>1, <1>2, <2>1, <4>1
    <3> QED
      BY <3>1, <3>2
  <2>3. u = w
    BY <1>2, <2>1, <2>2, EqualSeqs
  <2> QED
    BY <2>3 DEF u
<1> QED
  BY <1>2, <1>3, <1>4, <1>5 DEF w, v

(* A window depends on nothing but the positions in it.                    *)
LEMMA WindowSame ==
    ASSUME NEW a, NEW b, NEW lo \in Nat, NEW hi \in Nat, lo <= hi,
           \A i \in lo..(hi - 1) : Get(a, i) = Get(b, i)
    PROVE  Window(a, lo, hi) = Window(b, lo, hi)
<1>1. \A i \in 1..(hi - lo) : lo + i - 1 \in lo..(hi - 1)
  OBVIOUS
<1> QED
  BY <1>1 DEF Window

(* Steps that move neither counter nor array leave the content alone.      *)
LEMMA ContentSame ==
    ASSUME UNCHANGED <<top, back, array, arrays>>
    PROVE  content' = content
  BY DEF content

(* What the invariant says about the content.                              *)
LEMMA ContentFacts ==
    ASSUME Inv
    PROVE  /\ top \in Nat /\ back \in Nat /\ top <= back
           /\ \A i \in top..(back - 1) : Get(arrays[array], i) \in Nat
           /\ top = back => content = <<>>
<1>1. Bounded
  BY InvBounded
<1>2. top \in Nat /\ back \in Nat /\ top <= back
  BY <1>1 DEF Bounded, Inv, CountersOK
<1>3. \A i \in top..(back - 1) : Get(arrays[array], i) \in Nat
  BY <1>1 DEF Bounded, Inv, LiveOK
<1>4. ASSUME top = back PROVE content = <<>>
  <2>1. content \in Seq(Nat) /\ Len(content) = 0
    BY <1>2, <1>3, <1>4, ContentWindow, WindowSeq
  <2> QED
    BY <2>1
<1> QED
  BY <1>2, <1>3, <1>4

(* Growing the array and writing the next slot leave the content alone.    *)
LEMMA PushGrowKeeps ==
    ASSUME Inv, PushGrow
    PROVE  content' = content
<1>0. Bounded
  BY InvBounded
<1> DEFINE A == arrays[array]
           B == Resize(A, own.b, own.t)
<1>1. /\ own.pc = "grow" /\ own.b = bottom /\ own.t <= top /\ own.t \in Nat
      /\ own.b <= own.t + A.C /\ A.C <= MaxPush /\ back = bottom
      /\ own.b \in Nat /\ own'.pc = "write"
  BY <1>0, WordAssumption DEF Inv, TypeOK, OwnerOK, PushGrow, Bounded
<1>2. 2 * A.C <= MaxCapacity
  BY <1>0, <1>1, CapacityAssumption, WordAssumption DEF MaxCapacity, Bounded
<1>3. \A i \in own.t..(own.b - 1) : Get(B, i) = Get(A, i)
  BY <1>0, <1>1, <1>2, ResizeGet DEF Bounded
<1>4. arrays'[array'] = B /\ top' = top
  <2>1. /\ array' = array + 1 /\ array \in Nat
        /\ arrays' = [k \in 1..(array + 1) |-> IF k <= array THEN arrays[k] ELSE B]
    BY DEF PushGrow, Inv, TypeOK
  <2> HIDE DEF B
  <2> QED
    BY <2>1 DEF PushGrow
<1>5. back' = back
  BY <1>1 DEF back, PushGrow
<1> HIDE DEF B
<1>6. \A i \in top..(back - 1) : Get(B, i) = Get(A, i)
  BY <1>0, <1>1, <1>3 DEF Bounded
<1>7. Window(B, top, back) = Window(A, top, back)
  BY <1>6, ContentFacts, WindowSame
<1> QED
  BY <1>4, <1>5, <1>7 DEF content, Window

(* The item push() writes is not in the queue before it is published.      *)
LEMMA PushWriteKeeps ==
    ASSUME Inv, PushWrite
    PROVE  content' = content
<1>0. Bounded
  BY InvBounded
<1> DEFINE A == arrays[array]
           B == Put(A, own.b, pushes + 1)
<1>1. /\ own.pc = "write" /\ own.b = bottom /\ own.t <= top /\ pushes < MaxPush
      /\ own.b < own.t + A.C /\ own.t \in Nat /\ own.b \in Nat
      /\ back = bottom /\ own'.pc = "publish"
  BY <1>0, WordAssumption DEF Inv, TypeOK, OwnerOK, PushWrite, Bounded
<1>2. \A i \in Nat : i < own.b /\ own.b < i + A.C => Get(B, i) = Get(A, i)
  <2>1. pushes + 1 \in Slot
    BY <1>0, <1>1, WordAssumption DEF Slot, Item, Bounded
  <2>2. ArrayOK(A) /\ own.b \in Nat
    BY <1>0, <1>1 DEF Bounded
  <2> HIDE DEF A
  <2> QED
    BY <2>1, <2>2, PutGet
<1>3. arrays'[array'] = B /\ top' = top
  <2>1. arrays = [k \in 1..array |-> arrays[k]] /\ array \in 1..array
    BY DEF Inv, TypeOK
  <2>2. arrays' = [arrays EXCEPT ![array] = B] /\ array' = array /\ top' = top
    BY DEF PushWrite
  <2> HIDE DEF B
  <2> QED
    BY <2>1, <2>2
<1>4. back' = back
  BY <1>1 DEF back, PushWrite
<1> HIDE DEF B
<1>5. \A i \in top..(back - 1) : Get(B, i) = Get(A, i)
  BY <1>0, <1>1, <1>2 DEF Bounded
<1>6. Window(B, top, back) = Window(A, top, back)
  BY <1>5, ContentFacts, WindowSame
<1> QED
  BY <1>3, <1>4, <1>6 DEF content, Window

(* Every step of the queue is a step of the deque or leaves it alone.      *)
LEMMA StepRefines ==
    ASSUME ~PopOnFresh, Inv, Next
    PROVE  D!Next \/ UNCHANGED <<content, pushes, ret>>
<1>0. Bounded
  BY InvBounded
<1>1. ASSUME PushLoad PROVE UNCHANGED <<content, pushes, ret>>
  <2>1. own.pc = "idle" /\ own'.pc \in {"grow", "write"}
    BY <1>1 DEF PushLoad, Inv, TypeOK
  <2>2. back' = back
    BY <1>1, <2>1 DEF PushLoad, back
  <2> QED
    BY <1>1, <2>2, ContentSame DEF PushLoad
<1>2. ASSUME PushGrow PROVE UNCHANGED <<content, pushes, ret>>
  BY <1>2, PushGrowKeeps DEF PushGrow
<1>3. ASSUME PushWrite PROVE UNCHANGED <<content, pushes, ret>>
  BY <1>3, PushWriteKeeps DEF PushWrite
<1>4. ASSUME PushPublish PROVE D!Push
  <2>1. /\ own.pc = "publish" /\ own.b = bottom /\ back = bottom
        /\ Get(arrays[array], bottom) = pushes + 1
    BY <1>0, <1>4 DEF Inv, OwnerOK, PushPublish, Bounded
  <2>2. /\ bottom' = bottom + 1 /\ own'.pc = "idle" /\ pushes' = pushes + 1
        /\ UNCHANGED <<top, array, arrays, ret>>
    BY <1>0, <1>4, <2>1 DEF PushPublish, OwnerIdle, Bounded
  <2>3. back' = back + 1
    BY <2>1, <2>2 DEF back
  <2>4. \A i \in top..back : Get(arrays[array], i) \in Nat
    BY <2>1, <1>0, ContentFacts DEF Bounded
  <2>5. Window(arrays[array], top, back + 1)
          = Append(Window(arrays[array], top, back), Get(arrays[array], back))
    BY <2>4, ContentFacts, WindowFront
  <2>6. content' = Append(content, pushes + 1)
    BY <2>1, <2>2, <2>3, <2>5 DEF content, Window
  <2> QED
    BY <2>2, <2>6 DEF D!Push
<1>5. ASSUME PopClaim PROVE D!Call(Owner)
  <2>1. /\ bottom # 0 /\ bottom' = bottom - 1 /\ own.pc = "idle"
        /\ own'.pc = "check" /\ back = bottom
    BY <1>0, <1>5 DEF PopClaim, Dec, Bounded, Inv, TypeOK
  <2>2. back' = back
    BY <1>0, <2>1, WordAssumption DEF back, Inc, Bounded
  <2>3. content' = content
    BY <1>5, <2>2, ContentSame DEF PopClaim
  <2> QED
    BY <1>5, <2>3 DEF PopClaim, D!Call, D!Busy, Busy
<1>6. ASSUME PopMany PROVE D!PopBack
  <2>1. /\ own.b = bottom /\ top < bottom /\ back = bottom + 1
        /\ ret[Owner] = Busy
    BY <1>0, <1>6 DEF Inv, OwnerOK, PopMany, Bounded
  <2>2. /\ own'.pc = "idle"
        /\ ret' = [ret EXCEPT ![Owner] = Get(arrays[array], bottom)]
        /\ UNCHANGED <<top, bottom, array, arrays, pushes>>
    BY <1>6, <2>1 DEF PopMany, OwnerIdle
  <2>3. back' = bottom
    BY <2>2 DEF back
  <2>4. /\ bottom \in Nat /\ top \in Nat /\ top <= bottom
        /\ \A i \in top..bottom : Get(arrays[array], i) \in Nat
    BY <1>0, <2>1, ContentFacts DEF Bounded
  <2>5. /\ Len(content) = bottom - top + 1
        /\ content[bottom - top + 1] = Get(arrays[array], bottom)
        /\ Window(arrays[array], top, bottom) = SubSeq(content, 1, bottom - top)
    BY <2>1, <2>4, WindowFront, ContentWindow
  <2>6. content' = SubSeq(content, 1, Len(content) - 1)
    <3>1. content' = Window(arrays[array], top, bottom)
      BY <2>2, <2>3 DEF content, Window
    <3> QED
      BY <2>4, <2>5, <3>1
  <2>7. content # <<>>
    BY <2>4, <2>5
  <2> QED
    BY <2>1, <2>2, <2>5, <2>6, <2>7 DEF D!PopBack, D!Busy, Busy
<1>7. ASSUME PopLast PROVE UNCHANGED <<content, pushes, ret>>
  <2>1. own.pc = "check" /\ own'.pc = "race"
    BY <1>7 DEF PopLast, Inv, TypeOK
  <2>2. back' = back
    BY <1>7, <2>1 DEF PopLast, back
  <2> QED
    BY <1>7, <2>2, ContentSame DEF PopLast
<1>8. ASSUME PopNone PROVE D!PopEmpty
  <2>1. own.pc = "check" /\ own'.pc = "restore" /\ ret[Owner] = Busy
    BY <1>8 DEF PopNone, Inv, TypeOK, OwnerOK
  <2>2. back' = back /\ top = back
    BY <1>0, <1>8, <2>1 DEF PopNone, back, Bounded, Inv, OwnerOK, CountersOK
  <2>3. content = <<>> /\ content' = content
    BY <1>8, <2>2, ContentFacts, ContentSame DEF PopNone
  <2> QED
    BY <1>8, <2>1, <2>3 DEF PopNone, D!PopEmpty, D!Busy, Busy, D!Nothing, Nothing
<1>9. ASSUME PopRace PROVE D!PopBack \/ D!PopEmpty
  <2>1. /\ own.pc = "race" /\ own.b = bottom /\ own.t = bottom /\ bottom <= top
        /\ back = bottom + 1 /\ own.item = Get(arrays[array], bottom)
        /\ ret[Owner] = Busy /\ own'.pc = "restore" /\ top <= back
    BY <1>0, <1>9 DEF Inv, OwnerOK, CountersOK, PopRace, Bounded, TypeOK
  <2>2. back' = back /\ UNCHANGED <<bottom, array, arrays, pushes>>
    BY <1>9, <2>1 DEF PopRace, back
  <2>3. CASE top = bottom
    <3>1. top' = top + 1 /\ ret' = [ret EXCEPT ![Owner] = Get(arrays[array], bottom)]
      BY <1>0, <1>9, <2>1, <2>3 DEF PopRace, Bounded
    <3>2. /\ top \in Nat /\ back \in Nat /\ top < back /\ back = top + 1
          /\ \A i \in top..(back - 1) : Get(arrays[array], i) \in Nat
      BY <2>1, <2>3, ContentFacts
    <3>3. /\ content \in Seq(Nat) /\ Len(content) = 1
          /\ content[1] = Get(arrays[array], bottom)
      <4>1. /\ content \in Seq(Nat) /\ Len(content) = back - top
            /\ \A i \in 1..(back - top) : content[i] = Get(arrays[array], top + i - 1)
        <5>1. top <= back
          BY <3>2
        <5> QED
          BY <3>2, <5>1, ContentWindow, WindowSeq, ZenonT(60)
      <4>2. back - top = 1 /\ top + 1 - 1 = bottom
        BY <3>2, <2>3
      <4> QED
        BY <4>1, <4>2
    <3>4. content' = <<>>
      <4>1. Window(arrays[array], top + 1, back) \in Seq(Nat)
            /\ Len(Window(arrays[array], top + 1, back)) = 0
        <5>1. top + 1 \in Nat /\ back \in Nat /\ top + 1 <= back /\ back - (top + 1) = 0
              /\ \A i \in (top + 1)..(back - 1) : Get(arrays[array], i) \in Nat
          BY <3>2
        <5> QED
          BY <5>1, WindowSeq
      <4>2. content' = Window(arrays[array], top + 1, back)
        BY <2>2, <3>1 DEF content, Window
      <4> QED
        BY <4>1, <4>2
    <3>5. SubSeq(content, 1, Len(content) - 1) = <<>> /\ content # <<>>
      <4>1. SubSeq(content, 1, 0) = <<>>
        BY SubSeqEmpty
      <4>2. Len(content) - 1 = 0
        BY <3>3
      <4>3. content # <<>>
        BY <3>2, ContentWindow, WindowTail
      <4> QED
        BY <4>1, <4>2, <4>3
    <3> QED
      BY <2>1, <2>2, <3>1, <3>3, <3>4, <3>5 DEF D!PopBack, D!Busy, Busy
  <2>4. CASE top # bottom
    <3>1. top' = top /\ ret' = [ret EXCEPT ![Owner] = Nothing]
      BY <1>9, <2>1, <2>4 DEF PopRace
    <3>2. top = back
      BY <1>0, <2>1, <2>4 DEF Bounded
    <3>3. content = <<>> /\ content' = content
      BY <2>2, <3>1, <3>2, ContentFacts, ContentSame
    <3> QED
      BY <2>1, <2>2, <3>1, <3>3 DEF D!PopEmpty, D!Busy, Busy, D!Nothing, Nothing
  <2> QED
    BY <2>3, <2>4
<1>10. ASSUME PopRestore PROVE UNCHANGED <<content, pushes, ret>>
  <2>1. own.pc = "restore" /\ own.b = bottom /\ own'.pc = "idle" /\ bottom' = Inc(bottom)
    BY <1>10 DEF PopRestore, Inv, OwnerOK, OwnerIdle
  <2>2. back' = back
    BY <2>1 DEF back
  <2> QED
    BY <1>10, <2>2, ContentSame DEF PopRestore
<1>11. ASSUME NEW p \in Thieves, StealTop(p) PROVE D!Call(p)
  <2>1. content' = content
    BY <1>11, ContentSame DEF StealTop, back
  <2> QED
    BY <1>11, <2>1 DEF StealTop, D!Call, D!Busy, Busy
<1>12. ASSUME NEW p \in Thieves, StealBottom(p)
       PROVE  D!StealFail(p) \/ UNCHANGED <<content, pushes, ret>>
  <2>1. content' = content
    BY <1>12, ContentSame DEF StealBottom, back
  <2>2. ret[p] = Busy
    BY <1>12 DEF StealBottom, Inv, ThiefOK
  <2> QED
    BY <1>12, <2>1, <2>2
       DEF StealBottom, D!StealFail, D!Busy, Busy, D!Nothing, Nothing
<1>13. ASSUME NEW p \in Thieves, StealArray(p) \/ StealRead(p)
       PROVE  UNCHANGED <<content, pushes, ret>>
  <2>1. content' = content
    BY <1>13, ContentSame DEF StealArray, StealRead, back
  <2> QED
    BY <1>13, <2>1 DEF StealArray, StealRead
<1>14. ASSUME NEW p \in Thieves, StealCas(p)
       PROVE  D!StealFront(p) \/ D!StealFail(p)
  <2>1. back' = back /\ UNCHANGED <<bottom, array, arrays, pushes>> /\ ret[p] = Busy
    BY <1>14 DEF StealCas, back, Inv, ThiefOK
  <2>2. CASE top = thief[p].t
    <3>1. /\ top' = top + 1 /\ ret' = [ret EXCEPT ![p] = thief[p].item]
          /\ top < back /\ thief[p].item = Get(arrays[array], top)
      BY <1>0, <1>14, <2>2 DEF StealCas, Bounded, Inv, ThiefOK
    <3>2. /\ content # <<>> /\ Head(content) = Get(arrays[array], top)
          /\ Window(arrays[array], top + 1, back) = Tail(content)
      BY <3>1, ContentFacts, ContentWindow, WindowTail
    <3>3. content' = Tail(content)
      BY <2>1, <3>1, <3>2 DEF content, Window
    <3> QED
      BY <2>1, <3>1, <3>2, <3>3 DEF D!StealFront, D!Busy, Busy
  <2>3. CASE top # thief[p].t
    <3>1. top' = top /\ ret' = [ret EXCEPT ![p] = Nothing]
      BY <1>14, <2>3 DEF StealCas
    <3>2. content' = content
      BY <2>1, <3>1, ContentSame
    <3> QED
      BY <2>1, <3>1, <3>2 DEF D!StealFail, D!Busy, Busy, D!Nothing, Nothing
  <2> QED
    BY <2>2, <2>3
<1> QED
  BY <1>1, <1>2, <1>3, <1>4, <1>5, <1>6, <1>7, <1>8, <1>9, <1>10, <1>11,
     <1>12, <1>13, <1>14 DEF Next, OwnerNext, ThiefNext, D!Next

(* push(), pop() and steal() implement the abstract deque, for any number  *)
(* of thieves and any capacity.                                            *)
THEOREM Refinement ==
    ASSUME ~PopOnFresh
    PROVE  Spec => Linearizable
<1>1. Init => D!Init
  <2> SUFFICES ASSUME Init PROVE D!Init
    OBVIOUS
  <2>1. top = 0 /\ back = 0 /\ Inv
    BY InitInv DEF Init, back, OwnerIdle
  <2>2. content = <<>>
    BY <2>1, ContentFacts
  <2> QED
    BY <2>2 DEF Init, D!Init, D!Nothing, Nothing
<1>2. Inv /\ [Next]_vars => [D!Next]_(D!dvars)
  <2> SUFFICES ASSUME Inv, [Next]_vars PROVE D!Next \/ UNCHANGED D!dvars
    OBVIOUS
  <2>1. CASE Next
    BY <2>1, StepRefines DEF D!dvars
  <2>2. CASE UNCHANGED vars
    BY <2>2 DEF vars, content, back, D!dvars
  <2> QED
    BY <2>1, <2>2
<1> QED
  BY <1>1, <1>2, Invariance, PTL DEF Spec, Linearizable, D!Spec

-----------------------------------------------------------------------------
(* empty() and size(), asked by any thread.                                *)

(* While an observer has loaded M_bottom only, M_top can only make its     *)
(* answer smaller.                                                         *)
ObserverOK(p) ==
    /\ obs[p].pc = "top" => obs[p].b <= top + first[p]
    /\ obs[p].pc = "done" => obs[p].b <= obs[p].t + first[p]

QInv == /\ Inv
        /\ obs \in [Observers -> [pc : {"idle", "top", "done"}, b : Nat, t : Nat]]
        /\ first \in [Observers -> Nat]
        /\ \A p \in Observers : ObserverOK(p)

(* M_top never moves back: pop() and steal() only add one to it.           *)
LEMMA TopGrows ==
    ASSUME Inv, [Next]_vars
    PROVE  top' = top \/ top' = top + 1
<1>1. top + 1 < Word /\ top \in Nat
  BY InvBounded DEF Bounded
<1>2. Inc(top) = top + 1
  BY <1>1, WordAssumption DEF Inc
<1>3. top' \in {top, Inc(top)}
  BY DEF Next, OwnerNext, ThiefNext, PushLoad, PushGrow, PushWrite, PushPublish, PopClaim,
     PopMany, PopLast, PopNone, PopRace, PopRestore, StealTop, StealBottom, StealArray,
     StealRead, StealCas, vars
<1> QED
  BY <1>2, <1>3

(* Every step of the queue and of an observer preserves the invariant.     *)
LEMMA QStep == ~PopOnFresh /\ QInv /\ [QNext]_qvars => QInv'
<1> SUFFICES ASSUME ~PopOnFresh, QInv, [QNext]_qvars PROVE QInv'
  OBVIOUS
<1>0. Inv /\ top \in Nat /\ bottom \in Nat
  BY InvBounded DEF QInv, Bounded
<1>1. CASE [Next]_vars /\ UNCHANGED <<obs, first>>
  <2>1. Inv' /\ (top' = top \/ top' = top + 1)
    BY <1>0, <1>1, NextInv, TopGrows
  <2> QED
    BY <1>0, <1>1, <2>1 DEF QInv, ObserverOK
<1>2. ASSUME NEW p \in Observers, LoadBottom(p) PROVE QInv'
  <2>1. Inv' /\ UNCHANGED vars
    BY <1>0, <1>2, StutterInv DEF LoadBottom
  <2>2. held \in Nat /\ bottom <= top + held
    BY <1>0 DEF held
  <2>3. /\ obs' = [obs EXCEPT ![p] = [pc |-> "top", b |-> bottom, t |-> 0]]
        /\ first' = [first EXCEPT ![p] = held]
    BY <1>2 DEF LoadBottom
  <2> QED
    BY <1>0, <2>1, <2>2, <2>3 DEF QInv, ObserverOK, vars
<1>3. ASSUME NEW p \in Observers, LoadTop(p) PROVE QInv'
  <2>1. Inv' /\ UNCHANGED vars
    BY <1>0, <1>3, StutterInv DEF LoadTop
  <2>2. /\ obs' \in [Observers -> [pc : {"idle", "top", "done"}, b : Nat, t : Nat]]
        /\ obs[p].pc = "top" /\ obs'[p].pc = "done" /\ obs'[p].t = top /\ obs'[p].b = obs[p].b
        /\ \A q \in Observers : q # p => obs'[q] = obs[q]
        /\ first' = first /\ top' = top
    BY <1>0, <1>3 DEF QInv, LoadTop, vars
  <2> QED
    BY <2>1, <2>2 DEF QInv, ObserverOK
<1> QED
  BY <1>1, <1>2, <1>3 DEF QNext, qvars

(* size() never promises more than the queue held when the call began, and *)
(* empty() answers false only if it held an item then, for any number of   *)
(* observers.                                                              *)
THEOREM QueriesCorrect ==
    ASSUME ~PopOnFresh
    PROVE  QSpec => []NeverOverstates
<1>1. QInit => QInv
  <2> SUFFICES ASSUME QInit PROVE QInv
    OBVIOUS
  <2>1. Inv
    BY InitInv DEF QInit
  <2> QED
    BY <2>1 DEF QInit, QInv, ObserverOK
<1>2. QInv /\ [QNext]_qvars => QInv'
  BY QStep
<1>3. QInv => NeverOverstates
  <2> SUFFICES ASSUME QInv, NEW p \in Observers, obs[p].pc = "done"
               PROVE  size(p) <= first[p] /\ (~empty(p) => first[p] > 0)
    BY DEF NeverOverstates
  <2>1. ObserverOK(p)
    BY DEF QInv
  <2> QED
    BY <2>1 DEF QInv, ObserverOK, size, empty
<1> QED
  BY <1>1, <1>2, <1>3, PTL DEF QSpec
=============================================================================
