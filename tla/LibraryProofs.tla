--------------------------- MODULE LibraryProofs ---------------------------
(***************************************************************************)
(* The sequence lock is an atomic cell, and the smaller components of the  *)
(* library are safe, for every value of their constants.                   *)
(***************************************************************************)
EXTENDS MCLibrary, FiniteSetTheorems, NaturalsInduction, WellFoundedInduction, TLAPS

-----------------------------------------------------------------------------
(* Seqlock, on a processor that keeps stores in order: for any number of   *)
(* readers, any value size and any number of stores that M_seq can count.  *)

(* M_seq does not wrap around within the bound.                            *)
LEMMA AddSmall ==
    ASSUME NEW x \in Nat, NEW k \in Nat, x + k < Word
    PROVE  Add(x, k) = x + k
<1>1. x + k \in 0..(Word - 1)
  BY SeqWordAssumption
<1> QED
  BY <1>1, SeqWordAssumption DEF Add

(* A new Seqlock satisfies the invariant.                                  *)
LEMMA InitInv == Init => Inv
<1> SUFFICES ASSUME Init PROVE Inv
  OBVIOUS
<1> USE SeqWordAssumption
<1>1. TypeOK
  BY DEF Init, TypeOK, WriterPc, ReaderPc, WriterIdle, ReaderIdle, Whole
<1>2. WriterOK
  BY DEF Init, WriterOK, WriterIdle, Whole
<1>3. \A r \in Readers : ReaderOK(r)
  BY DEF Init, ReaderOK, ReaderIdle
<1> QED
  BY <1>1, <1>2, <1>3 DEF Inv

(* A store keeps the invariant: it changes M_seq before and after it       *)
(* touches a word, so no reader takes a mixed copy for a good one.         *)
LEMMA WriterInv == ~WeakOrder /\ Inv /\ WriterNext => Inv'
<1> SUFFICES ASSUME ~WeakOrder, Inv, WriterNext PROVE Inv'
  OBVIOUS
<1> USE SeqWordAssumption
<1>0. /\ stores \in Nat /\ seq \in Nat /\ writer.left \subseteq Words
      /\ writer.pc \in WriterPc
      /\ value \in [Words -> 0..MaxStores]
      /\ \A r \in Readers : reader[r].seq0 \in Nat
      /\ WriterOK /\ TypeOK
      /\ \A r \in Readers : ReaderOK(r)
  BY DEF Inv, TypeOK
<1>1. UNCHANGED <<reader, ret>>
  BY DEF WriterNext, StoreBegin, StoreOdd, StoreWord, StoreEven
<1>2. CASE StoreBegin
  <2>1. /\ writer' = [pc |-> "odd", seq0 |-> seq, left |-> Words]
        /\ writer.pc = "idle" /\ stores < MaxStores
        /\ UNCHANGED <<seq, value, stores>>
    BY <1>2 DEF StoreBegin
  <2>2. TypeOK'
    BY <1>1, <2>1, <1>0 DEF TypeOK, WriterPc
  <2>3. WriterOK'
    BY <2>1, <1>0 DEF WriterOK
  <2>4. \A r \in Readers : ReaderOK(r)'
    BY <1>1, <2>1, <1>0 DEF ReaderOK
  <2> QED
    BY <2>2, <2>3, <2>4 DEF Inv
<1>3. CASE StoreOdd
  <2>1. /\ writer.pc = "odd" /\ stores < MaxStores /\ writer.seq0 = 2 * stores
        /\ seq = 2 * stores /\ \A w \in Words : value[w] = stores
    BY <1>3, <1>0 DEF StoreOdd, WriterOK
  <2>2. /\ seq' = seq + 1 /\ writer' = [writer EXCEPT !.pc = "write"]
        /\ UNCHANGED <<value, stores>>
    BY <1>3, <1>0, <2>1, AddSmall DEF StoreOdd
  <2>3. /\ writer'.pc = "write" /\ writer'.seq0 = writer.seq0
        /\ writer'.left = writer.left
    BY <2>2, <1>0 DEF TypeOK
  <2>4. TypeOK'
    <3>1. seq' \in 0..(Word - 1)
      BY <1>0, <2>1, <2>2
    <3> QED
      BY <1>1, <2>2, <3>1, <1>0 DEF TypeOK, WriterPc
  <2>5. WriterOK'
    <3>1. writer.left = Words
      BY <2>1, <1>0 DEF WriterOK
    <3> QED
      BY <2>1, <2>2, <2>3, <3>1, <1>0 DEF WriterOK
  <2>6. \A r \in Readers : ReaderOK(r)'
    BY <1>1, <2>2, <2>3, <1>0 DEF ReaderOK
  <2> QED
    BY <2>4, <2>5, <2>6 DEF Inv
<1>4. ASSUME NEW w \in Words, StoreWord(w) PROVE Inv'
  <2>1. /\ writer.pc = "write" /\ w \in writer.left /\ stores < MaxStores
        /\ value' = [value EXCEPT ![w] = stores + 1]
        /\ writer' = [writer EXCEPT !.left = writer.left \ {w}]
        /\ UNCHANGED <<seq, stores>>
    BY <1>4, <1>0 DEF StoreWord, WriterOK
  <2>2. /\ writer'.pc = "write" /\ writer'.seq0 = writer.seq0
        /\ writer'.left = writer.left \ {w}
    BY <2>1, <1>0 DEF TypeOK
  <2>3. TypeOK'
    BY <1>1, <2>1, <1>0 DEF TypeOK, WriterPc
  <2>4. WriterOK'
    BY <2>1, <2>2, <1>0 DEF WriterOK
  <2>5. \A r \in Readers : ReaderOK(r)'
    BY <1>1, <2>1, <2>2, <1>0 DEF ReaderOK
  <2> QED
    BY <2>3, <2>4, <2>5 DEF Inv
<1>5. CASE StoreEven
  <2>1. /\ writer.pc = "write" /\ writer.left = {} /\ stores < MaxStores
        /\ writer.seq0 = 2 * stores /\ seq = 2 * stores + 1
        /\ \A w \in Words : value[w] = stores + 1
    BY <1>5, <1>0 DEF StoreEven, WriterOK
  <2>2. /\ seq' = seq + 1 /\ seq' = 2 * (stores + 1) /\ stores' = stores + 1
        /\ writer' = WriterIdle /\ writer'.pc = "idle" /\ UNCHANGED value
    BY <1>5, <1>0, <2>1, AddSmall DEF StoreEven, WriterIdle
  <2>3. TypeOK'
    <3>1. seq' \in 0..(Word - 1) /\ stores' \in 0..MaxStores
      BY <1>0, <2>1, <2>2
    <3> QED
      BY <1>1, <2>2, <3>1, <1>0 DEF TypeOK, WriterPc, WriterIdle
  <2>4. WriterOK'
    BY <2>1, <2>2, <1>0 DEF WriterOK
  <2>5. \A r \in Readers : ReaderOK(r)'
    BY <1>1, <2>2, <1>0 DEF ReaderOK
  <2> QED
    BY <2>3, <2>4, <2>5 DEF Inv
<1> QED
  BY <1>2, <1>3, <1>4, <1>5 DEF WriterNext

(* The locals of one reader after its step; the other readers keep theirs. *)
ReaderType == [pc : ReaderPc, seq0 : 0..(Word - 1), left : SUBSET Words,
               copy : [Words -> 0..MaxStores]]

(* What a step of one reader has to show to preserve the invariant.        *)
LEMMA ReaderFrame ==
    ASSUME Inv, NEW r \in Readers, NEW l \in ReaderType,
           NEW a \in [Words -> -1..MaxStores],
           UNCHANGED <<seq, value, stores, writer>>,
           reader' = [reader EXCEPT ![r] = l],
           ret' = [ret EXCEPT ![r] = a],
           l.pc # "idle" => a = Busy,
           l.pc = "copy" =>
             /\ l.seq0 <= seq
             /\ (l.seq0 = seq /\ writer.pc # "write") =>
                   \A w \in Words \ l.left : l.copy[w] = stores
    PROVE  Inv'
<1>1. /\ reader'[r] = l /\ ret'[r] = a
      /\ \A q \in Readers : q # r => reader'[q] = reader[q] /\ ret'[q] = ret[q]
  BY DEF Inv, TypeOK
<1>2. TypeOK'
  BY DEF Inv, TypeOK, ReaderType
<1>3. WriterOK'
  BY DEF Inv, WriterOK
<1>4. \A q \in Readers : ReaderOK(q)'
  BY <1>1 DEF Inv, ReaderOK, Busy, Whole
<1> QED
  BY <1>2, <1>3, <1>4 DEF Inv

(* A load keeps the invariant.                                             *)
LEMMA ReaderInv ==
    ASSUME Inv, NEW r \in Readers, ReaderNext(r)
    PROVE  Inv'
<1> USE SeqWordAssumption
<1>0. /\ reader[r] \in ReaderType /\ ret[r] \in [Words -> -1..MaxStores]
      /\ ReaderOK(r) /\ seq \in 0..(Word - 1) /\ value \in [Words -> 0..MaxStores]
      /\ stores \in Nat /\ WriterOK /\ writer.pc \in WriterPc
      /\ reader \in [Readers -> ReaderType]
      /\ ret \in [Readers -> [Words -> -1..MaxStores]]
  BY DEF Inv, TypeOK, ReaderType
<1>i. ReaderIdle \in ReaderType /\ ReaderIdle.pc = "idle"
  BY DEF ReaderIdle, ReaderType, ReaderPc, Whole
<1>1. CASE LoadCall(r)
  <2> DEFINE l == [reader[r] EXCEPT !.pc = "begin"]
  <2>1. l \in ReaderType /\ l.pc = "begin"
    BY <1>0 DEF ReaderType, ReaderPc
  <2>2. Busy \in [Words -> -1..MaxStores]
    BY DEF Busy, Whole
  <2>3. /\ reader' = [reader EXCEPT ![r] = l] /\ ret' = [ret EXCEPT ![r] = Busy]
        /\ UNCHANGED <<seq, value, stores, writer>>
    BY <1>1 DEF LoadCall
  <2> HIDE DEF l
  <2> QED
    BY <2>1, <2>2, <2>3, ReaderFrame
<1>2. CASE LoadBegin(r)
  <2> DEFINE l == [pc |-> "copy", seq0 |-> seq, left |-> Words, copy |-> Whole(0)]
  <2>1. l \in ReaderType /\ l.pc = "copy" /\ l.seq0 = seq /\ l.left = Words
    BY <1>0 DEF ReaderType, ReaderPc, Whole
  <2>2. /\ reader' = [reader EXCEPT ![r] = l] /\ ret' = ret
        /\ UNCHANGED <<seq, value, stores, writer>> /\ ret[r] = Busy
    BY <1>2, <1>0 DEF LoadBegin, ReaderOK
  <2>3. ret' = [ret EXCEPT ![r] = Busy] /\ Busy \in [Words -> -1..MaxStores]
    BY <2>2, <1>0
  <2>4. l.seq0 <= seq /\ Words \ l.left = {}
    BY <2>1, <1>0
  <2> HIDE DEF l
  <2> QED
    BY <2>1, <2>2, <2>3, <2>4, ReaderFrame
<1>3. ASSUME NEW w \in Words, LoadWord(r, w) PROVE Inv'
  <2> DEFINE l == [reader[r] EXCEPT !.left = reader[r].left \ {w},
                                    !.copy = [reader[r].copy EXCEPT ![w] = value[w]]]
  <2>1. /\ l \in ReaderType /\ l.pc = reader[r].pc /\ l.seq0 = reader[r].seq0
        /\ l.left = reader[r].left \ {w}
        /\ l.copy = [reader[r].copy EXCEPT ![w] = value[w]]
    BY <1>0 DEF ReaderType
  <2>2. /\ reader' = [reader EXCEPT ![r] = l] /\ ret' = ret
        /\ UNCHANGED <<seq, value, stores, writer>> /\ ret[r] = Busy
        /\ reader[r].pc = "copy"
    BY <1>3, <1>0 DEF LoadWord, ReaderOK
  <2>3. ret' = [ret EXCEPT ![r] = Busy] /\ Busy \in [Words -> -1..MaxStores]
    BY <2>2, <1>0
  <2>4. l.seq0 <= seq
    BY <2>1, <2>2, <1>0 DEF ReaderOK
  <2>5. ASSUME l.seq0 = seq, writer.pc # "write", NEW v \in Words \ l.left
        PROVE  l.copy[v] = stores
    <3>1. value[w] = stores
      BY <2>5, <1>0 DEF WriterOK, WriterPc
    <3>2. reader[r].copy \in [Words -> 0..MaxStores]
      BY <1>0 DEF ReaderType
    <3>3. v # w => reader[r].copy[v] = stores
      BY <2>1, <2>2, <2>5, <1>0 DEF ReaderOK
    <3> HIDE DEF l
    <3> QED
      BY <2>1, <3>1, <3>2, <3>3
  <2> HIDE DEF l
  <2> QED
    BY <2>1, <2>2, <2>3, <2>4, <2>5, ReaderFrame
<1>4. CASE LoadEnd(r)
  <2>1. /\ reader[r].pc = "copy" /\ reader[r].left = {} /\ ret[r] = Busy
        /\ UNCHANGED <<seq, value, stores, writer>>
    BY <1>4, <1>0 DEF LoadEnd, ReaderOK
  <2>2. CASE seq = reader[r].seq0 /\ reader[r].seq0 % 2 = 0
    <3>1. /\ reader' = [reader EXCEPT ![r] = ReaderIdle]
          /\ ret' = [ret EXCEPT ![r] = reader[r].copy]
      BY <1>4, <2>2 DEF LoadEnd
    <3>2. reader[r].copy \in [Words -> -1..MaxStores]
      BY <1>0 DEF ReaderType
    <3> QED
      BY <1>i, <2>1, <3>1, <3>2, ReaderFrame
  <2>3. CASE ~(seq = reader[r].seq0 /\ reader[r].seq0 % 2 = 0)
    <3> DEFINE l == [ReaderIdle EXCEPT !.pc = "begin"]
    <3>1. l \in ReaderType /\ l.pc = "begin"
      BY <1>i DEF ReaderType, ReaderPc
    <3>2. reader' = [reader EXCEPT ![r] = l] /\ ret' = ret
      BY <1>4, <2>3 DEF LoadEnd
    <3>3. ret' = [ret EXCEPT ![r] = Busy] /\ Busy \in [Words -> -1..MaxStores]
      BY <2>1, <3>2, <1>0
    <3> HIDE DEF l
    <3> QED
      BY <2>1, <3>1, <3>2, <3>3, ReaderFrame
  <2> QED
    BY <2>2, <2>3
<1> QED
  BY <1>1, <1>2, <1>3, <1>4 DEF ReaderNext

(* The invariant speaks of nothing but vars.                               *)
LEMMA StutterInv == Inv /\ UNCHANGED vars => Inv'
  BY DEF Inv, TypeOK, WriterOK, ReaderOK, vars

(* The inductive invariant holds of every behaviour.                       *)
THEOREM Invariance ==
    ASSUME ~WeakOrder
    PROVE  Spec => []Inv
<1>1. Init => Inv
  BY InitInv
<1>2. Inv /\ [Next]_vars => Inv'
  BY WriterInv, ReaderInv, StutterInv DEF Next
<1> QED
  BY <1>1, <1>2, PTL DEF Spec

(* A load that finds M_seq unchanged and even holds the current value.     *)
LEMMA GoodCopy ==
    ASSUME Inv, NEW r \in Readers, reader[r].pc = "copy", reader[r].left = {},
           seq = reader[r].seq0, reader[r].seq0 % 2 = 0
    PROVE  reader[r].copy = Whole(stores)
<1>1. writer.pc # "write"
  <2> SUFFICES ASSUME writer.pc = "write" PROVE FALSE
    OBVIOUS
  <2>1. seq = 2 * stores + 1 /\ stores \in Nat
    BY DEF Inv, WriterOK, TypeOK
  <2> QED
    BY <2>1
<1>2. \A w \in Words : reader[r].copy[w] = stores
  BY <1>1 DEF Inv, ReaderOK
<1>3. reader[r].copy \in [Words -> 0..MaxStores]
  BY DEF Inv, TypeOK
<1> QED
  BY <1>2, <1>3 DEF Whole

(* store() and load() implement an atomic cell.                            *)
THEOREM Refinement ==
    ASSUME ~WeakOrder
    PROVE  Spec => Atomic
<1>1. Init => R!Init
  BY DEF Init, R!Init, R!Whole, Whole
<1>2. Inv /\ [Next]_vars => [R!Next]_<<stores, ret>>
  <2> SUFFICES ASSUME Inv, [Next]_vars
               PROVE  R!Next \/ UNCHANGED <<stores, ret>>
    OBVIOUS
  <2>1. CASE WriterNext
    BY <2>1 DEF WriterNext, StoreBegin, StoreOdd, StoreWord, StoreEven,
                R!Next, R!Store
  <2>2. ASSUME NEW r \in Readers, ReaderNext(r)
        PROVE  R!Next \/ UNCHANGED <<stores, ret>>
    <3>1. CASE LoadCall(r)
      BY <3>1 DEF LoadCall, R!Next, R!Call, R!Busy, Busy, Whole
    <3>2. CASE LoadBegin(r) \/ \E w \in Words : LoadWord(r, w)
      BY <3>2 DEF LoadBegin, LoadWord
    <3>3. CASE LoadEnd(r)
      <4>1. CASE seq = reader[r].seq0 /\ reader[r].seq0 % 2 = 0
        <5>1. reader[r].copy = Whole(stores)
          BY <3>3, <4>1, GoodCopy DEF LoadEnd
        <5>2. ret[r] = Busy
          BY <3>3 DEF LoadEnd, Inv, ReaderOK
        <5>3. ret' = [ret EXCEPT ![r] = Whole(stores)] /\ stores' = stores
          BY <3>3, <4>1, <5>1 DEF LoadEnd
        <5> QED
          BY <5>2, <5>3 DEF R!Next, R!Load, R!Busy, R!Whole, Busy, Whole
      <4>2. CASE ~(seq = reader[r].seq0 /\ reader[r].seq0 % 2 = 0)
        BY <3>3, <4>2 DEF LoadEnd
      <4> QED
        BY <4>1, <4>2
    <3> QED
      BY <2>2, <3>1, <3>2, <3>3 DEF ReaderNext
  <2>3. CASE UNCHANGED vars
    BY <2>3 DEF vars
  <2> QED
    BY <2>1, <2>2, <2>3 DEF Next
<1> QED
  BY <1>1, <1>2, Invariance, PTL DEF Spec, Atomic, R!Spec

-----------------------------------------------------------------------------
(* Barrier: nobody leaves before all have come.                            *)

\* The threads wait() has counted in.
Came == {t \in BrThreads : brAt[t] # "new"}

\* The strengthening: until release() has cleared it, the counter is the number of
\* threads that have come, so none of them can have seen zero; afterwards all have.
BrInv ==
    /\ brAt \in [BrThreads -> {"new", "spin", "left"}]
    /\ brReleased \in BOOLEAN
    /\ ~brReleased => /\ brCounter = Cardinality(Came)
                      /\ \A t \in BrThreads : brAt[t] # "left"
    /\ brReleased => Came = BrThreads

\* The empty barrier satisfies the invariant.
LEMMA BrInitial == BrInit => BrInv
<1> SUFFICES ASSUME BrInit PROVE BrInv
  OBVIOUS
<1>1. Came = {}
  BY DEF BrInit, Came
<1> QED
  BY <1>1, FS_EmptySet DEF BrInit, BrInv

\* Entering counts one thread more; a thread that has come keeps the counter
\* above zero until release() (wait() and release() of Barrier.h).
LEMMA BrStepPreserves == BrInv /\ [BrNext]_brVars => BrInv'
<1> SUFFICES ASSUME BrInv, [BrNext]_brVars PROVE BrInv'
  OBVIOUS
<1>0. IsFiniteSet(Came) /\ Cardinality(Came) \in Nat
  BY BrAssumption, FS_Subset, FS_CardinalityType DEF Came
<1>1. CASE BarrierRelease
  <2>1. Came = BrThreads
    <3>1. ~brReleased /\ Cardinality(Came) = Cardinality(BrThreads)
      BY <1>1 DEF BarrierRelease, BrInv
    <3> QED
      BY <3>1, BrAssumption, FS_Subset DEF Came
  <2>2. Came' = Came
    BY <1>1 DEF BarrierRelease, Came
  <2> QED
    BY <1>1, <2>1, <2>2 DEF BarrierRelease, BrInv
<1>2. ASSUME NEW t \in BrThreads, BarrierEnter(t) PROVE BrInv'
  <2>1. t \notin Came
    BY <1>2 DEF BarrierEnter, Came
  <2>2. Came' = Came \cup {t}
    BY <1>2 DEF BarrierEnter, Came, BrInv
  <2>3. Cardinality(Came \cup {t}) = Cardinality(Came) + 1
    BY <1>0, <2>1, FS_AddElement
  <2>4. ~brReleased
    BY <1>2, <2>1 DEF BrInv
  <2> QED
    BY <1>2, <2>2, <2>3, <2>4 DEF BarrierEnter, BrInv
<1>3. ASSUME NEW t \in BrThreads, BarrierLeave(t) PROVE BrInv'
  <2>1. t \in Came
    BY <1>3 DEF BarrierLeave, Came
  <2>2. brReleased
    <3> SUFFICES ASSUME ~brReleased PROVE FALSE
      BY DEF BrInv
    <3>1. Cardinality(Came) = 0
      BY <1>3 DEF BarrierLeave, BrInv
    <3> QED
      BY <1>0, <2>1, <3>1, FS_EmptySet
  <2>3. Came' = Came
    BY <1>3 DEF BarrierLeave, Came, BrInv
  <2> QED
    BY <1>3, <2>2, <2>3 DEF BarrierLeave, BrInv
<1>4. CASE UNCHANGED brVars
  <2>1. Came' = Came
    BY <1>4 DEF brVars, Came
  <2> QED
    BY <1>4, <2>1 DEF brVars, BrInv
<1> QED
  BY <1>1, <1>2, <1>3, <1>4 DEF BrNext, BrStep

\* No thread returns from wait() before every thread has called it.
THEOREM BarrierCorrect == BrSpec => []NoneLeavesEarly
<1>1. BrInv => NoneLeavesEarly
  BY DEF BrInv, NoneLeavesEarly, Came
<1> QED
  BY <1>1, BrInitial, BrStepPreserves, PTL DEF BrSpec

----------

-------------------------------------------------------------------
(* Induction.                                                              *)

(* A set of natural numbers that is not empty has a least member.          *)
LEMMA NatLeast ==
    ASSUME NEW T \in SUBSET Nat, T # {}
    PROVE  \E m \in T : \A n \in T : m <= n
<1>1. PICK m \in T : \A n \in T : ~(<<n, m>> \in OpToRel(<, Nat))
  BY NatLessThanWellFounded, WFMin
<1>2. \A n \in T : ~(n < m)
  BY <1>1 DEF OpToRel
<1> QED
  BY <1>2

(* Induction up to a bound.                                                *)
LEMMA UpTo ==
    ASSUME NEW N \in Nat, NEW S, 0 \in S, \A k \in 0 .. N - 1 : k \in S => k + 1 \in S
    PROVE  \A k \in 0 .. N : k \in S
<1> DEFINE T == {k \in 0 .. N : k \notin S}
<1> SUFFICES ASSUME T # {} PROVE FALSE
  OBVIOUS
<1>0. T \in SUBSET Nat
  OBVIOUS
<1>1. PICK m \in T : \A n \in T : m <= n
  <2> HIDE DEF T
  <2> QED
    BY <1>0, NatLeast
<1>2. m # 0 /\ m - 1 \in 0 .. N - 1 /\ m - 1 \notin T
  BY <1>1
<1> QED
  BY <1>1, <1>2

-----------------------------------------------------------------------------
(* Atomic<T>: an object is owned by the cell, or by the one call that      *)
(* exchanged it and will delete it, or its value is gone.                  *)
AcOwns(t) == acThread[t].at \in {"store", "exchange"}

AcTypeOK ==
    /\ acMade \in Nat \ {0} /\ acPtr \in 0 .. acMade /\ acAlive \subseteq 1 .. acMade
    /\ acThread \in [AcThreads -> [at : {"idle", "copy", "store", "exchange"}, obj : Nat]]
    /\ acTaken \in Seq(1 .. acMade)

AcInv ==
    /\ AcTypeOK
    /\ \A x : x \in acAlive <=> \/ x = acPtr /\ acPtr # 0
                                \/ \E t \in AcThreads : AcOwns(t) /\ acThread[t].obj = x
    /\ \A t \in AcThreads : AcOwns(t) =>
         /\ acThread[t].obj \in 1 .. acMade /\ acThread[t].obj # acPtr
         /\ \A i \in DOMAIN acTaken : acTaken[i] # acThread[t].obj
         /\ \A u \in AcThreads : AcOwns(u) /\ u # t => acThread[u].obj # acThread[t].obj
    /\ \A i \in DOMAIN acTaken : acTaken[i] # acPtr
    /\ \A i, j \in DOMAIN acTaken : acTaken[i] = acTaken[j] => i = j

(* A cell starts with one object.                                          *)
LEMMA AcInitial == AcInit => AcInv
BY DEF AcInit, AcInv, AcTypeOK, AcOwns, AcIdle

(* Deleting puts the object out of reach of everybody: it was in one place *)
(* only, and a moved value is recorded once.                               *)
LEMMA AcDeletes ==
    ASSUME AcInv, NEW t \in AcThreads, CellDelete(t)
    PROVE  AcInv'
<1> DEFINE x == acThread[t].obj
<1>1. AcOwns(t) /\ AcTypeOK
  BY DEF CellDelete, AcOwns, AcInv
<1>2. x \in 1 .. acMade /\ x # acPtr /\ \A i \in DOMAIN acTaken : acTaken[i] # x
  BY <1>1 DEF AcInv
<1>3. ASSUME NEW u \in AcThreads
      PROVE  /\ acThread'[u] = IF u = t THEN [at |-> "idle", obj |-> 0] ELSE acThread[u]
             /\ AcOwns(u)' <=> u # t /\ AcOwns(u)
  BY <1>1 DEF CellDelete, AcGo, AcTypeOK, AcOwns
<1>4. acMade' = acMade /\ acPtr' = acPtr /\ acAlive' = acAlive \ {x}
  BY DEF CellDelete
<1>5. /\ acTaken' \in Seq(1 .. acMade)
      /\ \A i \in DOMAIN acTaken' :
           acTaken'[i] = x \/ \E j \in DOMAIN acTaken : acTaken'[i] = acTaken[j]
      /\ \A i, j \in DOMAIN acTaken' : acTaken'[i] = acTaken'[j] => i = j
  <2>1. CASE acTaken' = acTaken
    BY <1>1, <2>1 DEF AcInv, AcTypeOK
  <2>2. CASE acTaken' = Append(acTaken, x)
    <3>1. acTaken \in Seq(1 .. acMade) /\ \A i, j \in DOMAIN acTaken : acTaken[i] = acTaken[j] => i = j
      BY <1>1 DEF AcInv, AcTypeOK
    <3> HIDE DEF x
    <3>2. /\ DOMAIN acTaken' = 1 .. Len(acTaken) + 1 /\ DOMAIN acTaken = 1 .. Len(acTaken)
          /\ Len(acTaken) \in Nat
          /\ acTaken'[Len(acTaken) + 1] = x
          /\ \A i \in 1 .. Len(acTaken) : acTaken'[i] = acTaken[i]
      BY <2>2, <3>1
    <3>3. acTaken' \in Seq(1 .. acMade)
      BY <1>2, <2>2, <3>1
    <3>4. \A i \in DOMAIN acTaken' : i \in DOMAIN acTaken \/ i = Len(acTaken) + 1
      BY <3>2
    <3> QED
      BY <1>2, <3>1, <3>2, <3>3, <3>4
  <2> QED
    BY <2>1, <2>2 DEF CellDelete
<1>6. AcTypeOK'
  BY <1>1, <1>4, <1>5 DEF CellDelete, AcGo, AcTypeOK
<1>7. \A y : y \in acAlive' <=> \/ y = acPtr' /\ acPtr' # 0
                                \/ \E u \in AcThreads : AcOwns(u)' /\ acThread'[u].obj = y
  <2>1. \A u \in AcThreads : AcOwns(u) /\ u # t => acThread[u].obj # x
    BY <1>1 DEF AcInv
  <2>2. \A y : y \in acAlive <=> \/ y = acPtr /\ acPtr # 0
                                 \/ \E u \in AcThreads : AcOwns(u) /\ acThread[u].obj = y
    BY DEF AcInv
  <2> HIDE DEF x
  <2>3. \A u \in AcThreads : (AcOwns(u)' <=> u # t /\ AcOwns(u))
                             /\ (u # t => acThread'[u].obj = acThread[u].obj)
    BY <1>3
  <2>4. \A y : y \in acAlive' <=> y \in acAlive /\ y # x
    BY <1>4
  <2>5. x = acThread[t].obj
    BY DEF x
  <2> QED
    BY <1>1, <1>2, <1>4, <2>1, <2>2, <2>3, <2>4, <2>5
<1>8. \A u \in AcThreads : AcOwns(u)' =>
        /\ acThread'[u].obj \in 1 .. acMade' /\ acThread'[u].obj # acPtr'
        /\ \A i \in DOMAIN acTaken' : acTaken'[i] # acThread'[u].obj
        /\ \A w \in AcThreads : AcOwns(w)' /\ w # u => acThread'[w].obj # acThread'[u].obj
  BY <1>1, <1>3, <1>4, <1>5 DEF AcInv
<1>9. \A i \in DOMAIN acTaken' : acTaken'[i] # acPtr'
  BY <1>2, <1>4, <1>5 DEF AcInv
<1> QED
  BY <1>5, <1>6, <1>7, <1>8, <1>9 DEF AcInv

(* A new object is nobody else's, and the old one passes from the cell to  *)
(* the call.                                                               *)
LEMMA AcExchanges ==
    ASSUME AcInv, NEW t \in AcThreads, NEW at \in {"store", "exchange"}, CellExchange(t, at)
    PROVE  AcInv'
<1>1. AcTypeOK /\ ~AcOwns(t)
  BY DEF CellExchange, AcOwns, AcInv
<1>2. acPtr \in 1 .. acMade /\ acMade' = acMade + 1 /\ acPtr' = acMade + 1
      /\ acTaken' = acTaken /\ acAlive' = acAlive \union {acMade + 1}
  BY <1>1 DEF CellExchange, AcTypeOK
<1>3. ASSUME NEW u \in AcThreads
      PROVE  /\ acThread'[u] = IF u = t THEN [at |-> at, obj |-> acPtr] ELSE acThread[u]
             /\ AcOwns(u)' <=> u = t \/ AcOwns(u)
  BY <1>1 DEF CellExchange, AcGo, AcTypeOK, AcOwns
<1>4. AcTypeOK'
  <2>1. acTaken \in Seq(1 .. acMade + 1)
    <3>1. acTaken \in Seq(1 .. acMade) /\ acMade \in Nat
      BY <1>1 DEF AcTypeOK
    <3> QED
      BY <3>1
  <2> QED
    BY <1>1, <1>2, <2>1 DEF CellExchange, AcGo, AcTypeOK
<1>5. acMade \in Nat /\ \A i \in DOMAIN acTaken : acTaken[i] \in 1 .. acMade
  BY <1>1 DEF AcTypeOK
<1>6. \A u \in AcThreads : AcOwns(u) => acThread[u].obj \in 1 .. acMade /\ acThread[u].obj # acPtr
  BY DEF AcInv
<1>7. \A y : y \in acAlive' <=> \/ y = acPtr' /\ acPtr' # 0
                                \/ \E u \in AcThreads : AcOwns(u)' /\ acThread'[u].obj = y
  <2>1. \A y : y \in acAlive <=> \/ y = acPtr /\ acPtr # 0
                                 \/ \E u \in AcThreads : AcOwns(u) /\ acThread[u].obj = y
    BY DEF AcInv
  <2>2. \A u \in AcThreads : (AcOwns(u)' <=> u = t \/ AcOwns(u))
                             /\ (acThread'[u].obj = IF u = t THEN acPtr ELSE acThread[u].obj)
    BY <1>3
  <2> QED
    BY <1>1, <1>2, <1>5, <2>1, <2>2
<1>8. \A u \in AcThreads : AcOwns(u)' =>
        /\ acThread'[u].obj \in 1 .. acMade' /\ acThread'[u].obj # acPtr'
        /\ \A i \in DOMAIN acTaken' : acTaken'[i] # acThread'[u].obj
        /\ \A w \in AcThreads : AcOwns(w)' /\ w # u => acThread'[w].obj # acThread'[u].obj
  BY <1>1, <1>2, <1>3, <1>5, <1>6 DEF AcInv
<1>9. \A i \in DOMAIN acTaken' : acTaken'[i] # acPtr'
  BY <1>2, <1>5
<1> QED
  BY <1>2, <1>4, <1>7, <1>8, <1>9 DEF AcInv

(* Every step of Atomic<T> preserves the invariant.                        *)
LEMMA AcStepInv == AcInv /\ [AcNext]_acVars => AcInv'
<1> SUFFICES ASSUME AcInv, [AcNext]_acVars PROVE AcInv'
  OBVIOUS
<1>1. CASE CellDestruct
  <2>1. \A t \in AcThreads : ~AcOwns(t)
    BY <1>1 DEF CellDestruct, AcOwns, AcIdle
  <2>2. /\ acThread' = acThread /\ acMade' = acMade /\ acTaken' = acTaken
        /\ acPtr' = 0 /\ acAlive' = acAlive \ {acPtr}
    BY <1>1 DEF CellDestruct
  <2>3. AcTypeOK'
    BY <2>2 DEF AcInv, AcTypeOK
  <2>4. acAlive' = {}
    BY <2>1, <2>2 DEF AcInv
  <2>5. \A i \in DOMAIN acTaken : acTaken[i] \in 1 .. acMade
    BY DEF AcInv, AcTypeOK
  <2> QED
    BY <2>1, <2>2, <2>3, <2>4, <2>5 DEF AcInv, AcOwns
<1>2. ASSUME NEW t \in AcThreads, CellLoad(t) \/ CellCopy(t) PROVE AcInv'
  <2>1. /\ \A u \in AcThreads : /\ AcOwns(u)' <=> AcOwns(u)
                                /\ AcOwns(u) => acThread'[u] = acThread[u]
        /\ acThread' \in [AcThreads -> [at : {"idle", "copy", "store", "exchange"}, obj : Nat]]
    BY <1>2, SMTT(60) DEF CellLoad, CellCopy, AcGo, AcOwns, AcInv, AcTypeOK
  <2>2. UNCHANGED <<acPtr, acAlive, acMade, acTaken>>
    BY <1>2 DEF CellLoad, CellCopy
  <2> QED
    BY <2>1, <2>2 DEF AcInv, AcTypeOK
<1>3. ASSUME NEW t \in AcThreads, CellDelete(t) PROVE AcInv'
  BY <1>3, AcDeletes
<1>4. ASSUME NEW t \in AcThreads, NEW at \in {"store", "exchange"}, CellExchange(t, at)
      PROVE AcInv'
  BY <1>4, AcExchanges
<1>5. CASE UNCHANGED acVars
  BY <1>5 DEF acVars, AcInv, AcTypeOK, AcOwns
<1> QED
  BY <1>1, <1>2, <1>3, <1>4, <1>5 DEF AcNext

(* What the invariant says of the cell.                                    *)
LEMMA AcSafe == AcInv => CellOwnsOne
<1> SUFFICES ASSUME AcInv PROVE CellOwnsOne
  OBVIOUS
<1> DEFINE old(t) == IF AcOwns(t) THEN {acThread[t].obj} ELSE {}
<1>1. acAlive = ({acPtr} \ {0}) \union UNION {old(t) : t \in AcThreads}
  <2>1. \A x : x \in UNION {old(t) : t \in AcThreads}
               <=> \E t \in AcThreads : AcOwns(t) /\ acThread[t].obj = x
    OBVIOUS
  <2> HIDE DEF old
  <2>2. \A x : x \in acAlive <=> \/ x = acPtr /\ acPtr # 0
                                 \/ \E t \in AcThreads : AcOwns(t) /\ acThread[t].obj = x
    BY DEF AcInv
  <2> QED
    BY <2>1, <2>2
<1>2. \A t, u \in AcThreads : t # u => old(t) \intersect old(u) = {}
  BY DEF AcInv
<1>3. \A t \in AcThreads : old(t) \intersect ({acPtr} \union ToSet(acTaken)) = {}
  BY DEF AcInv, ToSet
<1>4. IsInjective(acTaken)
  BY DEF AcInv, IsInjective
<1> QED
  BY <1>1, <1>2, <1>3, <1>4 DEF CellOwnsOne, AcOwns

-----------------------------------------------------------------------------
(* AtomicOptional: while stores have not overlapped, at most one is between *)
(* its value and its flag, and the value in the cell is its value.         *)
AoTypeOK ==
    /\ aoValue \in Nat /\ aoHas \in BOOLEAN /\ aoStores \in Nat /\ aoLast \in Int
    /\ aoThread \in [AoThreads -> [at : {"idle", "flag", "read"}, value : Nat]]

AoStoring(t) == aoThread[t].at = "flag"

AoInv ==
    /\ AoTypeOK
    /\ aoLast # -1 =>
         /\ \A t, u \in AoThreads : AoStoring(t) /\ AoStoring(u) => t = u
         /\ \A t \in AoThreads : AoStoring(t) => aoThread[t].value = aoValue
         /\ (\A t \in AoThreads : ~AoStoring(t)) =>
              (aoHas <=> aoLast # 0) /\ aoValue = aoLast

(* The empty optional.                                                     *)
LEMMA AoInitial == AoInit => AoInv
<1> SUFFICES ASSUME AoInit PROVE AoInv
  OBVIOUS
<1>1. AoTypeOK
  <2>1. aoHas \in BOOLEAN
    BY Zenon DEF AoInit
  <2>2. aoThread \in [AoThreads -> [at : {"idle", "flag", "read"}, value : Nat]]
    BY DEF AoInit, AoIdle
  <2>3. aoValue \in Nat /\ aoStores \in Nat /\ aoLast \in Int
    BY DEF AoInit
  <2> QED
    BY <2>1, <2>2, <2>3 DEF AoTypeOK
<1>2. \A t \in AoThreads : ~AoStoring(t)
  BY DEF AoInit, AoStoring, AoIdle
<1>3. aoValue = aoLast /\ (aoHas <=> aoLast # 0)
  BY DEF AoInit
<1> QED
  BY <1>1, <1>2, <1>3 DEF AoInv

(* A store that begins alone becomes the only writer; one that ends alone  *)
(* leaves its value and a flag that agrees with it.                        *)
LEMMA AoStepInv == AoInv /\ [AoNext]_aoVars => AoInv'
<1> SUFFICES ASSUME AoInv, [AoNext]_aoVars PROVE AoInv'
  OBVIOUS
<1>0. AoTypeOK
  BY DEF AoInv
<1>1. ASSUME NEW t \in AoThreads, NEW reset \in BOOLEAN, StoreValue(t, reset) PROVE AoInv'
  <2> DEFINE v == IF reset THEN 0 ELSE aoStores + 1
  <2>1. v \in Nat /\ aoValue' = v /\ aoHas' = aoHas /\ aoStores' = aoStores + 1
    BY <1>0, <1>1 DEF StoreValue, AoTypeOK
  <2>2. aoThread' = [aoThread EXCEPT ![t] = [at |-> "flag", value |-> v]]
    BY <1>1 DEF StoreValue, AoGo
  <2>3. aoLast' = IF AoWriters = {} THEN aoLast ELSE -1
    BY <1>1 DEF StoreValue
  <2> HIDE DEF v
  <2>4. AoTypeOK'
    BY <1>0, <2>1, <2>2, <2>3 DEF AoTypeOK
  <2>5. aoLast' # -1 => \A u \in AoThreads : AoStoring(u)' => u = t
    BY <1>0, <2>2, <2>3 DEF AoTypeOK, AoStoring, AoWriters
  <2>6. AoStoring(t)' /\ aoThread'[t].value = v
    BY <1>0, <2>2 DEF AoTypeOK, AoStoring
  <2> QED
    BY <2>1, <2>4, <2>5, <2>6 DEF AoInv
<1>2. ASSUME NEW t \in AoThreads, StoreHas(t) PROVE AoInv'
  <2>1. AoStoring(t) /\ aoThread[t].value \in Nat
    BY <1>0, <1>2 DEF StoreHas, AoStoring, AoTypeOK
  <2>2. aoThread' = [aoThread EXCEPT ![t] = [at |-> "idle", value |-> 0]]
    BY <1>2 DEF StoreHas, AoGo
  <2>3. /\ aoHas' = (aoThread[t].value # 0) /\ aoValue' = aoValue /\ aoStores' = aoStores
        /\ aoLast' = IF AoWriters = {t} /\ aoLast # -1 THEN aoThread[t].value ELSE -1
    BY <1>2 DEF StoreHas
  <2>4. AoTypeOK'
    BY <1>0, <2>1, <2>2, <2>3 DEF AoTypeOK
  <2>5. CASE aoLast' # -1
    <3>1. AoWriters = {t} /\ aoLast # -1 /\ aoLast' = aoThread[t].value
      BY <2>3, <2>5
    <3>2. \A u \in AoThreads : ~AoStoring(u)'
      BY <1>0, <2>2, <3>1 DEF AoTypeOK, AoStoring, AoWriters
    <3>3. aoThread[t].value = aoValue
      BY <2>1, <3>1 DEF AoInv
    <3>4. aoHas' <=> aoLast' # 0
      BY <2>3, <3>1
    <3> QED
      BY <2>3, <2>4, <3>1, <3>2, <3>3, <3>4 DEF AoInv
  <2> QED
    BY <2>4, <2>5 DEF AoInv
<1>3. ASSUME NEW t \in AoThreads, LoadHas(t) \/ LoadValue(t) PROVE AoInv'
  <2>1. \E a \in {"idle", "read"} : aoThread' = [aoThread EXCEPT ![t] = [at |-> a, value |-> 0]]
    BY <1>3 DEF LoadHas, LoadValue, AoGo
  <2>2. ~AoStoring(t)
    BY <1>3 DEF LoadHas, LoadValue, AoStoring
  <2>3. \A u \in AoThreads : /\ AoStoring(u)' <=> AoStoring(u)
                             /\ AoStoring(u) => aoThread'[u] = aoThread[u]
    BY <1>0, <2>1, <2>2 DEF AoTypeOK, AoStoring
  <2>4. UNCHANGED <<aoValue, aoHas, aoStores, aoLast>>
    BY <1>3 DEF LoadHas, LoadValue
  <2>5. AoTypeOK'
    BY <1>0, <2>1, <2>4 DEF AoTypeOK
  <2> QED
    BY <2>3, <2>4, <2>5 DEF AoInv
<1>4. CASE UNCHANGED aoVars
  BY <1>4 DEF aoVars, AoInv, AoTypeOK, AoStoring
<1> QED
  BY <1>1, <1>2, <1>3, <1>4 DEF AoNext

(* What the invariant says of the optional.                                *)
LEMMA AoSafe == AoInv => OptionalIsLastStore
<1> SUFFICES ASSUME AoInv, aoLast # -1
             PROVE  /\ AoWriters = {} => aoHas = (aoLast # 0) /\ aoValue = aoLast
                    /\ aoHas /\ aoValue = 0 => \E t \in AoWriters : aoThread[t].value = 0
  BY DEF OptionalIsLastStore
<1>1. \A t : t \in AoWriters <=> t \in AoThreads /\ AoStoring(t)
  BY DEF AoWriters, AoStoring
<1>2. aoHas \in BOOLEAN
  BY DEF AoInv, AoTypeOK
<1>3. AoWriters = {} => (aoHas <=> aoLast # 0) /\ aoValue = aoLast
  BY <1>1 DEF AoInv
<1>4. ASSUME aoHas, aoValue = 0 PROVE \E t \in AoWriters : aoThread[t].value = 0
  <2>1. AoWriters # {}
    BY <1>3, <1>4
  <2> QED
    BY <1>1, <1>4, <2>1 DEF AoInv
<1> QED
  BY <1>2, <1>3, <1>4

-----------------------------------------------------------------------------
(* Signal: the calls of Add() that are under way have an id to come.       *)
SgAdders == {u \in SgThreads : sgCall[u].op \in {"all", "one"}}

SgArgs == SgSignals \union 0 .. SgMax

SgTypeOK ==
    /\ sgId \in Nat /\ sgHandler \in [1 .. SgMax -> {"none", "all", "one"}]
    /\ sgBySig \in [SgSignals -> [1 .. SgMax -> {0, 1}]]
    /\ sgCall \in [SgThreads -> [op : {"idle", "all", "one", "remove"}, arg : SgArgs]]

SgArgsFit ==
    \A t \in SgThreads : /\ sgCall[t].op = "one" => sgCall[t].arg \in SgSignals
                         /\ sgCall[t].op = "remove" => sgCall[t].arg \in 1 .. SgMax

SgIdsLeft == /\ IsFiniteSet(SgAdders) /\ sgId + Cardinality(SgAdders) <= SgMax
             /\ \A i \in 1 .. SgMax : i > sgId => sgHandler[i] = "none"

SgInv == SgTypeOK /\ SgArgsFit /\ SgIdsLeft /\ ListsNameHandlers

(* Nothing is registered at first.                                         *)
LEMMA SgInitial == SgInit => SgInv
<1> SUFFICES ASSUME SgInit PROVE SgInv
  OBVIOUS
<1>1. SgMax \in Nat
  BY SgAssumption
<1>2. SgTypeOK /\ SgArgsFit
  BY <1>1 DEF SgInit, SgTypeOK, SgArgsFit, SgIdle, SgArgs
<1>3. SgAdders = {}
  BY DEF SgInit, SgAdders, SgIdle
<1>4. SgIdsLeft
  BY <1>1, <1>3, FS_EmptySet DEF SgInit, SgIdsLeft
<1>5. ListsNameHandlers
  BY DEF SgInit, ListsNameHandlers
<1> QED
  BY <1>2, <1>4, <1>5 DEF SgInv

(* A call begins, with an id left for it if it is Add().                   *)
LEMMA SgBegins ==
    ASSUME SgInv, NEW t \in SgThreads, NEW op \in {"all", "one", "remove"}, NEW arg \in SgArgs,
           op = "one" => arg \in SgSignals, op = "remove" => arg \in 1 .. SgMax,
           SgBegin(t, op, arg)
    PROVE  SgInv'
<1>1. sgCall' = [sgCall EXCEPT ![t] = [op |-> op, arg |-> arg]] /\ sgCall[t].op = "idle"
  BY DEF SgBegin, SgIdle
<1>2. UNCHANGED <<sgId, sgHandler, sgBySig>>
  BY DEF SgBegin
<1>3. SgTypeOK /\ SgTypeOK'
  BY <1>1, <1>2 DEF SgInv, SgTypeOK
<1>4. SgArgsFit'
  BY <1>1, <1>3 DEF SgInv, SgTypeOK, SgArgsFit
<1>5. SgIdsLeft'
  <2>1. SgAdders' = IF op = "remove" THEN SgAdders ELSE SgAdders \union {t}
    BY <1>1, <1>3 DEF SgTypeOK, SgAdders
  <2>2. t \notin SgAdders
    BY <1>1 DEF SgAdders
  <2>3. IsFiniteSet(SgAdders) /\ Cardinality(SgAdders) \in Nat
    BY FS_CardinalityType DEF SgInv, SgIdsLeft
  <2>4. op # "remove" => sgId + Cardinality(SgAdders) < SgMax
    BY DEF SgBegin, SgAdders
  <2>5. IsFiniteSet(SgAdders \union {t}) /\ Cardinality(SgAdders \union {t}) = Cardinality(SgAdders) + 1
    BY <2>2, <2>3, FS_AddElement
  <2> QED
    BY <1>2, <1>3, <2>1, <2>3, <2>4, <2>5, SgAssumption DEF SgInv, SgIdsLeft, SgTypeOK
<1>6. ListsNameHandlers'
  BY <1>2 DEF SgInv, ListsNameHandlers
<1> QED
  BY <1>3, <1>4, <1>5, <1>6 DEF SgInv

(* Add() gives the handler an id that nothing names yet.                   *)
LEMMA SgAdds ==
    ASSUME SgInv, NEW t \in SgThreads, SgAdd(t)
    PROVE  SgInv'
<1>0. SgMax \in Nat /\ SgTypeOK
  BY SgAssumption DEF SgInv
<1>1. /\ sgCall' = [sgCall EXCEPT ![t] = SgIdle] /\ sgCall[t].op \in {"all", "one"}
      /\ sgId' = sgId + 1 /\ sgHandler' = [sgHandler EXCEPT ![sgId + 1] = sgCall[t].op]
      /\ sgBySig' = IF sgCall[t].op = "all" THEN sgBySig
                    ELSE [sgBySig EXCEPT ![sgCall[t].arg][sgId + 1] = @ + 1]
  BY DEF SgAdd, SgReturn
<1>2. t \in SgAdders /\ SgAdders' = SgAdders \ {t}
  BY <1>0, <1>1 DEF SgTypeOK, SgAdders, SgIdle
<1>3. IsFiniteSet(SgAdders) /\ Cardinality(SgAdders) \in Nat /\ sgId + Cardinality(SgAdders) <= SgMax
  BY FS_CardinalityType DEF SgInv, SgIdsLeft
<1>4. IsFiniteSet(SgAdders') /\ Cardinality(SgAdders') \in Nat
      /\ Cardinality(SgAdders') = Cardinality(SgAdders) - 1
  BY <1>2, <1>3, FS_RemoveElement, FS_CardinalityType
<1>5. sgId + 1 \in 1 .. SgMax /\ sgHandler[sgId + 1] = "none"
  <2>1. sgId + 1 \in 1 .. SgMax
    BY <1>0, <1>3, <1>4 DEF SgTypeOK
  <2> QED
    BY <1>0, <2>1 DEF SgInv, SgIdsLeft, SgTypeOK
<1>6. \A s \in SgSignals : sgBySig[s][sgId + 1] = 0
  BY <1>0, <1>5 DEF SgInv, ListsNameHandlers, SgTypeOK
<1>7. \A s \in SgSignals, i \in 1 .. SgMax : sgBySig'[s][i] =
         IF sgCall[t].op = "one" /\ s = sgCall[t].arg /\ i = sgId + 1 THEN 1 ELSE sgBySig[s][i]
  BY <1>0, <1>1, <1>5, <1>6 DEF SgTypeOK, SgInv, SgArgsFit
<1>8. SgTypeOK'
  <2>1. sgBySig' \in [SgSignals -> [1 .. SgMax -> {0, 1}]]
    <3>1. CASE sgCall[t].op = "all"
      BY <1>0, <1>1, <3>1 DEF SgTypeOK
    <3>2. CASE sgCall[t].op = "one"
      <4>1. sgCall[t].arg \in SgSignals
        BY <3>2 DEF SgInv, SgArgsFit
      <4>2. PICK a \in SgSignals : a = sgCall[t].arg
        BY <4>1
      <4>3. sgBySig' = [sgBySig EXCEPT ![a] = [sgBySig[a] EXCEPT ![sgId + 1] =
                                                 sgBySig[a][sgId + 1] + 1]]
        BY <1>1, <3>2, <4>2
      <4>4. sgBySig[a] \in [1 .. SgMax -> {0, 1}] /\ sgBySig[a][sgId + 1] + 1 \in {0, 1}
        BY <1>0, <1>6 DEF SgTypeOK
      <4>5. [sgBySig[a] EXCEPT ![sgId + 1] = sgBySig[a][sgId + 1] + 1] \in [1 .. SgMax -> {0, 1}]
        BY <4>4
      <4> QED
        BY <1>0, <4>3, <4>5 DEF SgTypeOK
    <3> QED
      BY <1>1, <3>1, <3>2
  <2>2. sgHandler' \in [1 .. SgMax -> {"none", "all", "one"}]
    <3>1. sgHandler \in [1 .. SgMax -> {"none", "all", "one"}]
      BY <1>0 DEF SgTypeOK
    <3>2. sgHandler' = [sgHandler EXCEPT ![sgId + 1] = sgCall[t].op]
          /\ sgCall[t].op \in {"none", "all", "one"}
      BY <1>1
    <3> QED
      BY <3>1, <3>2
  <2>3. sgId' \in Nat
    BY <1>0, <1>1 DEF SgTypeOK
  <2>4. sgCall' \in [SgThreads -> [op : {"idle", "all", "one", "remove"}, arg : SgArgs]]
    <3>1. SgIdle \in [op : {"idle", "all", "one", "remove"}, arg : SgArgs]
      BY <1>0 DEF SgIdle, SgArgs
    <3> QED
      BY <1>0, <1>1, <3>1 DEF SgTypeOK
  <2> QED
    BY <2>1, <2>2, <2>3, <2>4 DEF SgTypeOK
<1>9. SgArgsFit'
  BY <1>0, <1>1 DEF SgInv, SgTypeOK, SgArgsFit, SgIdle
<1>10. \A i \in 1 .. SgMax : sgHandler'[i] = IF i = sgId + 1 THEN sgCall[t].op ELSE sgHandler[i]
  BY <1>0, <1>1 DEF SgTypeOK
<1>11. SgIdsLeft'
  BY <1>0, <1>1, <1>3, <1>4, <1>10 DEF SgInv, SgIdsLeft, SgTypeOK
<1>12. ListsNameHandlers'
  <2> SUFFICES ASSUME NEW i \in 1 .. SgMax
               PROVE  /\ (sgHandler'[i] = "one") <=> (\E s \in SgSignals : sgBySig'[s][i] # 0)
                      /\ \A s, u \in SgSignals : sgBySig'[s][i] # 0 /\ sgBySig'[u][i] # 0 => s = u
                      /\ \A s \in SgSignals : sgBySig'[s][i] <= 1
    BY DEF ListsNameHandlers
  <2>1. CASE i # sgId + 1
    BY <1>7, <1>10, <2>1 DEF SgInv, ListsNameHandlers
  <2>2. CASE i = sgId + 1
    <3>1. \A s \in SgSignals : sgBySig'[s][i] =
             IF sgCall[t].op = "one" /\ s = sgCall[t].arg THEN 1 ELSE 0
      BY <1>5, <1>6, <1>7, <2>2
    <3>2. sgCall[t].op = "one" => sgCall[t].arg \in SgSignals
      BY DEF SgInv, SgArgsFit
    <3> QED
      BY <1>5, <1>10, <2>2, <3>1, <3>2
  <2> QED
    BY <2>1, <2>2
<1> QED
  BY <1>8, <1>9, <1>11, <1>12 DEF SgInv

(* Remove() takes the id out of the table and out of every list.           *)
LEMMA SgRemoves ==
    ASSUME SgInv, NEW t \in SgThreads, SgRemove(t)
    PROVE  SgInv'
<1>0. SgMax \in Nat /\ SgTypeOK
  BY SgAssumption DEF SgInv
<1>1. PICK k \in 1 .. SgMax :
      /\ sgCall' = [sgCall EXCEPT ![t] = SgIdle] /\ sgCall[t].op = "remove"
      /\ sgId' = sgId /\ sgHandler' = [sgHandler EXCEPT ![k] = "none"]
      /\ sgBySig' = IF sgHandler[k] = "none" THEN sgBySig
                    ELSE [s \in SgSignals |-> [sgBySig[s] EXCEPT ![k] = 0]]
  BY DEF SgRemove, SgReturn, SgInv, SgArgsFit
<1>2. SgAdders' = SgAdders
  BY <1>0, <1>1 DEF SgTypeOK, SgAdders, SgIdle
<1>3. \A i \in 1 .. SgMax : sgHandler'[i] = IF i = k THEN "none" ELSE sgHandler[i]
  BY <1>0, <1>1 DEF SgTypeOK
<1>4. \A s \in SgSignals, i \in 1 .. SgMax : sgBySig'[s][i] = IF i = k THEN 0 ELSE sgBySig[s][i]
  <2>1. sgHandler[k] = "none" => \A s \in SgSignals : sgBySig[s][k] = 0
    BY DEF SgInv, ListsNameHandlers
  <2> QED
    BY <1>0, <1>1, <2>1 DEF SgTypeOK
<1>5. SgTypeOK'
  BY <1>0, <1>1 DEF SgTypeOK, SgIdle, SgArgs
<1>6. SgArgsFit'
  BY <1>0, <1>1 DEF SgInv, SgTypeOK, SgArgsFit, SgIdle
<1>7. SgIdsLeft'
  BY <1>1, <1>2, <1>3 DEF SgInv, SgIdsLeft
<1>8. ListsNameHandlers'
  BY <1>3, <1>4 DEF SgInv, ListsNameHandlers
<1> QED
  BY <1>5, <1>6, <1>7, <1>8 DEF SgInv

(* The other steps move the lock and the pending signals only.             *)
LEMMA SgStepInv == SgInv /\ [SgNext]_sgVars => SgInv'
<1> SUFFICES ASSUME SgInv, [SgNext]_sgVars PROVE SgInv'
  OBVIOUS
<1>1. CASE UNCHANGED <<sgId, sgHandler, sgBySig, sgCall>>
  BY <1>1 DEF SgInv, SgTypeOK, SgArgsFit, SgIdsLeft, SgAdders, ListsNameHandlers
<1>2. ASSUME NEW t \in SgThreads, SgStep(t) PROVE SgInv'
  BY <1>1, <1>2, SgAdds, SgRemoves, Zenon
    DEF SgStep, SgAcquire, SgHandlerAcquire, SgHandlerReturn
<1>3. ASSUME NEW t \in SgThreads, SgBegin(t, "all", 0) PROVE SgInv'
  <2>1. 0 \in SgArgs
    BY SgAssumption DEF SgArgs
  <2> QED
    BY <1>3, <2>1, SgBegins
<1>4. ASSUME NEW t \in SgThreads, NEW s \in SgSignals, SgBegin(t, "one", s) PROVE SgInv'
  BY <1>4, SgBegins DEF SgArgs
<1>5. ASSUME NEW t \in SgThreads, NEW s \in SgSignals, SgInterrupt(t, s) PROVE SgInv'
  BY <1>1, <1>5 DEF SgInterrupt
<1>6. ASSUME NEW t \in SgThreads, NEW i \in 1 .. SgMax, SgBegin(t, "remove", i) PROVE SgInv'
  <2>1. i \in SgArgs
    BY SgAssumption DEF SgArgs
  <2> QED
    BY <1>6, <2>1, SgBegins
<1>7. CASE UNCHANGED sgVars
  BY <1>1, <1>7 DEF sgVars
<1> QED
  BY <1>2, <1>3, <1>4, <1>5, <1>6, <1>7, Zenon DEF SgNext

-----------------------------------------------------------------------------
(* SharedStorage: no value number above ssMade is in use.                  *)
SsTypeOK ==
    /\ ssMade \in 0 .. SsValues /\ ssClock \in Nat /\ ssWheel \in Nat /\ ssWake \in Nat
    /\ ssTable \in [SsKeys -> [type : {"none", "key", "T"}, value : 0 .. ssMade,
                               deletable : BOOLEAN]]
    /\ ssCache \in [SsThreads -> [SsKeys -> 0 .. ssMade]]
    /\ ssEvent \in [1 .. SsValues -> [due : Nat, every : Nat]]
    /\ ssSeen \subseteq 1 .. SsValues

(* An entry has a value if and only if it has the type of one; a cached    *)
(* value is the one of the table unless it was kept, and every thread      *)
(* keeps what it has cached when the entry becomes deletable.              *)
SsCaches ==
    /\ \A k \in SsKeys : ssTable[k].type = "T" <=> ssTable[k].value # 0
    /\ \A t \in SsThreads, k \in SsKeys : ssCache[t][k] # 0 =>
         /\ ssCache[t][k] = ssTable[k].value \/ <<t, ssCache[t][k]>> \in ssKept
         /\ ssTable[k].deletable /\ ssCache[t][k] = ssTable[k].value
              => <<t, ssCache[t][k]>> \in ssKept

(* Every reloadable is due after the time of the wheel, and those the      *)
(* worker has seen not before it wakes up.                                 *)
SsTimers ==
    /\ \A v \in 1 .. SsValues : /\ v > ssMade => ssEvent[v].every = 0
                                /\ ssEvent[v].every # 0 => ssEvent[v].due > ssWheel
    /\ ssWheel <= ssClock /\ ssClock <= ssWake /\ ssClock <= SsClock
    /\ \A v \in ssSeen : ssEvent[v].every # 0 /\ ssEvent[v].due >= ssWake

SsInv == SsTypeOK /\ SsCaches /\ SsTimers

(* An empty table, and a worker that has not looked yet.                   *)
LEMMA SsInitial == SsInit => SsInv
<1> SUFFICES ASSUME SsInit PROVE SsInv
  OBVIOUS
<1>0. SsValues \in Nat /\ SsClock \in Nat
  BY SsAssumption
<1>1. SsTypeOK
  <2>1. ssTable \in [SsKeys -> [type : {"none", "key", "T"}, value : 0 .. ssMade,
                               deletable : BOOLEAN]]
    BY DEF SsInit, NoEntry
  <2> QED
    BY <1>0, <2>1 DEF SsInit, SsTypeOK
<1>2. SsCaches
  BY DEF SsInit, SsCaches, NoEntry
<1>3. SsTimers
  BY <1>0 DEF SsInit, SsTimers
<1> QED
  BY <1>1, <1>2, <1>3 DEF SsInv

(* A call that misses its cache finds the value of the table or makes a    *)
(* value that no cache and no event knows.                                 *)
LEMMA SsCreates ==
    ASSUME SsInv, NEW t \in SsThreads, NEW k \in SsKeys, GetOrCreate(t, k)
    PROVE  SsInv'
<1> DEFINE e == ssTable[k]
           v == IF e.value = 0 THEN ssMade + 1 ELSE e.value
<1>0. SsValues \in Nat /\ SsTypeOK /\ SsCaches /\ SsTimers
  BY SsAssumption DEF SsInv
<1>1. e \in [type : {"none", "key", "T"}, value : 0 .. ssMade, deletable : BOOLEAN]
      /\ ssMade \in 0 .. SsValues
  BY <1>0 DEF SsTypeOK
<1>2. /\ ssTable' = [ssTable EXCEPT ![k] = [@ EXCEPT !.value = v, !.type = "T"]]
      /\ ssMade' = IF e.value = 0 THEN v ELSE ssMade
      /\ ssCache' = IF e.deletable THEN ssCache
                    ELSE [ssCache EXCEPT ![t] = [@ EXCEPT ![k] = v]]
      /\ ssCache[t][k] = 0 /\ v <= SsValues
      /\ UNCHANGED <<ssSide, ssClock, ssWheel, ssWake, ssKept, ssSeen>>
  BY DEF GetOrCreate
<1>3. /\ v \in 1 .. ssMade' /\ ssMade' \in 0 .. SsValues /\ ssMade <= ssMade'
      /\ e.value = 0 => v > ssMade
  BY <1>0, <1>1, <1>2
<1>4. \/ ssEvent' = ssEvent
      \/ /\ e.value = 0
         /\ \E d \in Nat \ {0} : ssEvent' = [ssEvent EXCEPT ![v] = [due |-> ssWheel + d, every |-> d]]
  <2>1. \A j \in DOMAIN SsReload : SsReload[j] \in Nat \ {0}
    BY SsAssumption
  <2>2. ssEvent' = ssEvent \/ (e.value = 0 /\ AddReloadable(k, v))
    BY DEF GetOrCreate
  <2> QED
    BY <2>1, <2>2 DEF AddReloadable
<1> HIDE DEF v
<1>5. ASSUME NEW j \in SsKeys
      PROVE  ssTable'[j] = IF j = k THEN [e EXCEPT !.value = v, !.type = "T"] ELSE ssTable[j]
  BY <1>0, <1>2 DEF SsTypeOK
<1>6. ASSUME NEW u \in SsThreads, NEW j \in SsKeys
      PROVE  ssCache'[u][j] = IF u = t /\ j = k /\ ~e.deletable THEN v ELSE ssCache[u][j]
  BY <1>0, <1>2 DEF SsTypeOK
<1>7. SsTypeOK'
  <2>1. \A j \in SsKeys : ssTable'[j] \in [type : {"none", "key", "T"}, value : 0 .. ssMade',
                                           deletable : BOOLEAN]
    <3> TAKE j \in SsKeys
    <3>1. /\ ssTable[j].type \in {"none", "key", "T"} /\ ssTable[j].value \in 0 .. ssMade
          /\ ssTable[j] \in [type : {"none", "key", "T"}, value : 0 .. ssMade, deletable : BOOLEAN]
          /\ ssTable[j].deletable \in BOOLEAN
      BY <1>0 DEF SsTypeOK
    <3>2. 0 .. ssMade \subseteq 0 .. ssMade'
      BY <1>1, <1>3
    <3>3. CASE j # k
      BY <1>5, <3>1, <3>2, <3>3
    <3>4. CASE j = k
      <4>1. ssTable'[j] = [type |-> "T", value |-> v, deletable |-> e.deletable]
        BY <1>1, <1>5, <3>4
      <4>2. v \in 0 .. ssMade' /\ e.deletable \in BOOLEAN
        BY <1>3, <3>1, <3>4
      <4>3. PICK x, d : x = v /\ d = e.deletable
        OBVIOUS
      <4>4. x \in 0 .. ssMade' /\ d \in BOOLEAN
        BY <4>2, <4>3
      <4>5. [type |-> "T", value |-> x, deletable |-> d]
              \in [type : {"none", "key", "T"}, value : 0 .. ssMade', deletable : BOOLEAN]
        BY <4>4
      <4> QED
        BY <4>1, <4>3, <4>5
    <3> QED
      BY <3>3, <3>4
  <2>2. \A u \in SsThreads : ssCache'[u] \in [SsKeys -> 0 .. ssMade']
    <3> TAKE u \in SsThreads
    <3>1. ssCache[u] \in [SsKeys -> 0 .. ssMade] /\ 0 .. ssMade \subseteq 0 .. ssMade'
      BY <1>0, <1>1, <1>3 DEF SsTypeOK
    <3>2. ssCache'[u] = ssCache[u] \/ ssCache'[u] = [ssCache[u] EXCEPT ![k] = v]
      BY <1>0, <1>2 DEF SsTypeOK
    <3> QED
      BY <1>3, <3>1, <3>2
  <2>3. DOMAIN ssTable' = SsKeys /\ ssTable' = [j \in DOMAIN ssTable' |-> ssTable'[j]]
    BY <1>0, <1>2 DEF SsTypeOK
  <2>4. DOMAIN ssCache' = SsThreads /\ ssCache' = [u \in DOMAIN ssCache' |-> ssCache'[u]]
    BY <1>0, <1>2 DEF SsTypeOK
  <2>5. ssEvent' \in [1 .. SsValues -> [due : Nat, every : Nat]]
    <3>1. ssWheel \in Nat /\ ssEvent \in [1 .. SsValues -> [due : Nat, every : Nat]]
      BY <1>0 DEF SsTypeOK
    <3>2. ASSUME NEW d \in Nat \ {0},
                 ssEvent' = [ssEvent EXCEPT ![v] = [due |-> ssWheel + d, every |-> d]]
          PROVE  ssEvent' \in [1 .. SsValues -> [due : Nat, every : Nat]]
      <4>1. [due |-> ssWheel + d, every |-> d] \in [due : Nat, every : Nat]
        BY <3>1
      <4> QED
        BY <3>1, <3>2, <4>1
    <3> QED
      BY <1>4, <3>1, <3>2
  <2>6. ssTable' \in [SsKeys -> [type : {"none", "key", "T"}, value : 0 .. ssMade',
                               deletable : BOOLEAN]]
    BY <2>1, <2>3
  <2>7. ssCache' \in [SsThreads -> [SsKeys -> 0 .. ssMade']]
    BY <2>2, <2>4
  <2> QED
    BY <1>0, <1>2, <1>3, <2>5, <2>6, <2>7 DEF SsTypeOK
<1>8. /\ ssTable'[k].type = "T" /\ ssTable'[k].value = v /\ ssTable'[k].deletable = e.deletable
      /\ \A j \in SsKeys : j # k => ssTable'[j] = ssTable[j]
  BY <1>1, <1>5
<1>9. SsCaches'
  <2>1. \A j \in SsKeys : ssTable'[j].type = "T" <=> ssTable'[j].value # 0
    BY <1>0, <1>3, <1>8 DEF SsCaches
  <2>2. ASSUME NEW u \in SsThreads, NEW j \in SsKeys, ssCache'[u][j] # 0
        PROVE  /\ ssCache'[u][j] = ssTable'[j].value \/ <<u, ssCache'[u][j]>> \in ssKept'
               /\ ssTable'[j].deletable /\ ssCache'[u][j] = ssTable'[j].value
                    => <<u, ssCache'[u][j]>> \in ssKept'
    <3>1. CASE u = t /\ j = k /\ ~e.deletable
      BY <1>6, <1>8, <3>1
    <3>2. CASE ~(u = t /\ j = k /\ ~e.deletable)
      <4>1. ssCache'[u][j] = ssCache[u][j] /\ ssKept' = ssKept
        BY <1>2, <1>6, <3>2
      <4>2. ssCache[u][j] \in 0 .. ssMade
        BY <1>0 DEF SsTypeOK
      <4>3. /\ ssCache[u][j] = ssTable[j].value \/ <<u, ssCache[u][j]>> \in ssKept
            /\ ssTable[j].deletable /\ ssCache[u][j] = ssTable[j].value
                 => <<u, ssCache[u][j]>> \in ssKept
        BY <1>0, <2>2, <4>1 DEF SsCaches
      <4>4. CASE j # k
        BY <1>8, <4>1, <4>3, <4>4
      <4>5. CASE j = k /\ e.value # 0
        <5>1. v = e.value
          BY <4>5 DEF v
        <5> QED
          BY <1>8, <4>1, <4>3, <4>5, <5>1
      <4>6. CASE j = k /\ e.value = 0
        <5>1. <<u, ssCache[u][j]>> \in ssKept
          BY <2>2, <4>1, <4>3, <4>6
        <5> QED
          BY <4>1, <5>1
      <4> QED
        BY <4>4, <4>5, <4>6
    <3> QED
      BY <3>1, <3>2
  <2> QED
    BY <2>1, <2>2 DEF SsCaches
<1>10. SsTimers'
  <2>0. ssWheel \in Nat /\ ssMade \in Nat /\ ssMade' \in Nat
    BY <1>0, <1>3 DEF SsTypeOK
  <2>1. CASE ssEvent' = ssEvent
    BY <1>0, <1>2, <1>3, <2>0, <2>1 DEF SsTimers
  <2>2. ASSUME e.value = 0, NEW d \in Nat \ {0},
               ssEvent' = [ssEvent EXCEPT ![v] = [due |-> ssWheel + d, every |-> d]]
        PROVE  SsTimers'
    <3>1. v > ssMade /\ v \in 1 .. SsValues /\ ssEvent[v].every = 0
      BY <1>0, <1>2, <1>3, <2>2 DEF SsTimers
    <3>2. v \notin ssSeen
      BY <1>0, <3>1 DEF SsTimers
    <3>3. \A w \in 1 .. SsValues : ssEvent'[w] = IF w = v THEN [due |-> ssWheel + d, every |-> d]
                                                 ELSE ssEvent[w]
      BY <1>0, <2>2 DEF SsTypeOK
    <3>4. \A w \in 1 .. SsValues : /\ w > ssMade' => ssEvent'[w].every = 0
                                   /\ ssEvent'[w].every # 0 => ssEvent'[w].due > ssWheel'
      BY <1>0, <1>2, <1>3, <2>0, <3>1, <3>3 DEF SsTimers
    <3>5. \A w \in ssSeen : w \in 1 .. SsValues /\ ssEvent'[w] = ssEvent[w]
      BY <1>0, <3>2, <3>3 DEF SsTypeOK
    <3> QED
      BY <1>0, <1>2, <3>4, <3>5 DEF SsTimers
  <2> QED
    BY <1>4, <2>1, <2>2
<1> QED
  BY <1>7, <1>9, <1>10 DEF SsInv

(* Deletable() notes who keeps the value.                                  *)
LEMMA SsMarks ==
    ASSUME SsInv, NEW k \in SsKeys, Deletable(k)
    PROVE  SsInv'
<1> DEFINE e == ssTable[k]
<1>0. SsTypeOK /\ SsCaches /\ SsTimers
  BY DEF SsInv
<1>1. e \in [type : {"none", "key", "T"}, value : 0 .. ssMade, deletable : BOOLEAN]
  BY <1>0 DEF SsTypeOK
<1>2. /\ UNCHANGED <<ssCache, ssMade, ssEvent, ssClock, ssWheel, ssWake, ssSeen>>
      /\ ssKept \subseteq ssKept'
      /\ \A u \in SsThreads : e.value # 0 /\ ssCache[u][k] = e.value => <<u, e.value>> \in ssKept'
  BY DEF Deletable
<1>3. PICK y \in {"none", "key", "T"} :
        /\ ssTable' = [ssTable EXCEPT ![k] = [type |-> y, value |-> e.value, deletable |-> TRUE]]
        /\ y = "T" <=> e.type = "T"
  <2>1. PICK z : z = IF e.type = "none" THEN "key" ELSE e.type
    OBVIOUS
  <2>2. ssTable' = [ssTable EXCEPT ![k] = [e EXCEPT !.deletable = TRUE, !.type = z]]
    BY <2>1 DEF Deletable
  <2>3. PICK a, b, c : e = [type |-> a, value |-> b, deletable |-> c]
    BY <1>1
  <2>4. PICK d : d = TRUE
    OBVIOUS
  <2>5. PICK f : f = [e EXCEPT !.deletable = d]
    OBVIOUS
  <2>6. [e EXCEPT !.deletable = d, !.type = z] = [f EXCEPT !.type = z]
    BY <2>5
  <2>7. f = [type |-> a, value |-> b, deletable |-> d]
    BY <2>3, <2>5
  <2>8. [f EXCEPT !.type = z] = [type |-> z, value |-> b, deletable |-> d]
    BY <2>7
  <2>9. e.value = b
    BY <2>3
  <2>10. [e EXCEPT !.deletable = TRUE, !.type = z] = [type |-> z, value |-> e.value, deletable |-> TRUE]
    BY <2>4, <2>6, <2>8, <2>9, Zenon
  <2>11. z \in {"none", "key", "T"} /\ (z = "T" <=> e.type = "T")
    BY <1>1, <2>1
  <2> QED
    BY <2>2, <2>10, <2>11
<1>4. SsTypeOK'
  <2>1. e.value \in 0 .. ssMade
    BY <1>1
  <2>2. [type |-> y, value |-> e.value, deletable |-> TRUE]
          \in [type : {"none", "key", "T"}, value : 0 .. ssMade, deletable : BOOLEAN]
    BY <2>1
  <2> QED
    BY <1>0, <1>2, <1>3, <2>2 DEF SsTypeOK
<1>5. /\ \A j \in SsKeys : j # k => ssTable'[j] = ssTable[j]
      /\ ssTable'[k].type = y /\ ssTable'[k].value = e.value
  BY <1>0, <1>3 DEF SsTypeOK
<1>6. SsCaches'
  <2>1. \A j \in SsKeys : ssTable'[j].type = "T" <=> ssTable'[j].value # 0
    BY <1>0, <1>3, <1>5 DEF SsCaches
  <2>2. ASSUME NEW u \in SsThreads, NEW j \in SsKeys, ssCache[u][j] # 0
        PROVE  /\ ssCache[u][j] = ssTable'[j].value \/ <<u, ssCache[u][j]>> \in ssKept'
               /\ ssTable'[j].deletable /\ ssCache[u][j] = ssTable'[j].value
                    => <<u, ssCache[u][j]>> \in ssKept'
    BY <1>0, <1>2, <1>5, <2>2 DEF SsCaches
  <2> QED
    BY <1>2, <2>1, <2>2 DEF SsCaches
<1>7. SsTimers'
  BY <1>0, <1>2 DEF SsTimers
<1> QED
  BY <1>4, <1>6, <1>7 DEF SsInv

(* Delete() leaves the value to those who keep it.                         *)
LEMMA SsDeletes ==
    ASSUME SsInv, NEW k \in SsKeys, SsDelete(k)
    PROVE  SsInv'
<1>0. SsTypeOK /\ SsCaches /\ SsTimers
  BY DEF SsInv
<1>1. /\ UNCHANGED <<ssCache, ssMade, ssEvent, ssClock, ssWheel, ssWake, ssSeen, ssKept>>
      /\ ssTable' = [ssTable EXCEPT ![k] = NoEntry] /\ ssTable[k].deletable
  BY DEF SsDelete
<1>2. SsTypeOK'
  <2>1. NoEntry \in [type : {"none", "key", "T"}, value : 0 .. ssMade, deletable : BOOLEAN]
    BY <1>0 DEF NoEntry, SsTypeOK
  <2> QED
    BY <1>0, <1>1, <2>1 DEF SsTypeOK
<1>3. \A j \in SsKeys : ssTable'[j] = IF j = k THEN NoEntry ELSE ssTable[j]
  BY <1>0, <1>1 DEF SsTypeOK
<1>4. SsCaches'
  BY <1>0, <1>1, <1>3 DEF SsCaches, NoEntry
<1>5. SsTimers'
  BY <1>0, <1>1 DEF SsTimers
<1> QED
  BY <1>2, <1>4, <1>5 DEF SsInv

(* The worker sleeps until the first reloadable is due, or for ever.       *)
LEMMA SsPolls ==
    ASSUME SsInv, WorkerPoll
    PROVE  SsInv'
<1>0. SsTypeOK /\ SsCaches /\ SsTimers /\ SsClock \in Nat
  BY SsAssumption DEF SsInv
<1>1. /\ UNCHANGED <<ssTable, ssCache, ssMade, ssEvent, ssClock, ssWheel, ssKept>>
      /\ ssSeen' = Reloadables /\ ssWheel = ssClock
  BY DEF WorkerPoll
<1>2. SsForever \in Nat /\ SsForever > ssClock
  BY <1>0 DEF SsForever, SsTimers, SsTypeOK
<1>3. \A v \in Reloadables : v \in 1 .. SsValues /\ ssEvent[v].every # 0 /\ ssEvent[v].due \in Nat
                             /\ ssEvent[v].due > ssClock
  BY <1>0, <1>1 DEF Reloadables, SsTimers, SsTypeOK
<1>4. /\ ssWake' \in Nat /\ ssClock <= ssWake'
      /\ \A v \in Reloadables : ssEvent[v].due >= ssWake'
  <2>1. CASE Reloadables = {}
    BY <1>0, <1>2, <2>1 DEF WorkerPoll, SsTypeOK
  <2>2. CASE Reloadables # {}
    <3> DEFINE D == {ssEvent[v].due : v \in Reloadables} \union {SsForever}
    <3>1. D \in SUBSET Nat /\ D # {}
      BY <1>2, <1>3
    <3>2. \A d \in D : d > ssClock
      BY <1>2, <1>3
    <3>3. \A v \in Reloadables : ssEvent[v].due \in D
      OBVIOUS
    <3>4. ssWake' = Min(D)
      BY <2>2 DEF WorkerPoll
    <3> HIDE DEF D
    <3>5. \E m \in D : \A n \in D : m <= n
      BY <3>1, NatLeast
    <3>6. Min(D) \in D /\ \A n \in D : Min(D) <= n
      BY <3>5 DEF Min
    <3>7. ssWake' \in Nat /\ ssClock \in Nat
      BY <1>0, <3>1, <3>4, <3>6 DEF SsTypeOK
    <3> QED
      BY <1>3, <3>1, <3>2, <3>3, <3>4, <3>6, <3>7
  <2> QED
    BY <2>1, <2>2
<1>5. SsTypeOK'
  BY <1>0, <1>1, <1>3, <1>4 DEF SsTypeOK
<1>6. SsCaches'
  BY <1>0, <1>1 DEF SsCaches
<1>7. SsTimers'
  BY <1>0, <1>1, <1>3, <1>4 DEF SsTimers
<1> QED
  BY <1>5, <1>6, <1>7 DEF SsInv

(* advance() fires an event as often as its interval fits, so that it is   *)
(* due after the new time of the wheel.                                    *)
LEMMA SsFires ==
    ASSUME NEW c \in Nat, NEW d \in Nat, NEW n \in Nat \ {0}, d <= c
    PROVE  /\ 1 + (c - d) \div n \in Nat
           /\ d + (1 + (c - d) \div n) * n > c
           /\ d + (1 + (c - d) \div n) * n \in Nat
<1>1. PICK x \in Nat : x = c - d
  BY SMT
<1>2. /\ x \div n \in Int /\ x % n \in 0 .. n - 1
      /\ x = n * (x \div n) + (x % n)
  OBVIOUS
<1>3. PICK q \in Int, r \in 0 .. n - 1 : q = x \div n /\ x = n * q + r
  BY <1>2
<1>4. q \in Nat
  BY <1>3, SMT
<1>5. q * n = n * q /\ n * q \in Nat /\ (1 + q) * n = n + n * q
  BY <1>4, SMT
<1>6. d + (1 + q) * n > c /\ d + (1 + q) * n \in Nat
  BY <1>1, <1>3, <1>5, SMT
<1> QED
  BY <1>1, <1>3, <1>4, <1>6

(* The wheel catches up with the clock.                                    *)
LEMMA SsAdvances ==
    ASSUME SsInv, WorkerAdvance
    PROVE  SsInv'
<1>0. SsTypeOK /\ SsCaches /\ SsTimers
  BY DEF SsInv
<1>1. /\ UNCHANGED <<ssTable, ssCache, ssMade, ssClock, ssWake, ssKept, ssSeen>>
      /\ ssWheel' = ssClock /\ ssWake = ssClock
      /\ ssEvent' = [v \in 1 .. SsValues |->
                      [ssEvent[v] EXCEPT !.due = @ + Fired(v) * ssEvent[v].every]]
  BY DEF WorkerAdvance
<1>2. ASSUME NEW v \in 1 .. SsValues
      PROVE  /\ ssEvent'[v] \in [due : Nat, every : Nat] /\ ssEvent'[v].every = ssEvent[v].every
             /\ ssEvent'[v].every # 0 => ssEvent'[v].due > ssClock
             /\ ssEvent'[v].due >= ssEvent[v].due
  <2>1. PICK d \in Nat, n \in Nat : ssEvent[v] = [due |-> d, every |-> n]
    BY <1>0 DEF SsTypeOK
  <2>2. ssEvent'[v] = [due |-> d + Fired(v) * n, every |-> n]
    BY <1>1, <2>1
  <2>3. PICK c \in Nat : c = ssClock
    BY <1>0 DEF SsTypeOK
  <2>4. CASE n = 0 \/ d > c
    <3>1. Fired(v) = 0
      BY <2>1, <2>3, <2>4 DEF Fired, Reloadables
    <3>2. d + Fired(v) * n = d
      BY <3>1
    <3> QED
      BY <2>1, <2>2, <2>3, <2>4, <3>2
  <2>5. CASE n # 0 /\ d <= c
    <3>1. Fired(v) = 1 + (c - d) \div n
      BY <2>1, <2>3, <2>5 DEF Fired, Reloadables
    <3>2. d + Fired(v) * n > c /\ d + Fired(v) * n \in Nat
      BY <2>5, <3>1, SsFires
    <3> QED
      BY <2>1, <2>2, <2>3, <2>5, <3>2
  <2> QED
    BY <2>4, <2>5
<1>3. SsTypeOK'
  <2>1. ssEvent' \in [1 .. SsValues -> [due : Nat, every : Nat]]
    BY <1>1, <1>2
  <2> QED
    BY <1>0, <1>1, <2>1 DEF SsTypeOK
<1>4. SsCaches'
  BY <1>0, <1>1 DEF SsCaches
<1>5. SsTimers'
  <2>1. \A v \in 1 .. SsValues : ssEvent[v].due \in Nat /\ ssEvent'[v].due \in Nat
    BY <1>0, <1>2 DEF SsTypeOK
  <2>2. ssWake \in Nat /\ ssSeen \subseteq 1 .. SsValues
    BY <1>0 DEF SsTypeOK
  <2>3. \A v \in ssSeen' : ssEvent'[v].every # 0 /\ ssEvent'[v].due >= ssWake'
    <3> SUFFICES ASSUME NEW v \in ssSeen PROVE ssEvent'[v].every # 0 /\ ssEvent'[v].due >= ssWake
      BY <1>1
    <3>1. v \in 1 .. SsValues /\ ssEvent[v].every # 0 /\ ssEvent[v].due >= ssWake
      BY <1>0, <2>2 DEF SsTimers
    <3>2. ssEvent'[v].every = ssEvent[v].every /\ ssEvent'[v].due >= ssEvent[v].due
      BY <1>2, <3>1
    <3>3. ssEvent'[v].due \in Nat /\ ssEvent[v].due \in Nat
      BY <2>1, <3>1
    <3> QED
      BY <2>2, <3>1, <3>2, <3>3
  <2>4. \A v \in 1 .. SsValues : /\ v > ssMade' => ssEvent'[v].every = 0
                                 /\ ssEvent'[v].every # 0 => ssEvent'[v].due > ssWheel'
    BY <1>0, <1>1, <1>2 DEF SsTimers
  <2>5. ssWheel' <= ssClock' /\ ssClock' <= ssWake' /\ ssClock' <= SsClock
    BY <1>0, <1>1 DEF SsTimers, SsTypeOK
  <2> QED
    BY <2>3, <2>4, <2>5 DEF SsTimers
<1> QED
  BY <1>3, <1>4, <1>5 DEF SsInv

(* Every step of SharedStorage preserves the invariant.                    *)
LEMMA SsStepInv == SsInv /\ [SsNext]_ssVars => SsInv'
<1> SUFFICES ASSUME SsInv, [SsNext]_ssVars PROVE SsInv'
  OBVIOUS
<1>1. CASE SsTime
  <2>1. UNCHANGED <<ssTable, ssCache, ssMade, ssEvent, ssWheel, ssWake, ssKept, ssSeen>>
        /\ ssClock' = ssClock + 1 /\ ssClock < ssWake /\ ssClock < SsClock
    BY <1>1 DEF SsTime
  <2>2. SsTypeOK'
    BY <2>1 DEF SsInv, SsTypeOK
  <2>3. SsCaches'
    BY <2>1 DEF SsInv, SsCaches
  <2>4. SsTimers'
    BY <2>1, SsAssumption DEF SsInv, SsTimers, SsTypeOK
  <2> QED
    BY <2>2, <2>3, <2>4 DEF SsInv
<1>2. CASE UNCHANGED ssVars
  BY <1>2 DEF ssVars, SsInv, SsTypeOK, SsCaches, SsTimers
<1> QED
  BY <1>1, <1>2, SsCreates, SsMarks, SsDeletes, SsPolls, SsAdvances DEF SsNext

(* What the invariant says of the storage.                                 *)
LEMMA SsSafe == SsInv => ThreadsAgree /\ ReloadedInTime
<1> SUFFICES ASSUME SsInv PROVE ThreadsAgree /\ ReloadedInTime
  OBVIOUS
<1>1. ThreadsAgree
  BY DEF SsInv, SsCaches, ThreadsAgree, GetOrNull, SsHas, Mismatch
<1>2. ReloadedInTime
  <2> SUFFICES ASSUME NEW v \in ssSeen PROVE ssEvent[v].due >= ssClock
    BY DEF ReloadedInTime
  <2>1. ssEvent[v].due \in Nat /\ ssWake \in Nat /\ ssClock \in Nat
    BY DEF SsInv, SsTypeOK
  <2>2. ssEvent[v].due >= ssWake /\ ssClock <= ssWake
    BY DEF SsInv, SsTimers
  <2> QED
    BY <2>1, <2>2
<1> QED
  BY <1>1, <1>2

-----------------------------------------------------------------------------
(* AtomicHashmap, as long as no two calls have met at a bucket.            *)
AhRecord ==
    [at : {"idle", "avail", "load", "cas", "walk", "look", "read", "hold"},
     op : {"none", "set", "get", "delete", "cleanup"}, key : Nat, level : Nat, b : Nat,
     word : {"key", "value"}, new : Nat, old : Nat]

AhTypeOK ==
    /\ ahKey \in [AhBuckets -> 0 .. Len(ahSetOf)] /\ ahVal \in [AhBuckets -> 0 .. Len(ahSetOf)]
    /\ ahKeyRef \in [1 .. AhSets -> Int] /\ ahValRef \in [1 .. AhSets -> Int]
    /\ ahThread \in [AhThreads -> AhRecord]
    /\ ahSetOf \in Seq(AhKeys) /\ Len(ahSetOf) <= AhSets
    /\ ahMap \in [AhKeys -> Nat] /\ ahSerial \in BOOLEAN

(* The steps of a call come in order, and its arguments fit.               *)
AhArgs(r) ==
    /\ r.at \in {"idle", "hold"} => r.op = "none"
    /\ r.at \in {"look", "read"} => r.op = "get"
    /\ r.at = "avail" => r.op = "set" /\ r.word = "key"
    /\ r.at = "walk" => r.op \in {"delete", "cleanup"} /\ r.word = "key"
    /\ r.at \in {"load", "cas"} => r.op \in {"set", "delete", "cleanup"}
    /\ r.op \in {"set", "get"} => /\ r.key \in AhKeys /\ r.level \in DOMAIN AhLevels
                                  /\ r.b = AhBucket(r.level, r.key)
    /\ r.op = "set" => r.new \in 1 .. Len(ahSetOf) /\ ahSetOf[r.new] = r.key
    /\ r.op \in {"delete", "cleanup"} => r.new = 0 /\ r.b \in AhBuckets
    /\ r.op = "delete" => r.key \in AhKeys
    /\ r.at = "hold" => r.old \in 1 .. Len(ahSetOf) /\ ahSetOf[r.old] = r.key

(* What a call has seen of its bucket is still so when it is between two   *)
(* accesses to it.                                                         *)
AhSees(r) ==
    /\ r.at = "cas" => r.old = IF r.word = "key" THEN ahKey[r.b] ELSE ahVal[r.b]
    /\ r.at = "read" => Holds(r.b, r.key)
    /\ r.at \in {"load", "cas"} =>
         /\ r.op = "set" /\ r.word = "key" => Available(r.b, r.key)
         /\ r.op = "set" /\ r.word = "value" => ahKey[r.b] = r.new
         /\ r.op = "delete" /\ r.word = "key" => Holds(r.b, r.key)
         /\ r.op # "set" /\ r.word = "value" => ahKey[r.b] = 0

AhThreadsOK == \A u \in AhThreads : AhArgs(ahThread[u]) /\ AhSees(ahThread[u])

(* What Set() has not stored yet is nowhere else.                          *)
AhFresh ==
    \A u \in AhThreads : ahThread[u].op = "set" =>
      /\ \A c \in AhBuckets : /\ ahVal[c] # ahThread[u].new
                              /\ ahThread[u].word = "key" => ahKey[c] # ahThread[u].new
      /\ \A w \in AhThreads : /\ ahThread[w].at = "hold" => ahThread[w].old # ahThread[u].new
                              /\ ahThread[w].op = "set" /\ w # u =>
                                   ahThread[w].new # ahThread[u].new

(* Clears(u, c): call u has cleared the key of bucket c, and the value is  *)
(* next.                                                                   *)
Clears(r, c) == /\ r.at \in {"load", "cas"} /\ r.op \in {"delete", "cleanup"}
                /\ r.word = "value" /\ r.b = c

AhBucketsOK ==
    \A c \in AhBuckets :
      /\ ahKey[c] = 0 /\ ahVal[c] # 0 => \E u \in AhThreads : Clears(ahThread[u], c)
      /\ ahKey[c] # 0 /\ ahVal[c] # 0 => ahSetOf[ahKey[c]] = ahSetOf[ahVal[c]]
      /\ \A d \in AhBuckets : ahKey[c] # 0 /\ ahKey[d] = ahKey[c] => c = d

(* Clones(u, n): Occupy() of call u has cloned the key, and holds it.      *)
Clones(r, n) == r.at \in {"load", "cas"} /\ r.op = "set" /\ r.word = "key" /\ r.new = n

AhKeyRefs ==
    \A n \in 1 .. AhSets :
      ahKeyRef[n] = IF \/ \E c \in AhBuckets : ahKey[c] = n
                       \/ \E u \in AhThreads : Clones(ahThread[u], n) THEN 1 ELSE 0

AhValIn(n) == {c \in AhBuckets : ahVal[c] = n}
Keeps(r, n) == \/ r.at = "hold" /\ r.old = n
               \/ r.op = "set" /\ r.word = "value" /\ r.new = n
AhKeepers(n) == {u \in AhThreads : Keeps(ahThread[u], n)}

AhValRefs ==
    \A n \in 1 .. AhSets : ahValRef[n] = Cardinality(AhValIn(n)) + Cardinality(AhKeepers(n))

(* How far the only writer has come.                                       *)
AhPath(r) ==
    /\ r.op \in {"set", "delete"} => \A k \in AhKeys : k # r.key => Found(k) = ahMap[k]
    /\ r.op = "set" => /\ r.word = "key" => Found(r.key) = ahMap[r.key]
                       /\ \A m \in 1 .. r.level - 1 : ~Available(AhBucket(m, r.key), r.key)
    /\ r.op = "delete" => \A c \in AhBuckets : c < r.b => ~Holds(c, r.key)
    /\ r.op = "cleanup" => \A c \in AhBuckets : c < r.b => ahKey[c] = 0

AhSerialOK ==
    ahSerial =>
      /\ \A u, w \in AhThreads : AhWrites(u) /\ AhWrites(w) => u = w
      /\ (\A u \in AhThreads : ~AhWrites(u)) => \A k \in AhKeys : Found(k) = ahMap[k]
      /\ \A u \in AhThreads : AhPath(ahThread[u])

AhGood == /\ AhTypeOK /\ AhThreadsOK /\ AhFresh /\ AhBucketsOK /\ AhKeyRefs /\ AhValRefs
          /\ AhSerialOK

AhInv == ahRaced \/ AhGood

(* The levels follow each other: AhBase[l] is the sum of those before.     *)
LEMMA AhBases ==
    \A l \in 1 .. Len(AhLevels) :
       /\ AhBase[l] = IF l = 1 THEN 0 ELSE AhBase[l - 1] + AhLevels[l - 1]
       /\ AhBase[l] \in Nat
<1> DEFINE N == Len(AhLevels)
           Sums(k, f) == \A l \in 1 .. k : f[l] = IF l = 1 THEN 0 ELSE f[l - 1] + AhLevels[l - 1]
           S == {k \in Nat : \E f : f \in [1 .. k -> Nat] /\ Sums(k, f)}
<1>0. /\ N \in Nat /\ DOMAIN AhLevels = 1 .. N /\ \A l \in 1 .. N : AhLevels[l] \in Nat
  BY AhAssumption
<1> HIDE DEF N
<1>1. 0 \in S
  <2>1. PICK f : f = [l \in 1 .. 0 |-> 1]
    OBVIOUS
  <2>2. f \in [1 .. 0 -> Nat] /\ Sums(0, f)
    BY <2>1
  <2> QED
    BY <2>2
<1>2. ASSUME NEW k \in 0 .. N - 1, k \in S
      PROVE  k + 1 \in S
  <2>1. PICK f : f \in [1 .. k -> Nat] /\ Sums(k, f)
    BY <1>2
  <2>2. PICK v \in Nat : v = IF k = 0 THEN 0 ELSE f[k] + AhLevels[k]
    <3>1. k # 0 => f[k] \in Nat /\ AhLevels[k] \in Nat
      BY <1>0, <2>1
    <3>2. (IF k = 0 THEN 0 ELSE f[k] + AhLevels[k]) \in Nat
      BY <3>1
    <3> QED
      BY <3>2
  <2>3. PICK g : g = [l \in 1 .. k + 1 |-> IF l = k + 1 THEN v ELSE f[l]]
    OBVIOUS
  <2>4. g \in [1 .. k + 1 -> Nat]
    BY <1>0, <2>1, <2>2, <2>3
  <2>5. Sums(k + 1, g)
    <3> SUFFICES ASSUME NEW l \in 1 .. k + 1
                 PROVE  g[l] = IF l = 1 THEN 0 ELSE g[l - 1] + AhLevels[l - 1]
      OBVIOUS
    <3>0. k \in Nat
      BY <1>0
    <3>1. CASE l = k + 1
      <4>1. g[l] = v
        BY <2>3, <3>1
      <4>2. k # 0 => g[k] = f[k]
        BY <2>3, <3>0
      <4> QED
        BY <2>2, <3>0, <3>1, <4>1, <4>2
    <3>2. CASE l # k + 1
      <4>1. l \in 1 .. k /\ g[l] = f[l]
        BY <2>3, <3>0, <3>2
      <4>2. l # 1 => l - 1 \in 1 .. k /\ g[l - 1] = f[l - 1]
        BY <2>3, <3>0, <4>1
      <4> QED
        BY <2>1, <4>1, <4>2
    <3> QED
      BY <3>1, <3>2
  <2>6. k + 1 \in Nat
    BY <1>0
  <2> HIDE DEF Sums
  <2> QED
    BY <2>4, <2>5, <2>6
<1>3. N \in S
  <2> HIDE DEF S
  <2>1. \A k \in 0 .. N : k \in S
    BY <1>0, <1>1, <1>2, UpTo
  <2> QED
    BY <1>0, <2>1
<1>4. PICK f : f \in [1 .. N -> Nat] /\ Sums(N, f)
  BY <1>3
<1>5. \E g : g = [l \in 1 .. N |-> IF l = 1 THEN 0 ELSE g[l - 1] + AhLevels[l - 1]]
  <2>1. f = [l \in 1 .. N |-> IF l = 1 THEN 0 ELSE f[l - 1] + AhLevels[l - 1]]
    BY <1>4
  <2> QED
    BY <2>1
<1>6. AhBase = [l \in 1 .. N |-> IF l = 1 THEN 0 ELSE AhBase[l - 1] + AhLevels[l - 1]]
  BY <1>0, <1>5 DEF AhBase
<1>7. \A l \in 0 .. N : l = 0 \/ AhBase[l] \in Nat
  <2> DEFINE T == {l \in 0 .. N : l = 0 \/ AhBase[l] \in Nat}
  <2>1. 0 \in T
    BY <1>0
  <2>2. ASSUME NEW k \in 0 .. N - 1, k \in T
        PROVE  k + 1 \in T
    <3>1. k + 1 \in 1 .. N
      BY <1>0
    <3>2. AhBase[k + 1] = IF k = 0 THEN 0 ELSE AhBase[k] + AhLevels[k]
      BY <1>0, <1>6, <3>1
    <3>3. k # 0 => AhLevels[k] \in Nat /\ AhBase[k] \in Nat
      BY <1>0, <2>2
    <3> QED
      BY <3>1, <3>2, <3>3
  <2> HIDE DEF T
  <2>3. \A k \in 0 .. N : k \in T
    BY <1>0, <2>1, <2>2, UpTo
  <2> QED
    BY <2>3 DEF T
<1>8. \A l \in 1 .. N : AhBase[l] = IF l = 1 THEN 0 ELSE AhBase[l - 1] + AhLevels[l - 1]
  BY <1>6
<1>9. \A l \in 1 .. N : AhBase[l] \in Nat
  BY <1>0, <1>7
<1> QED
  BY <1>8, <1>9 DEF N

(* A level ends where the last one ends, or before.                        *)
LEMMA AhLevelEnds ==
    \A l \in 1 .. Len(AhLevels) : AhBase[l] + AhLevels[l]
                                    <= AhBase[Len(AhLevels)] + AhLevels[Len(AhLevels)]
<1> DEFINE N == Len(AhLevels)
           End(l) == AhBase[l] + AhLevels[l]
<1>0. N \in Nat \ {0} /\ \A l \in 1 .. N : AhLevels[l] \in Nat /\ AhBase[l] \in Nat
  BY AhAssumption, AhBases
<1>1. \A l \in 1 .. N : End(l) \in Nat
  BY <1>0
<1>2. \A l \in 1 .. N : l # N => End(l) <= End(l + 1)
  <2> TAKE l \in 1 .. N
  <2> HAVE l # N
  <2>1. l + 1 \in 1 .. N /\ l + 1 # 1 /\ (l + 1) - 1 = l
    BY <1>0
  <2>2. AhBase[l + 1] = AhBase[l] + AhLevels[l]
    BY <2>1, AhBases
  <2> QED
    BY <1>0, <2>1, <2>2
<1> HIDE DEF End
<1> DEFINE T == {k \in 0 .. N - 1 : End(N - k) <= End(N)}
<1>n. N - 1 \in Nat /\ N \in 1 .. N
  BY <1>0
<1>3. 0 \in T
  BY <1>0, <1>1, <1>n, SMTT(60)
<1>4. ASSUME NEW k \in 0 .. (N - 1) - 1, k \in T
      PROVE  k + 1 \in T
  <2>1. N - (k + 1) \in 1 .. N /\ N - (k + 1) # N /\ (N - (k + 1)) + 1 = N - k
        /\ N - k \in 1 .. N /\ k + 1 \in 0 .. N - 1
    BY <1>0, SMTT(60)
  <2>2. End(N - (k + 1)) <= End(N - k)
    BY <1>2, <2>1, ZenonT(60)
  <2>3. End(N - (k + 1)) \in Nat /\ End(N - k) \in Nat /\ End(N) \in Nat
    BY <1>1, <1>n, <2>1
  <2>4. End(N - k) <= End(N)
    BY <1>4
  <2>5. End(N - (k + 1)) <= End(N)
    BY <2>2, <2>3, <2>4
  <2> QED
    BY <2>1, <2>5, ZenonT(60)
<1>5. \A k \in 0 .. N - 1 : k \in T
  <2> HIDE DEF T, N
  <2> QED
    BY <1>n, <1>3, <1>4, UpTo
<1>6. \A l \in 1 .. N : End(l) <= End(N)
  <2> TAKE l \in 1 .. N
  <2>1. N - l \in 0 .. N - 1 /\ N - (N - l) = l
    BY <1>0
  <2> QED
    BY <1>5, <2>1
<1> QED
  BY <1>6 DEF End

(* The candidate of a key in a level is a bucket.                          *)
LEMMA AhInTable ==
    ASSUME NEW l \in DOMAIN AhLevels, NEW k \in Nat
    PROVE  AhBucket(l, k) \in AhBuckets
<1>1. /\ DOMAIN AhLevels = 1 .. Len(AhLevels) /\ Len(AhLevels) \in Nat \ {0}
      /\ AhLevels[l] \in Nat \ {0} /\ AhLevels[Len(AhLevels)] \in Nat
  BY AhAssumption
<1>2. AhBase[l] \in Nat /\ AhBase[Len(AhLevels)] \in Nat
      /\ AhBase[l] + AhLevels[l] <= AhBase[Len(AhLevels)] + AhLevels[Len(AhLevels)]
  BY <1>1, AhBases, AhLevelEnds
<1>3. PICK c \in Nat \ {0} : c = AhLevels[l]
  BY <1>1
<1>4. k % c \in 0 .. c - 1
  BY <1>3
<1>5. PICK r \in 0 .. c - 1 : r = k % c
  BY <1>4
<1>6. PICK x \in Nat, y \in Nat : x = AhBase[l] /\ y = AhBase[Len(AhLevels)] + AhLevels[Len(AhLevels)]
  BY <1>1, <1>2
<1>7. AhBucket(l, k) = x + r + 1 /\ AhBuckets = 1 .. y
  BY <1>3, <1>5, <1>6 DEF AhBucket, AhBuckets
<1>8. x + c <= y
  BY <1>2, <1>3, <1>6
<1>9. x + r + 1 \in 1 .. y
  BY <1>8
<1> QED
  BY <1>7, <1>9

(* The buckets are numbered from 1.                                        *)
LEMMA AhRange ==
    \E N \in Nat : AhBuckets = 1 .. N
<1>1. Len(AhLevels) \in 1 .. Len(AhLevels) /\ AhLevels[Len(AhLevels)] \in Nat
  BY AhAssumption
<1>2. AhBase[Len(AhLevels)] \in Nat
  BY <1>1, AhBases
<1> QED
  BY <1>1, <1>2 DEF AhBuckets

(* Get() finds what it found before if the buckets of the key have it as   *)
(* before.                                                                 *)
LEMMA AhFoundKeep ==
    ASSUME NEW k,
           \A l \in DOMAIN AhLevels : /\ Holds(AhBucket(l, k), k)' <=> Holds(AhBucket(l, k), k)
                                      /\ Holds(AhBucket(l, k), k) =>
                                           ahVal'[AhBucket(l, k)] = ahVal[AhBucket(l, k)]
    PROVE  Found(k)' = Found(k)
<1> DEFINE ls == {l \in DOMAIN AhLevels : Holds(AhBucket(l, k), k)}
           first == CHOOSE l \in ls : \A m \in ls : l \leq m
<1>1. {l \in DOMAIN AhLevels : Holds(AhBucket(l, k), k)'} = ls
  OBVIOUS
<1>2. Found(k) = IF ls = {} THEN 0 ELSE ahVal[AhBucket(first, k)]
  BY DEF Found
<1>3. Found(k)' = IF ls = {} THEN 0 ELSE ahVal'[AhBucket(first, k)]
  <2> DEFINE s == {l \in DOMAIN AhLevels : Holds(AhBucket(l, k), k)'}
  <2>1. Found(k)' = IF s = {} THEN 0
                    ELSE ahVal'[AhBucket(CHOOSE l \in s : \A m \in s : l \leq m, k)]
    BY DEF Found
  <2>2. s = ls
    BY <1>1
  <2> HIDE DEF s, ls
  <2> QED
    BY <2>1, <2>2, Zenon
<1>4. ls # {} => first \in ls
  <2> SUFFICES ASSUME ls # {} PROVE first \in ls
    OBVIOUS
  <2>1. ls \in SUBSET Nat
    BY AhAssumption
  <2> HIDE DEF ls
  <2>2. \E l \in ls : \A m \in ls : l <= m
    BY <2>1, NatLeast
  <2> QED
    BY <2>2
<1>5. ls # {} => ahVal'[AhBucket(first, k)] = ahVal[AhBucket(first, k)]
  <2> HIDE DEF first
  <2> QED
    BY <1>4
<1> HIDE DEF ls, first
<1> QED
  BY <1>2, <1>3, <1>5

(* Get() finds nothing if no bucket has the key, ...                       *)
LEMMA AhFoundNone ==
    ASSUME NEW k, \A l \in DOMAIN AhLevels : ~Holds(AhBucket(l, k), k)'
    PROVE  Found(k)' = 0
BY DEF Found

(* ... and otherwise the value in the first level that has it.             *)
LEMMA AhFoundFirst ==
    ASSUME NEW k, NEW l \in DOMAIN AhLevels, Holds(AhBucket(l, k), k)',
           \A m \in 1 .. l - 1 : ~Holds(AhBucket(m, k), k)'
    PROVE  Found(k)' = ahVal'[AhBucket(l, k)]
<1> DEFINE ls == {m \in DOMAIN AhLevels : Holds(AhBucket(m, k), k)'}
           first == CHOOSE x \in ls : \A m \in ls : x \leq m
<1>1. ls \in SUBSET Nat /\ l \in ls
  BY AhAssumption
<1>2. Found(k)' = ahVal'[AhBucket(first, k)]
  BY <1>1 DEF Found
<1>3. \A m \in ls : m \in 1 .. Len(AhLevels) /\ ~(m < l)
  BY AhAssumption
<1> HIDE DEF ls
<1>4. \A m \in ls : l <= m
  BY <1>1, <1>3
<1>5. first \in ls /\ \A m \in ls : first <= m
  BY <1>1, <1>4
<1>6. first = l
  <2>1. PICK f : f = first
    OBVIOUS
  <2>2. f \in Nat /\ l \in Nat /\ l <= f /\ f <= l
    <3> HIDE DEF first
    <3> QED
      BY <1>1, <1>4, <1>5, <2>1
  <2> QED
    BY <2>1, <2>2
<1> HIDE DEF first
<1> QED
  BY <1>2, <1>6

(* AhGrows: the history of the calls is only extended.                     *)
AhGrows ==
    /\ Len(ahSetOf) \in Nat /\ Len(ahSetOf') \in Nat /\ Len(ahSetOf) <= Len(ahSetOf')
    /\ \A n \in 1 .. Len(ahSetOf) : ahSetOf'[n] = ahSetOf[n]

(* The arguments of a call fit for ever.                                   *)
LEMMA AhArgsKeep ==
    ASSUME AhGrows, NEW r, AhArgs(r)
    PROVE  AhArgs(r)'
<1>1. \A n \in 1 .. Len(ahSetOf) : n \in 1 .. Len(ahSetOf') /\ ahSetOf'[n] = ahSetOf[n]
  BY DEF AhGrows
<1>2. r.op = "set" => r.new \in 1 .. Len(ahSetOf') /\ ahSetOf'[r.new] = r.key
  BY <1>1 DEF AhArgs
<1>3. r.at = "hold" => r.old \in 1 .. Len(ahSetOf') /\ ahSetOf'[r.old] = r.key
  BY <1>1 DEF AhArgs
<1> QED
  BY <1>2, <1>3, Zenon DEF AhArgs

(* A call between two accesses to its bucket is right about it as long as  *)
(* nobody writes the bucket.                                               *)
LEMMA AhSeesKeep ==
    ASSUME AhGrows, NEW r, AhSees(r),
           r.at \in {"load", "cas", "read"} =>
             ahKey'[r.b] = ahKey[r.b] /\ ahVal'[r.b] = ahVal[r.b] /\ ahKey[r.b] \in 0 .. Len(ahSetOf)
    PROVE  AhSees(r)'
<1>1. CASE r.at \notin {"load", "cas", "read"}
  BY <1>1 DEF AhSees
<1>2. CASE r.at \in {"load", "cas", "read"}
  <2>1. ahKey'[r.b] = ahKey[r.b] /\ ahVal'[r.b] = ahVal[r.b] /\ ahKey[r.b] \in 0 .. Len(ahSetOf)
    BY <1>2
  <2>2. ahKey[r.b] # 0 => ahSetOf'[ahKey[r.b]] = ahSetOf[ahKey[r.b]]
    BY <2>1 DEF AhGrows
  <2>3. Holds(r.b, r.key)' <=> Holds(r.b, r.key)
    BY <2>1, <2>2 DEF Holds
  <2>4. Available(r.b, r.key)' <=> Available(r.b, r.key)
    BY <2>1, <2>3 DEF Available
  <2> QED
    BY <2>1, <2>3, <2>4 DEF AhSees
<1> QED
  BY <1>1, <1>2

(* Thread t goes on with r.                                                *)
AhTo(t, r) == ahThread' = [ahThread EXCEPT ![t] = r] /\ r \in AhRecord

(* Only t changes.                                                         *)
LEMMA AhOthers ==
    ASSUME AhTypeOK, NEW t \in AhThreads, NEW r, AhTo(t, r)
    PROVE  /\ ahThread' \in [AhThreads -> AhRecord] /\ ahThread'[t] = r
           /\ \A u \in AhThreads : u # t => ahThread'[u] = ahThread[u]
BY DEF AhTypeOK, AhTo

(* The steps that write no bucket.                                         *)
AhQuiet(t, r) ==
    /\ UNCHANGED <<ahKey, ahVal, ahSetOf>> /\ AhTo(t, r)
    /\ AhArgs(r) /\ AhSees(r) /\ ahThread[t].at # "cas"
    /\ r.op = "set" =>
         ahThread[t].op = "set" /\ r.new = ahThread[t].new /\ r.word = ahThread[t].word
    /\ r.at = "hold" => \E c \in AhBuckets : r.old = ahVal[c]
    /\ \A c \in AhBuckets : Clears(ahThread[t], c) => Clears(r, c)

(* They leave everything in its place.                                     *)
LEMMA AhQuietKeeps ==
    ASSUME AhGood, NEW t \in AhThreads, NEW r, AhQuiet(t, r)
    PROVE  AhThreadsOK' /\ AhFresh' /\ AhBucketsOK'
<1>1. /\ ahKey' = ahKey /\ ahVal' = ahVal /\ ahSetOf' = ahSetOf
      /\ AhArgs(r) /\ AhSees(r)
      /\ r.op = "set" =>
           ahThread[t].op = "set" /\ r.new = ahThread[t].new /\ r.word = ahThread[t].word
      /\ r.at = "hold" => \E c \in AhBuckets : r.old = ahVal[c]
      /\ \A c \in AhBuckets : Clears(ahThread[t], c) => Clears(r, c)
  BY Zenon DEF AhQuiet
<1>2. ahThread'[t] = r /\ \A u \in AhThreads : u # t => ahThread'[u] = ahThread[u]
  BY AhOthers DEF AhQuiet, AhGood
<1>3. AhGrows
  BY <1>1 DEF AhGrows, AhGood, AhTypeOK
<1>4. \A q : (AhArgs(q)' <=> AhArgs(q)) /\ (AhSees(q)' <=> AhSees(q))
  BY <1>1 DEF AhArgs, AhSees, Available, Holds
<1>5. AhThreadsOK'
  BY <1>1, <1>2, <1>4 DEF AhGood, AhThreadsOK
<1>6. AhFresh'
  <2> SUFFICES ASSUME NEW u \in AhThreads, ahThread'[u].op = "set"
               PROVE  /\ \A c \in AhBuckets : /\ ahVal[c] # ahThread'[u].new
                                              /\ ahThread'[u].word = "key" => ahKey[c] # ahThread'[u].new
                      /\ \A w \in AhThreads :
                           /\ ahThread'[w].at = "hold" => ahThread'[w].old # ahThread'[u].new
                           /\ ahThread'[w].op = "set" /\ w # u => ahThread'[w].new # ahThread'[u].new
    BY <1>1 DEF AhFresh
  <2>1. /\ ahThread[u].op = "set" /\ ahThread'[u].new = ahThread[u].new
        /\ ahThread'[u].word = ahThread[u].word
    BY <1>1, <1>2
  <2>2. /\ \A c \in AhBuckets : /\ ahVal[c] # ahThread[u].new
                                /\ ahThread[u].word = "key" => ahKey[c] # ahThread[u].new
        /\ \A w \in AhThreads :
             /\ ahThread[w].at = "hold" => ahThread[w].old # ahThread[u].new
             /\ ahThread[w].op = "set" /\ w # u => ahThread[w].new # ahThread[u].new
    BY <2>1 DEF AhGood, AhFresh
  <2>3. ASSUME NEW w \in AhThreads
        PROVE  /\ ahThread'[w].at = "hold" => ahThread'[w].old # ahThread'[u].new
               /\ ahThread'[w].op = "set" /\ w # u => ahThread'[w].new # ahThread'[u].new
    <3>1. CASE w # t
      BY <1>2, <2>1, <2>2, <3>1
    <3>2. CASE w = t
      BY <1>1, <1>2, <2>1, <2>2, <3>2
    <3> QED
      BY <3>1, <3>2
  <2> QED
    BY <2>1, <2>2, <2>3
<1>7. AhBucketsOK'
  <2>1. ASSUME NEW c \in AhBuckets, ahKey[c] = 0, ahVal[c] # 0
        PROVE  \E u \in AhThreads : Clears(ahThread'[u], c)
    <3>1. PICK u \in AhThreads : Clears(ahThread[u], c)
      BY <2>1 DEF AhGood, AhBucketsOK
    <3>2. Clears(ahThread'[u], c)
      BY <1>1, <1>2, <3>1
    <3> QED
      BY <3>2
  <2>2. \A c \in AhBuckets :
          /\ ahKey[c] # 0 /\ ahVal[c] # 0 => ahSetOf[ahKey[c]] = ahSetOf[ahVal[c]]
          /\ \A d \in AhBuckets : ahKey[c] # 0 /\ ahKey[d] = ahKey[c] => c = d
    BY DEF AhGood, AhBucketsOK
  <2>3. \A u \in AhThreads, c \in AhBuckets : Clears(ahThread[u], c)' <=> Clears(ahThread'[u], c)
    BY DEF Clears
  <2> QED
    BY <1>1, <2>1, <2>2, <2>3, Zenon DEF AhBucketsOK
<1> QED
  BY <1>5, <1>6, <1>7

(* The reference counts of the keys when no holder changes ...             *)
LEMMA AhKeyRefsKeep ==
    ASSUME AhGood, NEW t \in AhThreads, NEW r, AhTo(t, r), ahKey' = ahKey, ahKeyRef' = ahKeyRef,
           \A n \in 1 .. AhSets : Clones(ahThread[t], n) <=> Clones(r, n)
    PROVE  AhKeyRefs'
<1>1. ahThread'[t] = r /\ \A u \in AhThreads : u # t => ahThread'[u] = ahThread[u]
  BY AhOthers DEF AhGood
<1>2. \A u \in AhThreads, n \in 1 .. AhSets : Clones(ahThread'[u], n) <=> Clones(ahThread[u], n)
  BY <1>1
<1> SUFFICES ASSUME NEW n \in 1 .. AhSets
             PROVE  ahKeyRef[n] = IF \/ \E c \in AhBuckets : ahKey[c] = n
                                     \/ \E u \in AhThreads : Clones(ahThread'[u], n) THEN 1 ELSE 0
  <2>1. \A u \in AhThreads, n \in 1 .. AhSets : Clones(ahThread[u], n)' <=> Clones(ahThread'[u], n)
    BY DEF Clones
  <2> QED
    BY <2>1 DEF AhKeyRefs
<1>3. ahKeyRef[n] = IF \/ \E c \in AhBuckets : ahKey[c] = n
                       \/ \E u \in AhThreads : Clones(ahThread[u], n) THEN 1 ELSE 0
  BY DEF AhGood, AhKeyRefs
<1>4. (\E u \in AhThreads : Clones(ahThread[u], n)) <=> (\E u \in AhThreads : Clones(ahThread'[u], n))
  BY <1>2
<1> QED
  BY <1>3, <1>4

(* ... and of the values.                                                  *)
LEMMA AhValRefsKeep ==
    ASSUME AhGood, NEW t \in AhThreads, NEW r, AhTo(t, r), ahVal' = ahVal, ahValRef' = ahValRef,
           \A n \in 1 .. AhSets : Keeps(ahThread[t], n) <=> Keeps(r, n)
    PROVE  AhValRefs'
<1>1. ahThread'[t] = r /\ \A u \in AhThreads : u # t => ahThread'[u] = ahThread[u]
  BY AhOthers DEF AhGood
<1>2. \A u \in AhThreads, n \in 1 .. AhSets : Keeps(ahThread'[u], n) <=> Keeps(ahThread[u], n)
  BY <1>1
<1>3. \A n \in 1 .. AhSets : AhValIn(n)' = AhValIn(n)
  BY DEF AhValIn
<1>4. \A n \in 1 .. AhSets : AhKeepers(n)' = AhKeepers(n)
  <2> TAKE n \in 1 .. AhSets
  <2>1. \A u \in AhThreads : Keeps(ahThread[u], n)' <=> Keeps(ahThread'[u], n)
    BY DEF Keeps
  <2> QED
    BY <1>2, <2>1 DEF AhKeepers
<1> QED
  BY <1>3, <1>4 DEF AhGood, AhValRefs

(* A call that does not write has no path.                                 *)
LEMMA AhNoPath ==
    ASSUME NEW r, r.op \notin {"set", "delete", "cleanup"}
    PROVE  AhPath(r)'
BY DEF AhPath

(* What Get() finds while no bucket is written.                            *)
LEMMA AhStill ==
    ASSUME UNCHANGED <<ahKey, ahVal, ahSetOf>>
    PROVE  /\ \A c, k : (Holds(c, k)' <=> Holds(c, k)) /\ (Available(c, k)' <=> Available(c, k))
           /\ \A k : Found(k)' = Found(k)
<1>1. \A c, k : (Holds(c, k)' <=> Holds(c, k)) /\ (Available(c, k)' <=> Available(c, k))
  BY DEF Holds, Available
<1>2. ASSUME NEW k PROVE Found(k)' = Found(k)
  <2>1. \A l \in DOMAIN AhLevels : /\ Holds(AhBucket(l, k), k)' <=> Holds(AhBucket(l, k), k)
                                   /\ ahVal'[AhBucket(l, k)] = ahVal[AhBucket(l, k)]
    BY DEF Holds
  <2> QED
    BY <2>1, AhFoundKeep
<1> QED
  BY <1>1, <1>2

(* A reader leaves the order of the writers alone.                         *)
LEMMA AhReads ==
    ASSUME AhGood, NEW t \in AhThreads, NEW r, AhTo(t, r),
           UNCHANGED <<ahKey, ahVal, ahSetOf, ahMap, ahSerial>>,
           ahThread[t].op \notin {"set", "delete", "cleanup"},
           r.op \notin {"set", "delete", "cleanup"}
    PROVE  AhSerialOK'
<1>1. ahThread'[t] = r /\ \A u \in AhThreads : u # t => ahThread'[u] = ahThread[u]
  BY AhOthers DEF AhGood
<1>2. /\ \A c, k : (Holds(c, k)' <=> Holds(c, k)) /\ (Available(c, k)' <=> Available(c, k))
      /\ \A k : Found(k)' = Found(k)
  BY AhStill
<1>3. \A u \in AhThreads : AhWrites(u)' <=> AhWrites(u)
  BY <1>1 DEF AhWrites
<1> SUFFICES ASSUME ahSerial
             PROVE  /\ \A u, w \in AhThreads : AhWrites(u)' /\ AhWrites(w)' => u = w
                    /\ (\A u \in AhThreads : ~AhWrites(u)') => \A k \in AhKeys : Found(k)' = ahMap'[k]
                    /\ \A u \in AhThreads : AhPath(ahThread[u])'
  BY DEF AhSerialOK
<1>4. /\ \A u, w \in AhThreads : AhWrites(u) /\ AhWrites(w) => u = w
      /\ (\A u \in AhThreads : ~AhWrites(u)) => \A k \in AhKeys : Found(k) = ahMap[k]
      /\ \A u \in AhThreads : AhPath(ahThread[u])
  BY DEF AhGood, AhSerialOK
<1>5. ASSUME NEW u \in AhThreads PROVE AhPath(ahThread[u])'
  <2>1. CASE u = t
    <3>1. ahThread'[u].op \notin {"set", "delete", "cleanup"}
      BY <1>1, <2>1
    <3> QED
      BY <3>1 DEF AhPath
  <2>2. CASE u # t
    <3>1. ahThread'[u] = ahThread[u] /\ AhPath(ahThread[u])
      BY <1>1, <1>4, <2>2
    <3> QED
      BY <1>2, <3>1 DEF AhPath
  <2> QED
    BY <2>1, <2>2
<1> QED
  BY <1>2, <1>3, <1>4, <1>5

(* A step of the only writer.                                              *)
LEMMA AhWriteStep ==
    ASSUME AhGood, NEW t \in AhThreads, NEW r, AhTo(t, r), AhWrites(t), ahSerial' = ahSerial,
           ahSerial => AhPath(r)',
           ahSerial => r.op \in {"set", "delete", "cleanup"} \/ \A k \in AhKeys : Found(k)' = ahMap'[k]
    PROVE  AhSerialOK'
<1>1. ahThread'[t] = r /\ \A u \in AhThreads : u # t => ahThread'[u] = ahThread[u]
  BY AhOthers DEF AhGood
<1> SUFFICES ASSUME ahSerial
             PROVE  /\ \A u, w \in AhThreads : AhWrites(u)' /\ AhWrites(w)' => u = w
                    /\ (\A u \in AhThreads : ~AhWrites(u)') => \A k \in AhKeys : Found(k)' = ahMap'[k]
                    /\ \A u \in AhThreads : AhPath(ahThread[u])'
  BY DEF AhSerialOK
<1>2. \A u \in AhThreads : u # t => ~AhWrites(u)
  BY DEF AhGood, AhSerialOK
<1>3. \A u \in AhThreads : u # t => ~AhWrites(u)'
  BY <1>1, <1>2 DEF AhWrites
<1>4. AhWrites(t)' <=> r.op \in {"set", "delete", "cleanup"}
  BY <1>1 DEF AhWrites
<1>5. ASSUME NEW u \in AhThreads PROVE AhPath(ahThread[u])'
  <2>1. CASE u # t
    <3>1. ahThread'[u].op \notin {"set", "delete", "cleanup"}
      BY <1>3, <2>1 DEF AhWrites
    <3> QED
      BY <3>1 DEF AhPath
  <2>2. CASE u = t
    BY <1>1, <2>2 DEF AhPath
  <2> QED
    BY <2>1, <2>2
<1> QED
  BY <1>3, <1>4, <1>5

(* A writing call begins: alone, or nothing is promised any more.          *)
LEMMA AhWriteBegin ==
    ASSUME AhGood, NEW t \in AhThreads, NEW r, AhTo(t, r), AhWriter,
           \A k \in AhKeys : Found(k)' = Found(k),
           r.op \in {"set", "delete", "cleanup"},
           (\A k \in AhKeys : Found(k)' = ahMap'[k]) => AhPath(r)'
    PROVE  AhSerialOK' /\ ahMap' \in [AhKeys -> Nat] /\ ahSerial' \in BOOLEAN
<1>0. ahMap \in [AhKeys -> Nat] /\ ahSerial \in BOOLEAN
  BY DEF AhGood, AhTypeOK
<1>1. CASE \E u \in AhThreads : AhWrites(u)
  <2>1. ahSerial' = FALSE /\ ahMap' = [k \in AhKeys |-> 0]
    BY <1>1 DEF AhWriter
  <2> QED
    BY <2>1 DEF AhSerialOK
<1>2. CASE ~\E u \in AhThreads : AhWrites(u)
  <2>1. ahSerial' = ahSerial /\ ahMap' = ahMap
    BY <1>2 DEF AhWriter
  <2>2. ahThread'[t] = r /\ \A u \in AhThreads : u # t => ahThread'[u] = ahThread[u]
    BY AhOthers DEF AhGood
  <2>3. \A u \in AhThreads : u # t => ~AhWrites(u)'
    BY <1>2, <2>2 DEF AhWrites
  <2>4. AhWrites(t)'
    BY <2>2 DEF AhWrites
  <2>5. ASSUME ahSerial
        PROVE  /\ \A u, w \in AhThreads : AhWrites(u)' /\ AhWrites(w)' => u = w
               /\ (\A u \in AhThreads : ~AhWrites(u)') => \A k \in AhKeys : Found(k)' = ahMap'[k]
               /\ \A u \in AhThreads : AhPath(ahThread[u])'
    <3>1. \A k \in AhKeys : Found(k) = ahMap[k]
      BY <1>2, <2>5 DEF AhGood, AhSerialOK
    <3>2. AhPath(r)'
      BY <2>1, <3>1
    <3>3. ASSUME NEW u \in AhThreads PROVE AhPath(ahThread[u])'
      <4>1. CASE u # t
        <5>1. ahThread'[u].op \notin {"set", "delete", "cleanup"}
          BY <2>3, <4>1 DEF AhWrites
        <5> QED
          BY <5>1 DEF AhPath
      <4>2. CASE u = t
        BY <2>2, <3>2, <4>2 DEF AhPath
      <4> QED
        BY <4>1, <4>2
    <3> QED
      BY <2>3, <2>4, <3>3
  <2>6. AhSerialOK'
    BY <2>1, <2>5 DEF AhSerialOK
  <2> QED
    BY <1>0, <2>1, <2>6
<1> QED
  BY <1>1, <1>2

(* A call at a bucket is at one of the table.                              *)
LEMMA AhAtBucket ==
    ASSUME NEW r \in AhRecord, AhArgs(r), r.at \notin {"idle", "hold"}
    PROVE  r.b \in AhBuckets
<1>1. r.op \in {"set", "get"} => r.b \in AhBuckets
  <2> SUFFICES ASSUME r.op \in {"set", "get"} PROVE r.b \in AhBuckets
    OBVIOUS
  <2>1. PICK l \in DOMAIN AhLevels, k \in Nat : r.b = AhBucket(l, k)
    BY AhAssumption DEF AhArgs
  <2> QED
    BY <2>1, AhInTable
<1>2. r.op \in {"delete", "cleanup"} => r.b \in AhBuckets
  BY DEF AhArgs
<1>3. r.op \in {"set", "get", "delete", "cleanup"}
  BY DEF AhArgs, AhRecord
<1> QED
  BY <1>1, <1>2, <1>3

(* The same for the three steps between two accesses.                      *)
LEMMA AhBetween ==
    ASSUME AhTypeOK, NEW r \in AhRecord, AhArgs(r), r.at \in {"load", "cas", "read"}
    PROVE  r.b \in AhBuckets /\ ahKey[r.b] \in 0 .. Len(ahSetOf) /\ ahVal[r.b] \in 0 .. Len(ahSetOf)
<1>1. r.b \in AhBuckets
  BY AhAtBucket
<1> QED
  BY <1>1 DEF AhTypeOK

(* A bucket has the key it had, whatever calls begin.                      *)
LEMMA AhHoldsKeep ==
    ASSUME AhTypeOK, AhGrows, NEW c \in AhBuckets, NEW k, ahKey'[c] = ahKey[c]
    PROVE  (Holds(c, k)' <=> Holds(c, k)) /\ (Available(c, k)' <=> Available(c, k))
<1>1. ahKey[c] # 0 => ahSetOf'[ahKey[c]] = ahSetOf[ahKey[c]]
  BY DEF AhTypeOK, AhGrows
<1>2. Holds(c, k)' <=> Holds(c, k)
  BY <1>1 DEF Holds
<1> QED
  BY <1>2 DEF Available

(* Set() begins with a number nobody has.                                  *)
LEMMA AhSetBegins ==
    ASSUME AhGood, NEW t \in AhThreads, NEW k \in AhKeys, SetBegin(t, k)
    PROVE  AhGood'
<1> DEFINE L == Len(ahSetOf)
<1>0. /\ AhTypeOK /\ AhThreadsOK /\ AhSets \in Nat /\ k \in Nat
      /\ ahSetOf \in Seq(AhKeys) /\ L \in Nat /\ L < AhSets
  BY AhAssumption DEF AhGood, AhTypeOK, SetBegin
<1>1. PICK r : /\ r = [AhIdle EXCEPT !.at = "avail", !.op = "set", !.key = k, !.level = 1,
                                     !.b = AhBucket(1, k), !.new = L + 1]
               /\ ahThread' = [ahThread EXCEPT ![t] = r]
  BY DEF SetBegin, AhGo
<1>2. 1 \in DOMAIN AhLevels /\ AhBucket(1, k) \in Nat
  <2>1. 1 \in DOMAIN AhLevels
    BY AhAssumption
  <2> QED
    BY <1>0, <2>1, AhInTable, AhRange
<1>3. /\ r.at = "avail" /\ r.op = "set" /\ r.key = k /\ r.level = 1 /\ r.b = AhBucket(1, k)
      /\ r.new = L + 1 /\ r.word = "key" /\ r \in AhRecord
  <2>1. PICK x \in Nat, y \in Nat : x = AhBucket(1, k) /\ y = L + 1
    BY <1>0, <1>2
  <2>2. r = [AhIdle EXCEPT !.at = "avail", !.op = "set", !.key = k, !.level = 1, !.b = x, !.new = y]
    BY <1>1, <2>1
  <2>3. r \in AhRecord
    BY <1>0, <2>2 DEF AhIdle, AhRecord
  <2>4. /\ r.at = "avail" /\ r.op = "set" /\ r.key = k /\ r.level = 1 /\ r.b = x
        /\ r.new = y /\ r.word = "key"
    BY <2>2 DEF AhIdle
  <2> QED
    BY <2>1, <2>3, <2>4
<1>4. AhTo(t, r)
  BY <1>1, <1>3 DEF AhTo
<1>5. /\ ahKey' = ahKey /\ ahVal' = ahVal /\ ahKeyRef' = ahKeyRef /\ ahValRef' = ahValRef
      /\ ahSetOf' = Append(ahSetOf, k) /\ AhWriter /\ ahThread[t].at = "idle"
  BY DEF SetBegin
<1>6. /\ AhGrows /\ ahSetOf' \in Seq(AhKeys) /\ Len(ahSetOf') = L + 1 /\ ahSetOf'[L + 1] = k
  BY <1>0, <1>5 DEF AhGrows
<1>7. ahThread'[t] = r /\ \A u \in AhThreads : u # t => ahThread'[u] = ahThread[u]
  BY <1>0, <1>4, AhOthers
<1>8. AhThreadsOK'
  <2>1. \A u \in AhThreads : AhArgs(ahThread[u]) /\ AhSees(ahThread[u]) /\ ahThread[u] \in AhRecord
    BY <1>0 DEF AhThreadsOK, AhTypeOK
  <2>2. ASSUME NEW q \in AhRecord, AhArgs(q), AhSees(q) PROVE AhArgs(q)' /\ AhSees(q)'
    <3>1. AhArgs(q)'
      BY <1>6, <2>2, AhArgsKeep
    <3>2. q.at \in {"load", "cas", "read"} => ahKey[q.b] \in 0 .. Len(ahSetOf)
      BY <1>0, <2>2, AhBetween
    <3>3. AhSees(q)'
      BY <1>5, <1>6, <2>2, <3>2, AhSeesKeep
    <3> QED
      BY <3>1, <3>3
  <2>3. AhArgs(r)' /\ AhSees(r)'
    <3>1. L + 1 \in 1 .. L + 1
      BY <1>0
    <3> QED
      BY <1>2, <1>3, <1>6, <3>1 DEF AhArgs, AhSees
  <2>4. ASSUME NEW u \in AhThreads PROVE AhArgs(ahThread[u])' /\ AhSees(ahThread[u])'
    <3>1. PICK q : q = ahThread'[u]
      OBVIOUS
    <3>2. AhArgs(q)' /\ AhSees(q)'
      BY <1>7, <2>1, <2>2, <2>3, <3>1
    <3> QED
      BY <3>1, <3>2 DEF AhArgs, AhSees
  <2> QED
    BY <2>4 DEF AhThreadsOK
<1>9. AhFresh'
  <2>1. \A u \in AhThreads : /\ ahThread[u].op = "set" => ahThread[u].new \in 1 .. L
                             /\ ahThread[u].at = "hold" => ahThread[u].old \in 1 .. L
    BY <1>0 DEF AhThreadsOK, AhArgs
  <2>2. \A c \in AhBuckets : ahKey[c] \in 0 .. L /\ ahVal[c] \in 0 .. L
    BY <1>0 DEF AhTypeOK
  <2>3. r.at # "hold"
    BY <1>3
  <2>n. L + 1 \notin 0 .. L /\ L + 1 \notin 1 .. L
    BY <1>0
  <2> HIDE DEF L
  <2> SUFFICES ASSUME NEW u \in AhThreads, ahThread'[u].op = "set"
               PROVE  /\ \A c \in AhBuckets : /\ ahVal[c] # ahThread'[u].new
                                              /\ ahThread'[u].word = "key" => ahKey[c] # ahThread'[u].new
                      /\ \A w \in AhThreads :
                           /\ ahThread'[w].at = "hold" => ahThread'[w].old # ahThread'[u].new
                           /\ ahThread'[w].op = "set" /\ w # u => ahThread'[w].new # ahThread'[u].new
    BY <1>5 DEF AhFresh
  <2>4. CASE u = t
    <3>1. ahThread'[u].new = L + 1
      BY <1>3, <1>7, <2>4
    <3> QED
      BY <1>7, <2>1, <2>2, <2>3, <2>n, <2>4, <3>1
  <2>5. CASE u # t
    <3>1. ahThread'[u] = ahThread[u] /\ ahThread[u].op = "set" /\ ahThread[u].new \in 1 .. L
      BY <1>7, <2>1, <2>5
    <3>2. /\ \A c \in AhBuckets : /\ ahVal[c] # ahThread[u].new
                                  /\ ahThread[u].word = "key" => ahKey[c] # ahThread[u].new
          /\ \A w \in AhThreads :
               /\ ahThread[w].at = "hold" => ahThread[w].old # ahThread[u].new
               /\ ahThread[w].op = "set" /\ w # u => ahThread[w].new # ahThread[u].new
      BY <3>1 DEF AhGood, AhFresh
    <3> QED
      BY <1>3, <1>7, <2>3, <2>n, <3>1, <3>2
  <2> QED
    BY <2>4, <2>5
<1>10. AhBucketsOK'
  <2>1. ASSUME NEW c \in AhBuckets, ahKey[c] = 0, ahVal[c] # 0
        PROVE  \E u \in AhThreads : Clears(ahThread'[u], c)
    <3>1. PICK u \in AhThreads : Clears(ahThread[u], c)
      BY <2>1 DEF AhGood, AhBucketsOK
    <3>2. u # t
      BY <1>5, <3>1 DEF Clears
    <3> QED
      BY <1>7, <3>1, <3>2
  <2>2. ASSUME NEW c \in AhBuckets, ahKey[c] # 0, ahVal[c] # 0
        PROVE  ahSetOf'[ahKey[c]] = ahSetOf'[ahVal[c]]
    <3>1. ahKey[c] \in 1 .. L /\ ahVal[c] \in 1 .. L
      BY <1>0, <2>2 DEF AhTypeOK
    <3>2. ahSetOf[ahKey[c]] = ahSetOf[ahVal[c]]
      BY <2>2 DEF AhGood, AhBucketsOK
    <3> QED
      BY <1>6, <3>1, <3>2 DEF AhGrows
  <2>3. \A c \in AhBuckets : \A d \in AhBuckets : ahKey[c] # 0 /\ ahKey[d] = ahKey[c] => c = d
    BY DEF AhGood, AhBucketsOK
  <2>4. \A u \in AhThreads, c \in AhBuckets : Clears(ahThread[u], c)' <=> Clears(ahThread'[u], c)
    BY DEF Clears
  <2> QED
    BY <1>5, <2>1, <2>2, <2>3, <2>4, Zenon DEF AhBucketsOK
<1>11. AhKeyRefs'
  <2>1. \A n \in 1 .. AhSets : ~Clones(ahThread[t], n) /\ ~Clones(r, n)
    BY <1>3, <1>5 DEF Clones
  <2> QED
    BY <1>4, <1>5, <2>1, AhKeyRefsKeep
<1>12. AhValRefs'
  <2>1. \A n \in 1 .. AhSets : ~Keeps(ahThread[t], n) /\ ~Keeps(r, n)
    BY <1>0, <1>3, <1>5 DEF Keeps, AhThreadsOK, AhArgs
  <2> QED
    BY <1>4, <1>5, <2>1, AhValRefsKeep
<1>13. AhSerialOK' /\ ahMap' \in [AhKeys -> Nat] /\ ahSerial' \in BOOLEAN
  <2>1. ASSUME NEW j \in AhKeys PROVE Found(j)' = Found(j)
    <3>0. j \in Nat
      BY AhAssumption
    <3>1. \A l \in DOMAIN AhLevels : /\ Holds(AhBucket(l, j), j)' <=> Holds(AhBucket(l, j), j)
                                     /\ ahVal'[AhBucket(l, j)] = ahVal[AhBucket(l, j)]
      <4> TAKE l \in DOMAIN AhLevels
      <4>1. AhBucket(l, j) \in AhBuckets
        BY <3>0, AhInTable
      <4>2. Holds(AhBucket(l, j), j)' <=> Holds(AhBucket(l, j), j)
        BY <1>0, <1>5, <1>6, <4>1, AhHoldsKeep
      <4> QED
        BY <1>5, <4>2
    <3> QED
      BY <3>1, AhFoundKeep
  <2>2. ASSUME \A j \in AhKeys : Found(j)' = ahMap'[j] PROVE AhPath(r)'
    BY <1>3, <2>2 DEF AhPath
  <2>3. r.op \in {"set", "delete", "cleanup"}
    BY <1>3
  <2> QED
    BY <1>4, <1>5, <2>1, <2>2, <2>3, AhWriteBegin
<1>14. AhTypeOK'
  <2>1. ahKey' \in [AhBuckets -> 0 .. Len(ahSetOf')] /\ ahVal' \in [AhBuckets -> 0 .. Len(ahSetOf')]
    <3>1. 0 .. L \subseteq 0 .. L + 1
      BY <1>0
    <3>2. ahKey \in [AhBuckets -> 0 .. L] /\ ahVal \in [AhBuckets -> 0 .. L]
      BY <1>0 DEF AhTypeOK
    <3> QED
      BY <1>5, <1>6, <3>1, <3>2
  <2>2. ahThread' \in [AhThreads -> AhRecord]
    BY <1>0, <1>4, AhOthers
  <2>3. Len(ahSetOf') <= AhSets
    BY <1>0, <1>6
  <2> QED
    BY <1>0, <1>5, <1>6, <1>13, <2>1, <2>2, <2>3 DEF AhTypeOK
<1> QED
  BY <1>8, <1>9, <1>10, <1>11, <1>12, <1>13, <1>14 DEF AhGood

(* A thread that has no call in progress.                                  *)
LEMMA AhIdleOK ==
    /\ AhIdle \in AhRecord /\ AhIdle.at = "idle" /\ AhIdle.op = "none" /\ AhIdle.word = "key"
    /\ AhArgs(AhIdle) /\ AhSees(AhIdle)
<1>1. AhIdle \in AhRecord /\ AhIdle.at = "idle" /\ AhIdle.op = "none" /\ AhIdle.word = "key"
  BY DEF AhIdle, AhRecord
<1> QED
  BY <1>1 DEF AhArgs, AhSees

(* The next level of a call.                                               *)
LEMMA AhNextLevel ==
    ASSUME AhGood, NEW t \in AhThreads, NEW at \in {"avail", "look"}, NEW me, me = ahThread[t],
           me.op \in {"set", "get"}
    PROVE  \/ me.level = Len(AhLevels) /\ NextLevel(t, at) = AhIdle
           \/ \E r \in AhRecord :
                /\ me.level # Len(AhLevels) /\ me.level + 1 \in DOMAIN AhLevels
                /\ r = NextLevel(t, at) /\ r.at = at /\ r.op = me.op /\ r.key = me.key
                /\ r.level = me.level + 1 /\ r.b = AhBucket(r.level, r.key)
                /\ r.word = "key" /\ r.new = me.new
<1>0. me \in AhRecord /\ me.level \in DOMAIN AhLevels /\ me.key \in Nat
  BY AhAssumption DEF AhGood, AhTypeOK, AhThreadsOK, AhArgs
<1>1. CASE me.level = Len(AhLevels)
  BY <1>1 DEF NextLevel
<1>2. CASE me.level # Len(AhLevels)
  <2>1. me.level + 1 \in DOMAIN AhLevels
    BY <1>0, <1>2, AhAssumption
  <2>2. PICK c \in Nat, l \in Nat : c = AhBucket(me.level + 1, me.key) /\ l = me.level + 1
    <3>1. AhBucket(me.level + 1, me.key) \in AhBuckets
      BY <1>0, <2>1, AhInTable
    <3>2. me.level + 1 \in Nat
      BY <2>1, AhAssumption
    <3> QED
      BY <3>1, <3>2, AhRange
  <2>3. PICK r : r = [me EXCEPT !.at = at, !.word = "key", !.old = 0, !.level = l, !.b = c]
    OBVIOUS
  <2>4. r = NextLevel(t, at)
    BY <1>2, <2>2, <2>3 DEF NextLevel
  <2>5. r \in AhRecord
    BY <1>0, <2>3 DEF AhRecord
  <2>6. /\ r.at = at /\ r.op = me.op /\ r.key = me.key /\ r.level = l /\ r.b = c
        /\ r.word = "key" /\ r.new = me.new
    BY <1>0, <2>3 DEF AhRecord
  <2> QED
    BY <1>2, <2>1, <2>2, <2>4, <2>5, <2>6
<1> QED
  BY <1>1, <1>2

(* The next bucket of Delete() and Cleanup().                              *)
LEMMA AhNextBucket ==
    ASSUME AhGood, NEW t \in AhThreads, NEW me, me = ahThread[t],
           me.op \in {"delete", "cleanup"}
    PROVE  \/ me.b + 1 \notin AhBuckets /\ NextBucket(t) = AhIdle
           \/ \E r \in AhRecord :
                /\ me.b + 1 \in AhBuckets /\ r = NextBucket(t) /\ r # AhIdle
                /\ r.at = "walk" /\ r.op = me.op /\ r.key = me.key /\ r.b = me.b + 1
                /\ r.word = "key" /\ r.new = 0
<1>0. me \in AhRecord
  BY DEF AhGood, AhTypeOK
<1>1. CASE me.b + 1 \notin AhBuckets
  BY <1>1 DEF NextBucket
<1>2. CASE me.b + 1 \in AhBuckets
  <2>1. PICK c \in Nat, k \in Nat, o \in {"delete", "cleanup"} :
          c = me.b + 1 /\ k = me.key /\ o = me.op
    BY <1>0 DEF AhRecord
  <2>2. PICK r : r = [AhIdle EXCEPT !.at = "walk", !.op = o, !.key = k, !.b = c]
    OBVIOUS
  <2>3. r = NextBucket(t)
    BY <1>2, <2>1, <2>2 DEF NextBucket
  <2>4. r \in AhRecord
    BY <2>2 DEF AhIdle, AhRecord
  <2>5. r.at = "walk" /\ r.op = o /\ r.key = k /\ r.b = c /\ r.word = "key" /\ r.new = 0
    BY <2>2 DEF AhIdle
  <2>6. r # AhIdle
    BY <2>5, AhIdleOK
  <2> QED
    BY <1>2, <2>1, <2>3, <2>4, <2>5, <2>6
<1> QED
  BY <1>1, <1>2

(* Delete() and Cleanup() have dealt with a bucket and go to the next, or  *)
(* have gone through all of them: then the keys are gone.                  *)
LEMMA AhBucketDone ==
    ASSUME AhGood, NEW t \in AhThreads, NEW me, me = ahThread[t], me.op \in {"delete", "cleanup"},
           me.b \in AhBuckets, AhPath(me), ahKey' = ahKey, ahSetOf' = ahSetOf,
           \A k \in AhKeys : Found(k)' = Found(k),
           me.op = "delete" => ~Holds(me.b, me.key), me.op = "cleanup" => ahKey[me.b] = 0,
           ahMap' = Forgotten(t), NEW r, r = NextBucket(t)
    PROVE  /\ AhPath(r)'
           /\ r.op \in {"set", "delete", "cleanup"} \/ \A k \in AhKeys : Found(k)' = ahMap'[k]
<1>0. PICK N \in Nat : AhBuckets = 1 .. N
  BY AhRange
<1>1. \A c, k : Holds(c, k)' <=> Holds(c, k)
  BY DEF Holds
<1>2. \A c \in AhBuckets : /\ me.op = "delete" /\ c < me.b + 1 => ~Holds(c, me.key)
                           /\ me.op = "cleanup" /\ c < me.b + 1 => ahKey[c] = 0
  <2> TAKE c \in AhBuckets
  <2>1. c < me.b + 1 => c = me.b \/ c < me.b
    BY <1>0
  <2> QED
    BY <2>1 DEF AhPath
<1>3. \A k \in AhKeys : me.op = "delete" /\ k # me.key => Found(k) = ahMap[k]
  BY DEF AhPath
<1>4. CASE me.b + 1 \notin AhBuckets
  <2>1. r = AhIdle
    BY <1>4, AhNextBucket
  <2>2. \A c \in AhBuckets : c < me.b + 1
    BY <1>0, <1>4
  <2>3. ahMap' = [k \in AhKeys |-> IF k = me.key \/ me.op = "cleanup" THEN 0 ELSE ahMap[k]]
    BY <2>1, Zenon DEF Forgotten
  <2>4. ASSUME NEW k \in AhKeys PROVE Found(k)' = ahMap'[k]
    <3>1. CASE k # me.key /\ me.op = "delete"
      BY <1>3, <2>3, <3>1
    <3>2. CASE k = me.key \/ me.op = "cleanup"
      <4>1. \A c \in AhBuckets : ~Holds(c, k)
        BY <1>2, <2>2, <3>2 DEF Holds
      <4>2. \A l \in DOMAIN AhLevels : ~Holds(AhBucket(l, k), k)'
        BY <1>1, <4>1, AhInTable, AhAssumption
      <4>3. Found(k)' = 0
        BY <4>2, AhFoundNone
      <4> QED
        BY <2>3, <3>2, <4>3
    <3> QED
      BY <3>1, <3>2
  <2>5. AhPath(r)'
    <3>1. r.op \notin {"set", "delete", "cleanup"}
      BY <2>1, AhIdleOK
    <3> QED
      BY <3>1, AhNoPath
  <2> QED
    BY <2>4, <2>5
<1>5. CASE me.b + 1 \in AhBuckets
  <2>1. r # AhIdle /\ r.op = me.op /\ r.key = me.key /\ r.b = me.b + 1
    BY <1>5, AhNextBucket
  <2>2. ahMap' = ahMap
    BY <2>1, Zenon DEF Forgotten
  <2>3. AhPath(r)'
    <3>1. r.op = "delete" \/ r.op = "cleanup"
      BY <2>1
    <3>2. r.op \in {"set", "delete"} => \A k \in AhKeys : k # r.key => Found(k)' = ahMap'[k]
      BY <1>3, <2>1, <2>2
    <3>3. r.op = "delete" => \A c \in AhBuckets : c < r.b => ~Holds(c, r.key)'
      BY <1>1, <1>2, <2>1
    <3>4. r.op = "cleanup" => \A c \in AhBuckets : c < r.b => ahKey'[c] = 0
      BY <1>2, <2>1
    <3> QED
      BY <3>1, <3>2, <3>3, <3>4 DEF AhPath
  <2> QED
    BY <2>1, <2>3
<1> QED
  BY <1>4, <1>5

(* A step that writes no bucket, its counts and its order put together.    *)
LEMMA AhQuietStep ==
    ASSUME AhGood, NEW t \in AhThreads, NEW r, AhQuiet(t, r), AhKeyRefs', AhValRefs', AhSerialOK',
           ahKeyRef' \in [1 .. AhSets -> Int], ahValRef' \in [1 .. AhSets -> Int],
           ahMap' \in [AhKeys -> Nat], ahSerial' \in BOOLEAN
    PROVE  AhGood'
<1>1. AhThreadsOK' /\ AhFresh' /\ AhBucketsOK'
  BY AhQuietKeeps
<1>2. ahThread' \in [AhThreads -> AhRecord]
  BY AhOthers DEF AhQuiet, AhGood
<1>3. AhTypeOK'
  BY <1>2 DEF AhQuiet, AhGood, AhTypeOK
<1> QED
  BY <1>1, <1>3 DEF AhGood

(* The types of what a step leaves alone.                                  *)
LEMMA AhTypes ==
    ASSUME AhGood
    PROVE  /\ ahKeyRef \in [1 .. AhSets -> Int] /\ ahValRef \in [1 .. AhSets -> Int]
           /\ ahMap \in [AhKeys -> Nat] /\ ahSerial \in BOOLEAN /\ ahThread \in [AhThreads -> AhRecord]
           /\ \A u \in AhThreads : /\ ahThread[u] \in AhRecord /\ AhArgs(ahThread[u])
                                   /\ AhSees(ahThread[u])
           /\ \A c \in AhBuckets : ahKey[c] \in Nat /\ ahVal[c] \in Nat
BY DEF AhGood, AhTypeOK, AhThreadsOK

(* Get() begins.                                                           *)
LEMMA AhGetBegins ==
    ASSUME AhGood, NEW t \in AhThreads, NEW k \in AhKeys, GetBegin(t, k)
    PROVE  AhGood'
<1>1. /\ UNCHANGED <<ahKey, ahVal, ahSetOf, ahMap, ahSerial>>
      /\ ahKeyRef' = ahKeyRef /\ ahValRef' = ahValRef /\ ahThread[t].at = "idle"
  BY DEF GetBegin
<1>2. 1 \in DOMAIN AhLevels /\ k \in Nat /\ AhBucket(1, k) \in Nat
  <2>1. 1 \in DOMAIN AhLevels /\ k \in Nat
    BY AhAssumption
  <2> QED
    BY <2>1, AhInTable, AhRange
<1>3. PICK x \in Nat : x = AhBucket(1, k)
  BY <1>2
<1>4. PICK r : /\ r = [AhIdle EXCEPT !.at = "look", !.op = "get", !.key = k, !.level = 1, !.b = x]
               /\ ahThread' = [ahThread EXCEPT ![t] = r]
  BY <1>3 DEF GetBegin, AhGo
<1>5. r \in AhRecord
  BY <1>2, <1>4 DEF AhIdle, AhRecord
<1>6. r.at = "look" /\ r.op = "get" /\ r.key = k /\ r.level = 1 /\ r.b = x
  BY <1>4 DEF AhIdle
<1>7. AhTo(t, r) /\ ahThread[t].op = "none"
  BY <1>1, <1>4, <1>5, AhTypes DEF AhTo, AhArgs
<1>8. AhArgs(r) /\ AhSees(r)
  BY <1>2, <1>3, <1>6 DEF AhArgs, AhSees
<1>9. AhQuiet(t, r)
  BY <1>1, <1>6, <1>7, <1>8 DEF AhQuiet, Clears
<1>10. AhSerialOK'
  BY <1>1, <1>6, <1>7, AhReads
<1>11. AhKeyRefs'
  <2>1. \A n \in 1 .. AhSets : Clones(ahThread[t], n) <=> Clones(r, n)
    BY <1>1, <1>6 DEF Clones
  <2> QED
    BY <1>1, <1>7, <2>1, AhKeyRefsKeep
<1>12. AhValRefs'
  <2>1. \A n \in 1 .. AhSets : Keeps(ahThread[t], n) <=> Keeps(r, n)
    BY <1>1, <1>6, <1>7 DEF Keeps
  <2> QED
    BY <1>1, <1>7, <2>1, AhValRefsKeep
<1> QED
  BY <1>1, <1>9, <1>10, <1>11, <1>12, AhTypes, AhQuietStep

(* Delete() or Cleanup() begins at the first bucket.                       *)
LEMMA AhDeleteBegins ==
    ASSUME AhGood, NEW t \in AhThreads, NEW op \in {"delete", "cleanup"}, NEW k \in Nat,
           op = "delete" => k \in AhKeys, DeleteBegin(t, op, k)
    PROVE  AhGood'
<1>1. /\ UNCHANGED <<ahKey, ahVal, ahSetOf>> /\ AhWriter
      /\ ahKeyRef' = ahKeyRef /\ ahValRef' = ahValRef /\ ahThread[t].at = "idle"
  BY DEF DeleteBegin
<1>2. 1 \in AhBuckets
  <2>1. 1 \in DOMAIN AhLevels
    BY AhAssumption
  <2>2. AhBucket(1, k) \in AhBuckets
    BY <2>1, AhInTable
  <2> QED
    BY <2>2, AhRange
<1>3. PICK r : /\ r = [AhIdle EXCEPT !.at = "walk", !.op = op, !.key = k, !.b = 1]
               /\ ahThread' = [ahThread EXCEPT ![t] = r]
  BY DEF DeleteBegin, AhGo
<1>5. r \in AhRecord
  BY <1>3 DEF AhIdle, AhRecord
<1>6. r.at = "walk" /\ r.op = op /\ r.key = k /\ r.b = 1 /\ r.word = "key" /\ r.new = 0
  BY <1>3 DEF AhIdle
<1>7. AhTo(t, r) /\ ahThread[t].op = "none"
  BY <1>1, <1>3, <1>5, AhTypes DEF AhTo, AhArgs
<1>8. AhArgs(r) /\ AhSees(r)
  BY <1>2, <1>6 DEF AhArgs, AhSees
<1>9. AhQuiet(t, r)
  BY <1>1, <1>6, <1>7, <1>8 DEF AhQuiet, Clears
<1>10. AhSerialOK' /\ ahMap' \in [AhKeys -> Nat] /\ ahSerial' \in BOOLEAN
  <2>1. \A j \in AhKeys : Found(j)' = Found(j)
    BY <1>1, AhStill
  <2>2. \A c \in AhBuckets : ~(c < 1)
    BY AhRange
  <2>3. ASSUME \A j \in AhKeys : Found(j)' = ahMap'[j] PROVE AhPath(r)'
    BY <1>6, <2>2, <2>3 DEF AhPath
  <2>4. r.op \in {"set", "delete", "cleanup"}
    BY <1>6
  <2> QED
    BY <1>1, <1>7, <2>1, <2>3, <2>4, AhWriteBegin
<1>11. AhKeyRefs'
  <2>1. \A n \in 1 .. AhSets : Clones(ahThread[t], n) <=> Clones(r, n)
    BY <1>1, <1>6 DEF Clones
  <2> QED
    BY <1>1, <1>7, <2>1, AhKeyRefsKeep
<1>12. AhValRefs'
  <2>1. \A n \in 1 .. AhSets : Keeps(ahThread[t], n) <=> Keeps(r, n)
    BY <1>1, <1>6, <1>7 DEF Keeps
  <2> QED
    BY <1>1, <1>7, <2>1, AhValRefsKeep
<1> QED
  BY <1>1, <1>9, <1>10, <1>11, <1>12, AhTypes, AhQuietStep

(* Exchange() loads the word it is going to replace.                       *)
LEMMA AhLoads ==
    ASSUME AhGood, NEW t \in AhThreads, ExchangeLoad(t)
    PROVE  AhGood'
<1>1. /\ UNCHANGED <<ahKey, ahVal, ahSetOf>> /\ ahMap' = ahMap /\ ahSerial' = ahSerial
      /\ ahKeyRef' = ahKeyRef /\ ahValRef' = ahValRef /\ ahThread[t].at = "load"
  BY DEF ExchangeLoad
<1>2. PICK me \in AhRecord : me = ahThread[t]
  BY AhTypes
<1>3. AhArgs(me) /\ AhSees(me) /\ me.at = "load" /\ me.b \in AhBuckets
  BY <1>1, <1>2, AhTypes, AhAtBucket
<1>4. PICK x \in Nat : x = IF me.word = "key" THEN ahKey[me.b] ELSE ahVal[me.b]
  BY <1>3, AhTypes
<1>5. PICK r : r = [me EXCEPT !.at = "cas", !.old = x] /\ ahThread' = [ahThread EXCEPT ![t] = r]
  BY <1>2, <1>4 DEF ExchangeLoad, AhGo
<1>6. /\ r \in AhRecord /\ r.at = "cas" /\ r.old = x /\ r.op = me.op /\ r.key = me.key
      /\ r.level = me.level /\ r.b = me.b /\ r.word = me.word /\ r.new = me.new
  BY <1>5 DEF AhRecord
<1>7. AhTo(t, r)
  BY <1>5, <1>6 DEF AhTo
<1>8. AhArgs(r)
  BY <1>3, <1>6 DEF AhArgs
<1>9. AhSees(r)
  BY <1>3, <1>4, <1>6 DEF AhSees
<1>10. AhQuiet(t, r)
  BY <1>1, <1>2, <1>3, <1>6, <1>7, <1>8, <1>9 DEF AhQuiet, Clears
<1>11. AhSerialOK'
  <2>1. ASSUME ahSerial PROVE AhPath(r)'
    <3>1. AhPath(me)
      BY <1>2, <2>1 DEF AhGood, AhSerialOK
    <3>2. /\ \A c, k : (Holds(c, k)' <=> Holds(c, k)) /\ (Available(c, k)' <=> Available(c, k))
          /\ \A k : Found(k)' = Found(k)
      BY <1>1, AhStill
    <3> QED
      BY <1>1, <1>6, <3>1, <3>2 DEF AhPath
  <2>2. me.op \in {"set", "delete", "cleanup"}
    BY <1>3 DEF AhArgs
  <2> QED
    BY <1>1, <1>2, <1>6, <1>7, <2>1, <2>2, AhWriteStep DEF AhWrites
<1>12. AhKeyRefs'
  <2>1. \A n \in 1 .. AhSets : Clones(ahThread[t], n) <=> Clones(r, n)
    BY <1>2, <1>3, <1>6 DEF Clones
  <2> QED
    BY <1>1, <1>7, <2>1, AhKeyRefsKeep
<1>13. AhValRefs'
  <2>1. \A n \in 1 .. AhSets : Keeps(ahThread[t], n) <=> Keeps(r, n)
    BY <1>2, <1>3, <1>6 DEF Keeps
  <2> QED
    BY <1>1, <1>7, <2>1, AhValRefsKeep
<1> QED
  BY <1>1, <1>10, <1>11, <1>12, <1>13, AhTypes, AhQuietStep

(* Lookup() of Get() finds the bucket, or goes to the next level.          *)
LEMMA AhLooks ==
    ASSUME AhGood, NEW t \in AhThreads, Lookup(t)
    PROVE  AhGood'
<1>1. /\ UNCHANGED <<ahKey, ahVal, ahSetOf, ahMap, ahSerial>>
      /\ ahKeyRef' = ahKeyRef /\ ahValRef' = ahValRef /\ ahThread[t].at = "look"
  BY DEF Lookup
<1>2. PICK me \in AhRecord : me = ahThread[t]
  BY AhTypes
<1>3. AhArgs(me) /\ me.at = "look" /\ me.op = "get"
  BY <1>1, <1>2, AhTypes DEF AhArgs
<1>4. PICK r \in AhRecord : /\ AhTo(t, r) /\ AhArgs(r) /\ AhSees(r)
                            /\ r.op \in {"get", "none"} /\ r.at \in {"read", "look", "idle"}
  <2>1. CASE Holds(me.b, me.key)
    <3>1. PICK r : r = [me EXCEPT !.at = "read"] /\ ahThread' = [ahThread EXCEPT ![t] = r]
      BY <1>2, <2>1 DEF Lookup, AhGo
    <3>2. /\ r \in AhRecord /\ r.at = "read" /\ r.op = me.op /\ r.key = me.key
          /\ r.level = me.level /\ r.b = me.b
      BY <3>1 DEF AhRecord
    <3>3. AhArgs(r)
      BY <1>3, <3>2 DEF AhArgs
    <3>4. AhSees(r)
      BY <2>1, <3>2 DEF AhSees
    <3> QED
      BY <1>3, <3>1, <3>2, <3>3, <3>4 DEF AhTo
  <2>2. CASE ~Holds(me.b, me.key)
    <3>1. ahThread' = [ahThread EXCEPT ![t] = NextLevel(t, "look")]
      BY <1>2, <2>2 DEF Lookup, AhGo
    <3>2. CASE NextLevel(t, "look") = AhIdle
      BY <3>1, <3>2, AhIdleOK DEF AhTo
    <3>3. CASE NextLevel(t, "look") # AhIdle
      <4>1. PICK r \in AhRecord :
              /\ me.level + 1 \in DOMAIN AhLevels
              /\ r = NextLevel(t, "look") /\ r.at = "look" /\ r.op = me.op /\ r.key = me.key
              /\ r.level = me.level + 1 /\ r.b = AhBucket(r.level, r.key)
        BY <1>2, <1>3, <3>3, AhNextLevel
      <4>2. AhArgs(r) /\ AhSees(r)
        BY <1>3, <4>1 DEF AhArgs, AhSees
      <4> QED
        BY <1>3, <3>1, <4>1, <4>2 DEF AhTo
    <3> QED
      BY <3>2, <3>3
  <2> QED
    BY <2>1, <2>2
<1>5. AhQuiet(t, r)
  BY <1>1, <1>2, <1>3, <1>4 DEF AhQuiet, Clears
<1>6. AhSerialOK'
  BY <1>1, <1>2, <1>3, <1>4, AhReads
<1>7. AhKeyRefs'
  <2>1. \A n \in 1 .. AhSets : Clones(ahThread[t], n) <=> Clones(r, n)
    BY <1>2, <1>3, <1>4 DEF Clones
  <2> QED
    BY <1>1, <1>4, <2>1, AhKeyRefsKeep
<1>8. AhValRefs'
  <2>1. \A n \in 1 .. AhSets : Keeps(ahThread[t], n) <=> Keeps(r, n)
    BY <1>2, <1>3, <1>4 DEF Keeps
  <2> QED
    BY <1>1, <1>4, <2>1, AhValRefsKeep
<1> QED
  BY <1>1, <1>5, <1>6, <1>7, <1>8, AhTypes, AhQuietStep

(* The sets that are counted are finite.                                   *)
LEMMA AhCounted ==
    \A n : /\ IsFiniteSet(AhValIn(n)) /\ Cardinality(AhValIn(n)) \in Nat
           /\ IsFiniteSet(AhKeepers(n)) /\ Cardinality(AhKeepers(n)) \in Nat
<1> TAKE n
<1>1. IsFiniteSet(AhBuckets)
  BY AhRange, FS_Interval
<1>2. IsFiniteSet(AhValIn(n)) /\ IsFiniteSet(AhKeepers(n))
  BY <1>1, AhAssumption, FS_Subset DEF AhValIn, AhKeepers
<1> QED
  BY <1>2, FS_CardinalityType

(* The holders of a value when t goes on with r.                           *)
LEMMA AhKeepersTo ==
    ASSUME AhTypeOK, NEW t \in AhThreads, NEW r, AhTo(t, r), NEW n
    PROVE  AhKeepers(n)' = IF Keeps(r, n) THEN AhKeepers(n) \union {t} ELSE AhKeepers(n) \ {t}
<1>1. ahThread'[t] = r /\ \A u \in AhThreads : u # t => ahThread'[u] = ahThread[u]
  BY AhOthers
<1>2. \A u \in AhThreads :
        Keeps(ahThread[u], n)' <=> IF u = t THEN Keeps(r, n) ELSE Keeps(ahThread[u], n)
  BY <1>1 DEF Keeps
<1> QED
  BY <1>2 DEF AhKeepers

(* Get() has a reference to the value of its key, ...                      *)
LEMMA AhAccesses ==
    ASSUME AhGood, NEW t \in AhThreads, AccessValue(t)
    PROVE  AhGood'
<1>1. /\ UNCHANGED <<ahKey, ahVal, ahSetOf, ahMap, ahSerial>>
      /\ ahKeyRef' = ahKeyRef /\ ahThread[t].at = "read"
  BY DEF AccessValue
<1>2. PICK me \in AhRecord : me = ahThread[t]
  BY AhTypes
<1>3. AhArgs(me) /\ AhSees(me) /\ me.at = "read" /\ me.op = "get" /\ me.b \in AhBuckets
  BY <1>1, <1>2, AhTypes, AhAtBucket DEF AhArgs
<1>4. PICK n \in Nat : n = ahVal[me.b]
  BY <1>3, AhTypes
<1>5. n # 0 => n \in 1 .. Len(ahSetOf) /\ n \in 1 .. AhSets /\ ahSetOf[n] = me.key
  <2>1. n # 0 => n \in 1 .. Len(ahSetOf) /\ n \in 1 .. AhSets
    BY <1>3, <1>4, AhAssumption, SMTT(60) DEF AhGood, AhTypeOK
  <2>2. Holds(me.b, me.key)
    BY <1>3 DEF AhSees
  <2> QED
    BY <1>3, <1>4, <2>1, <2>2 DEF Holds, AhGood, AhBucketsOK
<1>6. CASE n = 0
  <2>1. AhTo(t, AhIdle) /\ ahValRef' = ahValRef
    BY <1>2, <1>4, <1>6, AhIdleOK DEF AccessValue, AhGo, AhTo
  <2>2. AhQuiet(t, AhIdle)
    BY <1>1, <1>2, <1>3, <2>1, AhIdleOK DEF AhQuiet, Clears
  <2>3. AhSerialOK'
    BY <1>1, <1>2, <1>3, <2>1, AhIdleOK, AhReads
  <2>4. \A i \in 1 .. AhSets : /\ Clones(ahThread[t], i) <=> Clones(AhIdle, i)
                               /\ Keeps(ahThread[t], i) <=> Keeps(AhIdle, i)
    BY <1>2, <1>3, AhIdleOK DEF Clones, Keeps
  <2>5. AhKeyRefs'
    BY <1>1, <2>1, <2>4, AhKeyRefsKeep
  <2>6. AhValRefs'
    BY <1>1, <2>1, <2>4, AhValRefsKeep
  <2> QED
    BY <1>1, <2>1, <2>2, <2>3, <2>5, <2>6, AhTypes, AhQuietStep
<1>7. CASE n # 0
  <2>1. PICK k \in Nat : k = me.key
    BY DEF AhRecord
  <2>2. PICK r : /\ r = [AhIdle EXCEPT !.at = "hold", !.key = k, !.old = n]
                 /\ ahThread' = [ahThread EXCEPT ![t] = r]
                 /\ ahValRef' = [ahValRef EXCEPT ![n] = @ + 1]
    BY <1>2, <1>4, <1>7, <2>1 DEF AccessValue, AhGo
  <2>3. r \in AhRecord
    BY <2>2 DEF AhIdle, AhRecord
  <2>4. r.at = "hold" /\ r.op = "none" /\ r.key = k /\ r.old = n
    BY <2>2 DEF AhIdle
  <2>5. AhTo(t, r)
    BY <2>2, <2>3 DEF AhTo
  <2>6. AhArgs(r) /\ AhSees(r)
    BY <1>5, <1>7, <2>1, <2>4 DEF AhArgs, AhSees
  <2>7. AhQuiet(t, r)
    BY <1>1, <1>2, <1>3, <1>4, <2>4, <2>5, <2>6 DEF AhQuiet, Clears
  <2>8. AhSerialOK'
    BY <1>1, <1>2, <1>3, <2>4, <2>5, AhReads
  <2>9. AhKeyRefs'
    <3>1. \A i \in 1 .. AhSets : Clones(ahThread[t], i) <=> Clones(r, i)
      BY <1>2, <1>3, <2>4 DEF Clones
    <3> QED
      BY <1>1, <2>5, <3>1, AhKeyRefsKeep
  <2>10. ahValRef' \in [1 .. AhSets -> Int]
         /\ \A i \in 1 .. AhSets : ahValRef'[i] = IF i = n THEN ahValRef[i] + 1 ELSE ahValRef[i]
    BY <1>5, <1>7, <2>2, AhTypes
  <2>11. AhValRefs'
    <3> SUFFICES ASSUME NEW i \in 1 .. AhSets
                 PROVE  ahValRef'[i] = Cardinality(AhValIn(i)') + Cardinality(AhKeepers(i)')
      BY DEF AhValRefs
    <3>1. AhValIn(i)' = AhValIn(i)
      BY <1>1 DEF AhValIn
    <3>2. ahValRef[i] = Cardinality(AhValIn(i)) + Cardinality(AhKeepers(i))
      BY DEF AhGood, AhValRefs
    <3>3. t \notin AhKeepers(i) /\ (Keeps(r, i) <=> i = n)
      BY <1>2, <1>3, <2>4 DEF AhKeepers, Keeps
    <3>4. AhKeepers(i)' = IF i = n THEN AhKeepers(i) \union {t} ELSE AhKeepers(i)
      <4>1. AhKeepers(i)' = IF Keeps(r, i) THEN AhKeepers(i) \union {t} ELSE AhKeepers(i) \ {t}
        BY <2>5, AhKeepersTo DEF AhGood
      <4> QED
        BY <3>3, <4>1
    <3>5. Cardinality(AhKeepers(i) \union {t}) = Cardinality(AhKeepers(i)) + 1
      BY <3>3, AhCounted, FS_AddElement
    <3>6. Cardinality(AhValIn(i)) \in Nat /\ Cardinality(AhKeepers(i)) \in Nat
      BY AhCounted
    <3> QED
      BY <2>10, <3>1, <3>2, <3>4, <3>5, <3>6
  <2> QED
    BY <1>1, <2>7, <2>8, <2>9, <2>10, <2>11, AhTypes, AhQuietStep
<1> QED
  BY <1>6, <1>7

(* ... until the accessor gives it up.                                     *)
LEMMA AhDrops ==
    ASSUME AhGood, NEW t \in AhThreads, Drop(t)
    PROVE  AhGood'
<1>1. /\ UNCHANGED <<ahKey, ahVal, ahSetOf, ahMap, ahSerial>>
      /\ ahKeyRef' = ahKeyRef /\ ahThread[t].at = "hold"
      /\ ahThread' = [ahThread EXCEPT ![t] = AhIdle]
  BY DEF Drop, AhGo
<1>2. PICK me \in AhRecord : me = ahThread[t]
  BY AhTypes
<1>3. AhArgs(me) /\ me.at = "hold" /\ me.op = "none"
  BY <1>1, <1>2, AhTypes DEF AhArgs
<1>4. PICK n \in 1 .. AhSets : n = me.old
  BY <1>3, AhAssumption, SMTT(60) DEF AhArgs, AhGood, AhTypeOK
<1>5. AhTo(t, AhIdle)
  BY <1>1, AhIdleOK DEF AhTo
<1>6. AhQuiet(t, AhIdle)
  BY <1>1, <1>2, <1>3, <1>5, AhIdleOK DEF AhQuiet, Clears
<1>7. AhSerialOK'
  BY <1>1, <1>2, <1>3, <1>5, AhIdleOK, AhReads
<1>8. AhKeyRefs'
  <2>1. \A i \in 1 .. AhSets : Clones(ahThread[t], i) <=> Clones(AhIdle, i)
    BY <1>2, <1>3, AhIdleOK DEF Clones
  <2> QED
    BY <1>1, <1>5, <2>1, AhKeyRefsKeep
<1>9. ahValRef' \in [1 .. AhSets -> Int]
      /\ \A i \in 1 .. AhSets : ahValRef'[i] = IF i = n THEN ahValRef[i] - 1 ELSE ahValRef[i]
  <2>1. ahValRef' = [ahValRef EXCEPT ![n] = @ - 1]
    BY <1>2, <1>4 DEF Drop, Released
  <2> QED
    BY <2>1, AhTypes
<1>10. AhValRefs'
  <2> SUFFICES ASSUME NEW i \in 1 .. AhSets
               PROVE  ahValRef'[i] = Cardinality(AhValIn(i)') + Cardinality(AhKeepers(i)')
    BY DEF AhValRefs
  <2>1. AhValIn(i)' = AhValIn(i)
    BY <1>1 DEF AhValIn
  <2>2. ahValRef[i] = Cardinality(AhValIn(i)) + Cardinality(AhKeepers(i))
    BY DEF AhGood, AhValRefs
  <2>3. (t \in AhKeepers(i) <=> i = n) /\ ~Keeps(AhIdle, i)
    BY <1>2, <1>3, <1>4, AhIdleOK DEF AhKeepers, Keeps
  <2>4. AhKeepers(i)' = AhKeepers(i) \ {t}
    BY <1>5, <2>3, AhKeepersTo DEF AhGood
  <2>5. Cardinality(AhKeepers(i) \ {t}) = IF i = n THEN Cardinality(AhKeepers(i)) - 1
                                          ELSE Cardinality(AhKeepers(i))
    <3>1. CASE i = n
      BY <2>3, <3>1, AhCounted, FS_RemoveElement
    <3>2. CASE i # n
      <4>1. AhKeepers(i) \ {t} = AhKeepers(i)
        BY <2>3, <3>2
      <4> QED
        BY <3>2, <4>1
    <3> QED
      BY <3>1, <3>2
  <2>6. Cardinality(AhValIn(i)) \in Nat /\ Cardinality(AhKeepers(i)) \in Nat
    BY AhCounted
  <2> QED
    BY <1>9, <2>1, <2>2, <2>4, <2>5, <2>6
<1> QED
  BY <1>1, <1>6, <1>7, <1>8, <1>9, <1>10, AhTypes, AhQuietStep

(* Delete() and Cleanup() look at a bucket.                                *)
LEMMA AhWalks ==
    ASSUME AhGood, NEW t \in AhThreads, Walk(t)
    PROVE  AhGood'
<1>1. /\ UNCHANGED <<ahKey, ahVal, ahSetOf>> /\ ahSerial' = ahSerial
      /\ ahKeyRef' = ahKeyRef /\ ahValRef' = ahValRef /\ ahThread[t].at = "walk"
  BY DEF Walk
<1>2. PICK me \in AhRecord : me = ahThread[t]
  BY AhTypes
<1>3. /\ AhArgs(me) /\ me.at = "walk" /\ me.op \in {"delete", "cleanup"} /\ me.word = "key"
      /\ me.b \in AhBuckets /\ me.new = 0
  BY <1>1, <1>2, AhTypes, AhAtBucket DEF AhArgs
<1>4. /\ \A c, k : (Holds(c, k)' <=> Holds(c, k)) /\ (Available(c, k)' <=> Available(c, k))
      /\ \A k : Found(k)' = Found(k)
  BY <1>1, AhStill
<1>5. ahSerial => AhPath(me)
  BY <1>2 DEF AhGood, AhSerialOK
<1> DEFINE hit == IF me.op = "delete" THEN Holds(me.b, me.key) ELSE ahKey[me.b] # 0
<1>6. PICK r \in AhRecord :
        /\ AhTo(t, r) /\ AhArgs(r) /\ AhSees(r) /\ r.op # "set" /\ r.at # "hold"
        /\ ahSerial => AhPath(r)'
        /\ ahSerial => r.op \in {"set", "delete", "cleanup"} \/ \A k \in AhKeys : Found(k)' = ahMap'[k]
        /\ ahMap' \in [AhKeys -> Nat]
  <2>1. CASE hit
    <3>1. PICK r : r = [me EXCEPT !.at = "load"] /\ ahThread' = [ahThread EXCEPT ![t] = r]
      BY <1>2, <2>1 DEF Walk, AhGo
    <3>2. /\ r \in AhRecord /\ r.at = "load" /\ r.op = me.op /\ r.key = me.key
          /\ r.level = me.level /\ r.b = me.b /\ r.word = me.word /\ r.new = me.new
      BY <3>1 DEF AhRecord
    <3>3. AhArgs(r)
      BY <1>3, <3>2 DEF AhArgs
    <3>4. AhSees(r)
      BY <1>3, <2>1, <3>2 DEF AhSees
    <3>5. ahMap' = ahMap
      BY <1>2, <2>1 DEF Walk
    <3>6. ahSerial => AhPath(r)'
      BY <1>1, <1>3, <1>4, <1>5, <3>2, <3>5 DEF AhPath
    <3> QED
      BY <1>3, <3>1, <3>2, <3>3, <3>4, <3>5, <3>6, AhTypes DEF AhTo
  <2>2. CASE ~hit
    <3>1. ahThread' = [ahThread EXCEPT ![t] = NextBucket(t)] /\ ahMap' = Forgotten(t)
      BY <1>2, <2>2 DEF Walk, AhGo
    <3>2. PICK r : r = NextBucket(t)
      OBVIOUS
    <3>3. (me.op = "delete" => ~Holds(me.b, me.key)) /\ (me.op = "cleanup" => ahKey[me.b] = 0)
      BY <2>2
    <3>4. ahSerial => /\ AhPath(r)'
                      /\ r.op \in {"set", "delete", "cleanup"} \/ \A k \in AhKeys : Found(k)' = ahMap'[k]
      <4> SUFFICES ASSUME ahSerial
                   PROVE  /\ AhPath(r)'
                          /\ \/ r.op \in {"set", "delete", "cleanup"}
                             \/ \A k \in AhKeys : Found(k)' = ahMap'[k]
        OBVIOUS
      <4>1. AhPath(me)
        BY <1>5
      <4> QED
        BY <1>1, <1>2, <1>3, <1>4, <3>1, <3>2, <3>3, <4>1, AhBucketDone
    <3>5. r \in AhRecord /\ AhArgs(r) /\ AhSees(r) /\ r.op # "set" /\ r.at # "hold"
      <4>1. CASE r = AhIdle
        BY <4>1, AhIdleOK
      <4>2. CASE r # AhIdle
        <5>1. /\ r \in AhRecord /\ me.b + 1 \in AhBuckets
              /\ r.at = "walk" /\ r.op = me.op /\ r.key = me.key /\ r.b = me.b + 1
              /\ r.word = "key" /\ r.new = 0
          BY <1>2, <1>3, <3>2, <4>2, AhNextBucket
        <5> QED
          BY <1>3, <5>1 DEF AhArgs, AhSees
      <4> QED
        BY <4>1, <4>2
    <3>6. Forgotten(t) \in [AhKeys -> Nat]
      BY AhTypes DEF Forgotten
    <3> QED
      BY <3>1, <3>2, <3>4, <3>5, <3>6 DEF AhTo
  <2> QED
    BY <2>1, <2>2
<1>7. AhQuiet(t, r)
  BY <1>1, <1>2, <1>3, <1>6 DEF AhQuiet, Clears
<1>8. AhSerialOK'
  <2>1. AhWrites(t)
    BY <1>2, <1>3 DEF AhWrites
  <2> QED
    BY <1>1, <1>6, <2>1, AhWriteStep
<1>9. AhKeyRefs'
  <2>1. \A n \in 1 .. AhSets : Clones(ahThread[t], n) <=> Clones(r, n)
    BY <1>2, <1>3, <1>6 DEF Clones
  <2> QED
    BY <1>1, <1>6, <2>1, AhKeyRefsKeep
<1>10. AhValRefs'
  <2>1. \A n \in 1 .. AhSets : Keeps(ahThread[t], n) <=> Keeps(r, n)
    BY <1>2, <1>3, <1>6 DEF Keeps
  <2> QED
    BY <1>1, <1>6, <2>1, AhValRefsKeep
<1> QED
  BY <1>1, <1>6, <1>7, <1>8, <1>9, <1>10, AhTypes, AhQuietStep

(* Occupy() clones the key for a bucket that is available, ...             *)
LEMMA AhOccupies ==
    ASSUME AhGood, NEW t \in AhThreads, Occupy(t), Available(ahThread[t].b, ahThread[t].key)
    PROVE  AhGood'
<1>1. /\ UNCHANGED <<ahKey, ahVal, ahSetOf>> /\ ahSerial' = ahSerial /\ ahMap' = ahMap
      /\ ahValRef' = ahValRef /\ ahThread[t].at = "avail"
  BY DEF Occupy
<1>2. PICK me \in AhRecord : me = ahThread[t]
  BY AhTypes
<1>3. /\ AhArgs(me) /\ me.at = "avail" /\ me.op = "set" /\ me.word = "key"
      /\ me.new \in 1 .. Len(ahSetOf)
  BY <1>1, <1>2, AhTypes DEF AhArgs
<1>4. PICK r : /\ r = [me EXCEPT !.at = "load"] /\ ahThread' = [ahThread EXCEPT ![t] = r]
               /\ ahKeyRef' = [ahKeyRef EXCEPT ![me.new] = 1]
  BY <1>2 DEF Occupy, AhGo
<1>5. /\ r \in AhRecord /\ r.at = "load" /\ r.op = me.op /\ r.key = me.key
      /\ r.level = me.level /\ r.b = me.b /\ r.word = me.word /\ r.new = me.new
  BY <1>4 DEF AhRecord
<1>6. AhTo(t, r)
  BY <1>4, <1>5 DEF AhTo
<1>7. AhArgs(r)
  BY <1>3, <1>5 DEF AhArgs
<1>8. AhSees(r)
  BY <1>2, <1>3, <1>5 DEF AhSees
<1>9. AhQuiet(t, r)
  BY <1>1, <1>2, <1>3, <1>5, <1>6, <1>7, <1>8 DEF AhQuiet, Clears
<1>10. AhSerialOK'
  <2>1. ASSUME ahSerial PROVE AhPath(r)'
    <3>1. AhPath(me)
      BY <1>2, <2>1 DEF AhGood, AhSerialOK
    <3>2. /\ \A c, k : (Holds(c, k)' <=> Holds(c, k)) /\ (Available(c, k)' <=> Available(c, k))
          /\ \A k : Found(k)' = Found(k)
      BY <1>1, AhStill
    <3> QED
      BY <1>1, <1>5, <3>1, <3>2 DEF AhPath
  <2>2. AhWrites(t) /\ r.op \in {"set", "delete", "cleanup"}
    BY <1>2, <1>3, <1>5 DEF AhWrites
  <2> QED
    BY <1>1, <1>6, <2>1, <2>2, AhWriteStep
<1>11. me.new \in 1 .. AhSets
  BY <1>3, AhAssumption DEF AhGood, AhTypeOK
<1>12. ahKeyRef' \in [1 .. AhSets -> Int]
       /\ \A n \in 1 .. AhSets : ahKeyRef'[n] = IF n = me.new THEN 1 ELSE ahKeyRef[n]
  BY <1>4, <1>11, AhTypes
<1>13. AhKeyRefs'
  <2>1. ahThread'[t] = r /\ \A u \in AhThreads : u # t => ahThread'[u] = ahThread[u]
    BY <1>6, AhOthers DEF AhGood
  <2> SUFFICES ASSUME NEW n \in 1 .. AhSets
               PROVE  ahKeyRef'[n] = IF \/ \E c \in AhBuckets : ahKey[c] = n
                                        \/ \E u \in AhThreads : Clones(ahThread'[u], n) THEN 1 ELSE 0
    <3>1. \A u \in AhThreads, n \in 1 .. AhSets : Clones(ahThread[u], n)' <=> Clones(ahThread'[u], n)
      BY DEF Clones
    <3> QED
      BY <1>1, <3>1 DEF AhKeyRefs
  <2>2. CASE n = me.new
    <3>1. Clones(ahThread'[t], n)
      BY <1>3, <1>5, <2>1, <2>2 DEF Clones
    <3> QED
      BY <1>12, <2>2, <3>1
  <2>3. CASE n # me.new
    <3>1. \A u \in AhThreads : Clones(ahThread'[u], n) <=> Clones(ahThread[u], n)
      BY <1>2, <1>3, <1>5, <2>1, <2>3 DEF Clones
    <3>2. (\E u \in AhThreads : Clones(ahThread[u], n))
            <=> (\E u \in AhThreads : Clones(ahThread'[u], n))
      BY <3>1
    <3>3. ahKeyRef[n] = IF \/ \E c \in AhBuckets : ahKey[c] = n
                           \/ \E u \in AhThreads : Clones(ahThread[u], n) THEN 1 ELSE 0
      BY DEF AhGood, AhKeyRefs
    <3> QED
      BY <1>12, <2>3, <3>2, <3>3
  <2> QED
    BY <2>2, <2>3
<1>14. AhValRefs'
  <2>1. \A n \in 1 .. AhSets : Keeps(ahThread[t], n) <=> Keeps(r, n)
    BY <1>2, <1>3, <1>5 DEF Keeps
  <2> QED
    BY <1>1, <1>6, <2>1, AhValRefsKeep
<1> QED
  BY <1>1, <1>9, <1>10, <1>12, <1>13, <1>14, AhTypes, AhQuietStep

(* ... and otherwise goes to the next level, or gives up with nothing      *)
(* stored.                                                                 *)
LEMMA AhPassesOn ==
    ASSUME AhGood, NEW t \in AhThreads, Occupy(t), ~Available(ahThread[t].b, ahThread[t].key)
    PROVE  AhGood'
<1>1. /\ UNCHANGED <<ahKey, ahVal, ahSetOf>> /\ ahSerial' = ahSerial /\ ahMap' = ahMap
      /\ ahValRef' = ahValRef /\ ahThread[t].at = "avail"
  BY DEF Occupy
<1>2. PICK me \in AhRecord : me = ahThread[t]
  BY AhTypes
<1>3. /\ AhArgs(me) /\ me.at = "avail" /\ me.op = "set" /\ me.word = "key"
      /\ me.new \in 1 .. Len(ahSetOf) /\ me.level \in DOMAIN AhLevels
      /\ me.b = AhBucket(me.level, me.key) /\ me.key \in AhKeys
  BY <1>1, <1>2, AhTypes DEF AhArgs
<1>4. me.new \in 1 .. AhSets
  BY <1>3, AhAssumption DEF AhGood, AhTypeOK
<1>5. ahKeyRef[me.new] = 0
  <2>1. \A c \in AhBuckets : ahKey[c] # me.new
    BY <1>2, <1>3 DEF AhGood, AhFresh
  <2>2. \A u \in AhThreads : ~Clones(ahThread[u], me.new)
    BY <1>2, <1>3 DEF AhGood, AhFresh, Clones
  <2> QED
    BY <1>4, <2>1, <2>2 DEF AhGood, AhKeyRefs
<1>6. ahKeyRef' = ahKeyRef
  <2>1. PICK x : x = (IF me.level = Len(AhLevels) THEN 0 ELSE ahKeyRef[me.new])
                 /\ ahKeyRef' = [ahKeyRef EXCEPT ![me.new] = x]
    BY <1>2 DEF Occupy
  <2>2. x = ahKeyRef[me.new]
    BY <1>5, <2>1
  <2> QED
    BY <1>4, <2>1, <2>2, AhTypes
<1>7. /\ \A c, k : (Holds(c, k)' <=> Holds(c, k)) /\ (Available(c, k)' <=> Available(c, k))
      /\ \A k : Found(k)' = Found(k)
  BY <1>1, AhStill
<1>8. ahSerial => AhPath(me)
  BY <1>2 DEF AhGood, AhSerialOK
<1>9. ahThread' = [ahThread EXCEPT ![t] = NextLevel(t, "avail")]
  BY <1>2 DEF Occupy, AhGo
<1>10. PICK r \in AhRecord :
        /\ AhTo(t, r) /\ AhArgs(r) /\ AhSees(r) /\ r.at \in {"idle", "avail"}
        /\ r.op = "set" => r.new = me.new
        /\ r.word = "key"
        /\ ahSerial => AhPath(r)'
        /\ ahSerial => r.op \in {"set", "delete", "cleanup"} \/ \A k \in AhKeys : Found(k)' = ahMap'[k]
  <2>1. CASE NextLevel(t, "avail") = AhIdle
    <3>1. ahSerial => \A k \in AhKeys : Found(k)' = ahMap'[k]
      BY <1>1, <1>3, <1>7, <1>8 DEF AhPath
    <3>2. AhPath(AhIdle)'
      BY AhIdleOK DEF AhPath, AhIdle
    <3> QED
      BY <1>9, <2>1, <3>1, <3>2, AhIdleOK DEF AhTo
  <2>2. CASE NextLevel(t, "avail") # AhIdle
    <3>1. PICK r \in AhRecord :
            /\ me.level + 1 \in DOMAIN AhLevels
            /\ r = NextLevel(t, "avail") /\ r.at = "avail" /\ r.op = me.op /\ r.key = me.key
            /\ r.level = me.level + 1 /\ r.b = AhBucket(r.level, r.key)
            /\ r.word = "key" /\ r.new = me.new
      BY <1>2, <1>3, <2>2, AhNextLevel
    <3>2. AhArgs(r) /\ AhSees(r)
      BY <1>3, <3>1 DEF AhArgs, AhSees
    <3>3. ASSUME ahSerial PROVE AhPath(r)'
      <4>1. ASSUME NEW m \in 1 .. r.level - 1 PROVE ~Available(AhBucket(m, r.key), r.key)'
        <5>1. m = me.level \/ m \in 1 .. me.level - 1
          BY <1>3, <3>1, AhAssumption, SMTT(60)
        <5>2. ~Available(AhBucket(m, me.key), me.key)
          BY <1>2, <1>3, <1>8, <3>3, <5>1 DEF AhPath
        <5> QED
          BY <1>7, <3>1, <5>2
      <4>2. \A k \in AhKeys : Found(k)' = ahMap'[k]
        BY <1>1, <1>3, <1>7, <1>8, <3>3 DEF AhPath
      <4> QED
        BY <1>3, <3>1, <4>1, <4>2 DEF AhPath
    <3> QED
      BY <1>3, <1>9, <3>1, <3>2, <3>3 DEF AhTo
  <2> QED
    BY <2>1, <2>2
<1>11. AhQuiet(t, r)
  BY <1>1, <1>2, <1>3, <1>10 DEF AhQuiet, Clears
<1>12. AhSerialOK'
  <2>1. AhWrites(t)
    BY <1>2, <1>3 DEF AhWrites
  <2> QED
    BY <1>1, <1>10, <2>1, AhWriteStep
<1>13. AhKeyRefs'
  <2>1. \A n \in 1 .. AhSets : Clones(ahThread[t], n) <=> Clones(r, n)
    BY <1>2, <1>3, <1>10 DEF Clones
  <2> QED
    BY <1>1, <1>6, <1>10, <2>1, AhKeyRefsKeep
<1>14. AhValRefs'
  <2>1. \A n \in 1 .. AhSets : Keeps(ahThread[t], n) <=> Keeps(r, n)
    BY <1>2, <1>3, <1>10 DEF Keeps
  <2> QED
    BY <1>1, <1>10, <2>1, AhValRefsKeep
<1> QED
  BY <1>1, <1>6, <1>11, <1>12, <1>13, <1>14, AhTypes, AhQuietStep

(* Nobody else is between two accesses to the bucket t is at, so all are   *)
(* still right about theirs after t has written it.                        *)
LEMMA AhAlone ==
    ASSUME AhGood, NEW t \in AhThreads, NEW r, AhTo(t, r), ~Race(t, ahThread[t].b),
           ahSetOf' = ahSetOf,
           \A c \in AhBuckets : c # ahThread[t].b => ahKey'[c] = ahKey[c] /\ ahVal'[c] = ahVal[c],
           AhArgs(r)', AhSees(r)'
    PROVE  AhThreadsOK'
<1>1. ahThread'[t] = r /\ \A u \in AhThreads : u # t => ahThread'[u] = ahThread[u]
  BY AhOthers DEF AhGood
<1>2. AhGrows
  BY DEF AhGrows, AhGood, AhTypeOK
<1>3. ASSUME NEW u \in AhThreads, u # t PROVE AhArgs(ahThread[u])' /\ AhSees(ahThread[u])'
  <2>1. PICK q \in AhRecord : q = ahThread[u] /\ AhArgs(q) /\ AhSees(q)
    BY AhTypes
  <2>2. AhArgs(q)'
    BY <1>2, <2>1, AhArgsKeep
  <2>3. q.at \in {"load", "cas", "read"} =>
          /\ ahKey'[q.b] = ahKey[q.b] /\ ahVal'[q.b] = ahVal[q.b]
          /\ ahKey[q.b] \in 0 .. Len(ahSetOf)
    <3> SUFFICES ASSUME q.at \in {"load", "cas", "read"}
                 PROVE  /\ ahKey'[q.b] = ahKey[q.b] /\ ahVal'[q.b] = ahVal[q.b]
                        /\ ahKey[q.b] \in 0 .. Len(ahSetOf)
      OBVIOUS
    <3>1. q.b \in AhBuckets /\ ahKey[q.b] \in 0 .. Len(ahSetOf)
      BY <2>1, AhBetween DEF AhGood
    <3>2. q.b # ahThread[t].b
      BY <1>3, <2>1 DEF Race
    <3> QED
      BY <3>1, <3>2
  <2>4. AhSees(q)'
    BY <1>2, <2>1, <2>3, AhSeesKeep
  <2>5. ahThread'[u] = q
    BY <1>1, <1>3, <2>1
  <2> QED
    BY <2>2, <2>4, <2>5 DEF AhArgs, AhSees
<1>4. AhArgs(ahThread[t])' /\ AhSees(ahThread[t])'
  BY <1>1 DEF AhArgs, AhSees
<1> QED
  BY <1>3, <1>4 DEF AhThreadsOK

(* Everything Set() and Delete() do with the key of a bucket.              *)
LEMMA AhWritesKey ==
    ASSUME AhGood, NEW t \in AhThreads, ~ahRaced, ExchangeKey(t), ~ahRaced'
    PROVE  AhGood'
<1>1. PICK me \in AhRecord : me = ahThread[t] /\ AhArgs(me) /\ AhSees(me)
  BY AhTypes
<1>2. /\ me.at = "cas" /\ me.word = "key" /\ me.op \in {"set", "delete", "cleanup"}
      /\ me.old = ahKey[me.b]
  BY <1>1 DEF ExchangeKey, AhArgs, AhSees
<1>3. PICK B \in AhBuckets : B = me.b
  BY <1>1, <1>2, AhAtBucket
<1>4. PICK new \in 0 .. Len(ahSetOf), old \in 0 .. Len(ahSetOf) : new = me.new /\ old = me.old
  <2>1. me.new \in 0 .. Len(ahSetOf)
    BY <1>1, <1>2 DEF AhArgs, AhGood, AhTypeOK
  <2>2. me.old \in 0 .. Len(ahSetOf)
    BY <1>2, <1>3 DEF AhGood, AhTypeOK
  <2> QED
    BY <2>1, <2>2
<1>5. /\ ahKey' = [ahKey EXCEPT ![B] = new] /\ ahKeyRef' = Released(ahKeyRef, old)
      /\ ahValRef' = IF me.op = "set" THEN [ahValRef EXCEPT ![new] = 1] ELSE ahValRef
      /\ ahVal' = ahVal /\ ahSetOf' = ahSetOf /\ ahMap' = ahMap /\ ahSerial' = ahSerial
      /\ ~Race(t, B)
  BY <1>1, <1>2, <1>3, <1>4 DEF ExchangeKey
<1>6. PICK r : r = [me EXCEPT !.at = "load", !.word = "value", !.old = 0]
               /\ ahThread' = [ahThread EXCEPT ![t] = r]
  BY <1>1, <1>2 DEF ExchangeKey, AhGo
<1>7. /\ r \in AhRecord /\ r.at = "load" /\ r.word = "value" /\ r.op = me.op /\ r.key = me.key
      /\ r.level = me.level /\ r.b = me.b /\ r.new = me.new
  BY <1>6 DEF AhRecord
<1>8. AhTo(t, r)
  BY <1>6, <1>7 DEF AhTo
<1>9. ahThread'[t] = r /\ \A u \in AhThreads : u # t => ahThread'[u] = ahThread[u]
  BY <1>8, AhOthers DEF AhGood
<1>10. ahKey'[B] = new /\ \A c \in AhBuckets : c # B => ahKey'[c] = ahKey[c]
  BY <1>5 DEF AhGood, AhTypeOK
<1>11. /\ me.op = "set" => new \in 1 .. Len(ahSetOf) /\ ahSetOf[new] = me.key /\ Available(B, me.key)
       /\ me.op # "set" => new = 0
       /\ me.op = "delete" => Holds(B, me.key)
  BY <1>1, <1>2, <1>3, <1>4 DEF AhArgs, AhSees
<1>12. new # 0 => /\ me.op = "set"
                  /\ \A c \in AhBuckets : ahKey[c] # new /\ ahVal[c] # new
                  /\ \A u \in AhThreads : /\ ahThread[u].at = "hold" => ahThread[u].old # new
                                          /\ ahThread[u].op = "set" /\ u # t => ahThread[u].new # new
  BY <1>1, <1>2, <1>4, <1>11 DEF AhGood, AhFresh
<1>13. Len(ahSetOf) \in Nat /\ 1 .. Len(ahSetOf) \subseteq 1 .. AhSets
  BY AhAssumption DEF AhGood, AhTypeOK
<1>14. AhThreadsOK'
  <2>1. AhArgs(r)'
    <3>1. AhArgs(r)
      BY <1>1, <1>2, <1>7 DEF AhArgs
    <3> QED
      BY <1>5, <3>1 DEF AhArgs
  <2>2. AhSees(r)'
    BY <1>3, <1>4, <1>7, <1>10, <1>11 DEF AhSees
  <2>3. ~Race(t, ahThread[t].b)
    BY <1>1, <1>3, <1>5
  <2>4. \A c \in AhBuckets : c # ahThread[t].b => ahKey'[c] = ahKey[c] /\ ahVal'[c] = ahVal[c]
    BY <1>1, <1>3, <1>5, <1>10
  <2> QED
    BY <1>5, <1>8, <2>1, <2>2, <2>3, <2>4, AhAlone
<1>15. AhFresh'
  <2> SUFFICES ASSUME NEW u \in AhThreads, ahThread'[u].op = "set"
               PROVE  /\ \A c \in AhBuckets : /\ ahVal[c] # ahThread'[u].new
                                              /\ ahThread'[u].word = "key" => ahKey'[c] # ahThread'[u].new
                      /\ \A w \in AhThreads :
                           /\ ahThread'[w].at = "hold" => ahThread'[w].old # ahThread'[u].new
                           /\ ahThread'[w].op = "set" /\ w # u => ahThread'[w].new # ahThread'[u].new
    BY <1>5 DEF AhFresh
  <2>1. ahThread[u].op = "set" /\ ahThread'[u].new = ahThread[u].new
        /\ (u # t => ahThread'[u].word = ahThread[u].word)
    BY <1>1, <1>7, <1>9
  <2>2. /\ \A c \in AhBuckets : /\ ahVal[c] # ahThread[u].new
                                /\ ahThread[u].word = "key" => ahKey[c] # ahThread[u].new
        /\ \A w \in AhThreads :
             /\ ahThread[w].at = "hold" => ahThread[w].old # ahThread[u].new
             /\ ahThread[w].op = "set" /\ w # u => ahThread[w].new # ahThread[u].new
    BY <2>1 DEF AhGood, AhFresh
  <2>3. ASSUME NEW c \in AhBuckets, ahThread'[u].word = "key" PROVE ahKey'[c] # ahThread'[u].new
    <3>1. u # t
      BY <1>7, <1>9, <2>3
    <3>2. CASE c # B
      BY <1>10, <2>1, <2>2, <2>3, <3>1, <3>2
    <3>3. CASE c = B
      <4>1. ahThread[u].new # 0
        BY <2>1, AhTypes, <1>13 DEF AhArgs
      <4>2. new # 0 => ahThread[u].new # new
        BY <1>12, <2>1, <3>1
      <4> QED
        BY <1>10, <2>1, <3>3, <4>1, <4>2
    <3> QED
      BY <3>2, <3>3
  <2>4. ASSUME NEW w \in AhThreads
        PROVE  /\ ahThread'[w].at = "hold" => ahThread'[w].old # ahThread'[u].new
               /\ ahThread'[w].op = "set" /\ w # u => ahThread'[w].new # ahThread'[u].new
    <3>1. CASE w # t
      BY <1>9, <2>1, <2>2, <3>1
    <3>2. CASE w = t
      BY <1>1, <1>7, <1>9, <2>1, <2>2, <3>2
    <3> QED
      BY <3>1, <3>2
  <2> QED
    BY <2>1, <2>2, <2>3, <2>4
<1>16. AhBucketsOK'
  <2>1. ASSUME NEW c \in AhBuckets, ahKey'[c] = 0, ahVal[c] # 0
        PROVE  \E u \in AhThreads : Clears(ahThread'[u], c)
    <3>1. CASE c = B
      <4>1. me.op \in {"delete", "cleanup"}
        BY <1>2, <1>10, <1>11, <1>13, <2>1, <3>1
      <4>2. Clears(r, c)
        BY <1>3, <1>7, <3>1, <4>1 DEF Clears
      <4> QED
        BY <1>9, <4>2
    <3>2. CASE c # B
      <4>1. PICK u \in AhThreads : Clears(ahThread[u], c)
        BY <1>10, <2>1, <3>2 DEF AhGood, AhBucketsOK
      <4>2. u # t
        BY <1>1, <1>3, <3>2, <4>1 DEF Clears
      <4> QED
        BY <1>9, <4>1, <4>2
    <3> QED
      BY <3>1, <3>2
  <2>2. ASSUME NEW c \in AhBuckets, ahKey'[c] # 0, ahVal[c] # 0
        PROVE  ahSetOf[ahKey'[c]] = ahSetOf[ahVal[c]]
    <3>1. CASE c # B
      BY <1>10, <2>2, <3>1 DEF AhGood, AhBucketsOK
    <3>2. CASE c = B
      <4>1. new # 0 /\ ahKey'[c] = new
        BY <1>10, <2>2, <3>2
      <4>2. ahSetOf[new] = me.key /\ Available(B, me.key)
        BY <1>11, <1>12, <4>1
      <4>3. ahKey[B] # 0
        <5> SUFFICES ASSUME ahKey[B] = 0 PROVE FALSE
          OBVIOUS
        <5>1. PICK u \in AhThreads : Clears(ahThread[u], B)
          BY <2>2, <3>2 DEF AhGood, AhBucketsOK
        <5>2. u # t
          BY <1>1, <1>2, <5>1 DEF Clears
        <5> QED
          BY <1>5, <5>1, <5>2 DEF Race, Clears
      <4>4. ahSetOf[ahKey[B]] = me.key
        BY <4>2, <4>3 DEF Available, Holds
      <4>5. ahSetOf[ahKey[B]] = ahSetOf[ahVal[B]]
        BY <2>2, <3>2, <4>3 DEF AhGood, AhBucketsOK
      <4> QED
        BY <3>2, <4>1, <4>2, <4>4, <4>5
    <3> QED
      BY <3>1, <3>2
  <2>3. ASSUME NEW c \in AhBuckets, NEW d \in AhBuckets, ahKey'[c] # 0, ahKey'[d] = ahKey'[c]
        PROVE  c = d
    <3>1. \A x, y \in AhBuckets : ahKey[x] # 0 /\ ahKey[y] = ahKey[x] => x = y
      BY DEF AhGood, AhBucketsOK
    <3>2. CASE c # B /\ d # B
      BY <1>10, <2>3, <3>1, <3>2
    <3>3. CASE c = B /\ d # B
      BY <1>10, <1>12, <2>3, <3>3
    <3>4. CASE c # B /\ d = B
      BY <1>10, <1>12, <2>3, <3>4
    <3> QED
      BY <3>2, <3>3, <3>4
  <2>4. \A u \in AhThreads, c \in AhBuckets : Clears(ahThread[u], c)' <=> Clears(ahThread'[u], c)
    BY DEF Clears
  <2> QED
    BY <1>5, <2>1, <2>2, <2>3, <2>4, Zenon DEF AhBucketsOK
<1>17. /\ ahKeyRef' \in [1 .. AhSets -> Int]
       /\ \A n \in 1 .. AhSets : ahKeyRef'[n] = IF n = old THEN ahKeyRef[n] - 1 ELSE ahKeyRef[n]
  <2>1. CASE old = 0
    BY <1>5, <2>1, AhTypes DEF Released
  <2>2. CASE old # 0
    <3>1. old \in 1 .. AhSets
      BY <1>13, <2>2
    <3> QED
      BY <1>5, <2>2, <3>1, AhTypes, SMTT(60) DEF Released
  <2> QED
    BY <2>1, <2>2
<1>18. AhKeyRefs'
  <2> SUFFICES ASSUME NEW n \in 1 .. AhSets
               PROVE  ahKeyRef'[n] = IF \/ \E c \in AhBuckets : ahKey'[c] = n
                                        \/ \E u \in AhThreads : Clones(ahThread'[u], n) THEN 1 ELSE 0
    <3>1. \A u \in AhThreads, n \in 1 .. AhSets : Clones(ahThread[u], n)' <=> Clones(ahThread'[u], n)
      BY DEF Clones
    <3> QED
      BY <3>1 DEF AhKeyRefs
  <2>1. ahKeyRef[n] = IF \/ \E c \in AhBuckets : ahKey[c] = n
                         \/ \E u \in AhThreads : Clones(ahThread[u], n) THEN 1 ELSE 0
    BY DEF AhGood, AhKeyRefs
  <2>2. n # 0 /\ ahKey[B] = old
    BY <1>2, <1>3, <1>4, AhAssumption
  <2>3. CASE n = new
    <3>1. n # old
      BY <1>12, <2>2, <2>3
    <3>2. Clones(ahThread[t], n)
      BY <1>1, <1>2, <1>4, <1>12, <2>2, <2>3 DEF Clones
    <3>3. ahKeyRef[n] = 1
      BY <2>1, <3>2
    <3> QED
      BY <1>10, <1>17, <2>3, <3>1, <3>3
  <2>4. CASE n = old /\ n # new
    <3>1. ahKeyRef[n] = 1
      BY <2>1, <2>2, <2>4
    <3>2. \A c \in AhBuckets : ahKey'[c] # n
      <4>1. \A c \in AhBuckets : ahKey[c] = n => c = B
        BY <2>2, <2>4 DEF AhGood, AhBucketsOK
      <4> QED
        BY <1>10, <2>4, <4>1
    <3>3. \A u \in AhThreads : ~Clones(ahThread'[u], n)
      <4> TAKE u \in AhThreads
      <4>1. CASE u = t
        BY <1>7, <1>9, <4>1 DEF Clones
      <4>2. CASE u # t
        BY <1>9, <2>2, <2>4, <4>2 DEF Clones, AhGood, AhFresh
      <4> QED
        BY <4>1, <4>2
    <3> QED
      BY <1>17, <2>4, <3>1, <3>2, <3>3
  <2>5. CASE n # old /\ n # new
    <3>1. (\E c \in AhBuckets : ahKey'[c] = n) <=> (\E c \in AhBuckets : ahKey[c] = n)
      BY <1>10, <2>2, <2>5
    <3>2. \A u \in AhThreads : Clones(ahThread'[u], n) <=> Clones(ahThread[u], n)
      BY <1>1, <1>4, <1>7, <1>9, <2>5 DEF Clones
    <3>3. (\E u \in AhThreads : Clones(ahThread'[u], n))
            <=> (\E u \in AhThreads : Clones(ahThread[u], n))
      BY <3>2
    <3> QED
      BY <1>17, <2>1, <2>5, <3>1, <3>3
  <2> QED
    BY <2>3, <2>4, <2>5
<1>19. AhValRefs' /\ ahValRef' \in [1 .. AhSets -> Int]
  <2>1. CASE me.op # "set"
    <3>1. ahValRef' = ahValRef
      BY <1>5, <2>1
    <3>2. \A n \in 1 .. AhSets : Keeps(ahThread[t], n) <=> Keeps(r, n)
      BY <1>1, <1>2, <1>7, <2>1 DEF Keeps
    <3> QED
      BY <1>5, <1>8, <3>1, <3>2, AhValRefsKeep, AhTypes
  <2>2. CASE me.op = "set"
    <3>1. new \in 1 .. AhSets /\ new # 0
      BY <1>11, <1>13, <2>2
    <3>2. /\ ahValRef' \in [1 .. AhSets -> Int]
          /\ \A n \in 1 .. AhSets : ahValRef'[n] = IF n = new THEN 1 ELSE ahValRef[n]
      BY <1>5, <2>2, <3>1, AhTypes
    <3>3. ASSUME NEW n \in 1 .. AhSets
          PROVE  ahValRef'[n] = Cardinality(AhValIn(n)') + Cardinality(AhKeepers(n)')
      <4>1. AhValIn(n)' = AhValIn(n)
        BY <1>5 DEF AhValIn
      <4>2. AhKeepers(n)' = IF Keeps(r, n) THEN AhKeepers(n) \union {t} ELSE AhKeepers(n) \ {t}
        BY <1>8, AhKeepersTo DEF AhGood
      <4>3. Keeps(r, n) <=> n = new
        BY <1>4, <1>7, <2>2 DEF Keeps
      <4>4. CASE n = new
        <5>1. AhValIn(n) = {}
          BY <1>12, <3>1, <4>4 DEF AhValIn
        <5>2. AhKeepers(n) \union {t} = {t}
          BY <1>12, <3>1, <4>4 DEF AhKeepers, Keeps
        <5>3. AhValIn(n)' = {} /\ AhKeepers(n)' = {t}
          BY <4>1, <4>2, <4>3, <4>4, <5>1, <5>2
        <5>4. Cardinality({t}) = 1
          BY FS_Singleton
        <5>5. PICK a, b : a = AhValIn(n)' /\ b = AhKeepers(n)'
          OBVIOUS
        <5>6. Cardinality(a) = 0 /\ Cardinality(b) = 1
          BY <5>3, <5>4, <5>5, FS_EmptySet
        <5>7. ahValRef'[n] = 1
          BY <3>2, <4>4
        <5> QED
          BY <5>5, <5>6, <5>7
      <4>5. CASE n # new
        <5>1. t \notin AhKeepers(n)
          BY <1>1, <1>2 DEF AhKeepers, Keeps
        <5>2. AhKeepers(n)' = AhKeepers(n)
          BY <4>2, <4>3, <4>5, <5>1
        <5>3. ahValRef[n] = Cardinality(AhValIn(n)) + Cardinality(AhKeepers(n))
          BY DEF AhGood, AhValRefs
        <5> QED
          BY <3>2, <4>1, <4>5, <5>2, <5>3
      <4> QED
        BY <4>4, <4>5
    <3> QED
      BY <3>2, <3>3 DEF AhValRefs
  <2> QED
    BY <2>1, <2>2
<1>20. AhSerialOK'
  <2>1. ASSUME ahSerial PROVE AhPath(r)'
    <3>0. AhPath(me)
      BY <1>1, <2>1 DEF AhGood, AhSerialOK
    <3>1. ASSUME NEW c \in AhBuckets, c # B, NEW k
          PROVE  (Holds(c, k)' <=> Holds(c, k)) /\ (Available(c, k)' <=> Available(c, k))
      BY <1>5, <1>10, <3>1 DEF Holds, Available
    <3>2. ASSUME NEW k, k # me.key, me.op # "cleanup" PROVE ~Holds(B, k) /\ ~Holds(B, k)'
      <4>1. ~Holds(B, k)
        BY <1>2, <1>11, <3>2 DEF Holds, Available
      <4>2. ~Holds(B, k)'
        BY <1>2, <1>5, <1>10, <1>11, <3>2 DEF Holds
      <4> QED
        BY <4>1, <4>2
    <3>3. ASSUME me.op # "cleanup", NEW k \in AhKeys, k # me.key PROVE Found(k)' = ahMap'[k]
      <4>1. \A l \in DOMAIN AhLevels : /\ Holds(AhBucket(l, k), k)' <=> Holds(AhBucket(l, k), k)
                                       /\ Holds(AhBucket(l, k), k) =>
                                            ahVal'[AhBucket(l, k)] = ahVal[AhBucket(l, k)]
        <5> TAKE l \in DOMAIN AhLevels
        <5>1. PICK c \in AhBuckets : c = AhBucket(l, k)
          BY AhInTable, AhAssumption
        <5>2. Holds(c, k)' <=> Holds(c, k)
          BY <3>1, <3>2, <3>3
        <5> QED
          BY <1>5, <5>1, <5>2
      <4>2. Found(k)' = Found(k)
        BY <4>1, AhFoundKeep
      <4> QED
        BY <1>2, <1>5, <3>0, <3>3, <4>2 DEF AhPath
    <3>4. ASSUME me.op = "set", NEW m \in 1 .. me.level - 1
          PROVE  ~Available(AhBucket(m, me.key), me.key)'
      <4>1. m \in DOMAIN AhLevels /\ me.key \in Nat
        BY <1>1, <3>4, AhAssumption, SMTT(60) DEF AhArgs
      <4>2. PICK c \in AhBuckets : c = AhBucket(m, me.key)
        BY <4>1, AhInTable
      <4>3. ~Available(c, me.key)
        BY <3>0, <3>4, <4>2 DEF AhPath
      <4>4. c # B
        BY <1>11, <3>4, <4>3
      <4> QED
        BY <3>1, <4>2, <4>3, <4>4
    <3>5. ASSUME me.op = "delete", NEW c \in AhBuckets, c < me.b PROVE ~Holds(c, me.key)'
      <4>1. c # B
        BY <1>3, <3>5, AhRange
      <4> QED
        BY <3>0, <3>1, <3>5, <4>1 DEF AhPath
    <3>6. ASSUME me.op = "cleanup", NEW c \in AhBuckets, c < me.b PROVE ahKey'[c] = 0
      <4>1. c # B
        BY <1>3, <3>6, AhRange
      <4> QED
        BY <1>10, <3>0, <3>6, <4>1 DEF AhPath
    <3> QED
      BY <1>2, <1>7, <3>3, <3>4, <3>5, <3>6 DEF AhPath
  <2>2. AhWrites(t) /\ r.op \in {"set", "delete", "cleanup"}
    BY <1>1, <1>2, <1>7 DEF AhWrites
  <2> QED
    BY <1>5, <1>8, <2>1, <2>2, AhWriteStep
<1>21. AhTypeOK'
  <2>1. ahKey' \in [AhBuckets -> 0 .. Len(ahSetOf)]
    BY <1>5 DEF AhGood, AhTypeOK
  <2>2. ahThread' \in [AhThreads -> AhRecord]
    BY <1>8, AhOthers DEF AhGood
  <2> QED
    BY <1>5, <1>17, <1>19, <2>1, <2>2 DEF AhGood, AhTypeOK
<1> QED
  BY <1>14, <1>15, <1>16, <1>18, <1>19, <1>20, <1>21 DEF AhGood

(* Everything Set() and Delete() do with the value of a bucket.            *)
LEMMA AhWritesValue ==
    ASSUME AhGood, NEW t \in AhThreads, ~ahRaced, ExchangeValue(t), ~ahRaced'
    PROVE  AhGood'
<1>1. PICK me \in AhRecord : me = ahThread[t] /\ AhArgs(me) /\ AhSees(me)
  BY AhTypes
<1>2. /\ me.at = "cas" /\ me.word = "value" /\ me.op \in {"set", "delete", "cleanup"}
      /\ me.old = ahVal[me.b]
  BY <1>1 DEF ExchangeValue, AhArgs, AhSees
<1>3. PICK B \in AhBuckets : B = me.b
  BY <1>1, <1>2, AhAtBucket
<1>4. PICK new \in 0 .. Len(ahSetOf), old \in 0 .. Len(ahSetOf) : new = me.new /\ old = me.old
  <2>1. me.new \in 0 .. Len(ahSetOf)
    BY <1>1, <1>2 DEF AhArgs, AhGood, AhTypeOK
  <2>2. me.old \in 0 .. Len(ahSetOf)
    BY <1>2, <1>3 DEF AhGood, AhTypeOK
  <2> QED
    BY <2>1, <2>2
<1>5. /\ ahVal' = [ahVal EXCEPT ![B] = new] /\ ahValRef' = Released(ahValRef, old)
      /\ ahMap' = IF me.op # "set" THEN Forgotten(t)
                  ELSE IF ahSerial THEN [ahMap EXCEPT ![me.key] = new] ELSE ahMap
      /\ ahKey' = ahKey /\ ahKeyRef' = ahKeyRef /\ ahSetOf' = ahSetOf /\ ahSerial' = ahSerial
      /\ ~Race(t, B)
  BY <1>1, <1>2, <1>3, <1>4 DEF ExchangeValue
<1>6. PICK r : /\ r = IF me.op = "set" THEN AhIdle ELSE NextBucket(t)
               /\ ahThread' = [ahThread EXCEPT ![t] = r]
  BY <1>1, <1>2 DEF ExchangeValue, AhGo
<1>7. r \in AhRecord /\ r.at \in {"idle", "walk"} /\ r.op # "set" /\ r.word = "key" /\ AhArgs(r)
  <2>1. CASE r = AhIdle
    BY <2>1, AhIdleOK
  <2>2. CASE r # AhIdle
    <3>1. me.op \in {"delete", "cleanup"} /\ r = NextBucket(t)
      BY <1>2, <1>6, <2>2
    <3>2. /\ me.b + 1 \in AhBuckets /\ r \in AhRecord /\ r.at = "walk" /\ r.op = me.op
          /\ r.key = me.key /\ r.b = me.b + 1 /\ r.word = "key" /\ r.new = 0
      BY <1>1, <2>2, <3>1, AhNextBucket
    <3>3. AhArgs(r)
      BY <1>1, <3>1, <3>2 DEF AhArgs
    <3> QED
      BY <3>1, <3>2, <3>3
  <2> QED
    BY <2>1, <2>2
<1>8. AhTo(t, r)
  BY <1>6, <1>7 DEF AhTo
<1>9. ahThread'[t] = r /\ \A u \in AhThreads : u # t => ahThread'[u] = ahThread[u]
  BY <1>8, AhOthers DEF AhGood
<1>10. ahVal'[B] = new /\ \A c \in AhBuckets : c # B => ahVal'[c] = ahVal[c]
  BY <1>5 DEF AhGood, AhTypeOK
<1>11. /\ me.op = "set" => new \in 1 .. Len(ahSetOf) /\ ahSetOf[new] = me.key /\ ahKey[B] = new
       /\ me.op # "set" => new = 0 /\ ahKey[B] = 0
  BY <1>1, <1>2, <1>3, <1>4 DEF AhArgs, AhSees
<1>12. new # 0 => /\ me.op = "set"
                  /\ \A c \in AhBuckets : ahVal[c] # new
                  /\ \A u \in AhThreads : /\ ahThread[u].at = "hold" => ahThread[u].old # new
                                          /\ ahThread[u].op = "set" /\ u # t => ahThread[u].new # new
  BY <1>1, <1>2, <1>4, <1>11 DEF AhGood, AhFresh
<1>13. Len(ahSetOf) \in Nat /\ 1 .. Len(ahSetOf) \subseteq 1 .. AhSets
  BY AhAssumption DEF AhGood, AhTypeOK
<1>14. AhThreadsOK'
  <2>1. AhArgs(r)'
    BY <1>5, <1>7 DEF AhArgs
  <2>2. AhSees(r)'
    BY <1>7 DEF AhSees
  <2>3. ~Race(t, ahThread[t].b)
    BY <1>1, <1>3, <1>5
  <2>4. \A c \in AhBuckets : c # ahThread[t].b => ahKey'[c] = ahKey[c] /\ ahVal'[c] = ahVal[c]
    BY <1>1, <1>3, <1>5, <1>10
  <2> QED
    BY <1>5, <1>8, <2>1, <2>2, <2>3, <2>4, AhAlone
<1>15. AhFresh'
  <2> SUFFICES ASSUME NEW u \in AhThreads, ahThread'[u].op = "set"
               PROVE  /\ \A c \in AhBuckets : /\ ahVal'[c] # ahThread'[u].new
                                              /\ ahThread'[u].word = "key" => ahKey[c] # ahThread'[u].new
                      /\ \A w \in AhThreads :
                           /\ ahThread'[w].at = "hold" => ahThread'[w].old # ahThread'[u].new
                           /\ ahThread'[w].op = "set" /\ w # u => ahThread'[w].new # ahThread'[u].new
    BY <1>5 DEF AhFresh
  <2>1. u # t /\ ahThread'[u] = ahThread[u]
    BY <1>7, <1>9
  <2>2. /\ \A c \in AhBuckets : /\ ahVal[c] # ahThread[u].new
                                /\ ahThread[u].word = "key" => ahKey[c] # ahThread[u].new
        /\ \A w \in AhThreads :
             /\ ahThread[w].at = "hold" => ahThread[w].old # ahThread[u].new
             /\ ahThread[w].op = "set" /\ w # u => ahThread[w].new # ahThread[u].new
    BY <2>1 DEF AhGood, AhFresh
  <2>3. ASSUME NEW c \in AhBuckets PROVE ahVal'[c] # ahThread'[u].new
    <3>1. CASE c # B
      BY <1>10, <2>1, <2>2, <3>1
    <3>2. CASE c = B
      <4>1. ahThread[u].new # 0
        BY <2>1, AhTypes, <1>13 DEF AhArgs
      <4>2. new # 0 => ahThread[u].new # new
        BY <1>12, <2>1
      <4> QED
        BY <1>10, <2>1, <3>2, <4>1, <4>2
    <3> QED
      BY <3>1, <3>2
  <2>4. ASSUME NEW w \in AhThreads
        PROVE  /\ ahThread'[w].at = "hold" => ahThread'[w].old # ahThread'[u].new
               /\ ahThread'[w].op = "set" /\ w # u => ahThread'[w].new # ahThread'[u].new
    <3>1. CASE w # t
      BY <1>9, <2>1, <2>2, <3>1
    <3>2. CASE w = t
      BY <1>7, <1>9, <3>2
    <3> QED
      BY <3>1, <3>2
  <2> QED
    BY <2>1, <2>2, <2>3, <2>4
<1>16. AhBucketsOK'
  <2>1. ASSUME NEW c \in AhBuckets, ahKey[c] = 0, ahVal'[c] # 0
        PROVE  \E u \in AhThreads : Clears(ahThread'[u], c)
    <3>1. c # B
      BY <1>2, <1>10, <1>11, <1>13, <2>1
    <3>2. PICK u \in AhThreads : Clears(ahThread[u], c)
      BY <1>10, <2>1, <3>1 DEF AhGood, AhBucketsOK
    <3>3. u # t
      BY <1>1, <1>3, <3>1, <3>2 DEF Clears
    <3> QED
      BY <1>9, <3>2, <3>3
  <2>2. ASSUME NEW c \in AhBuckets, ahKey[c] # 0, ahVal'[c] # 0
        PROVE  ahSetOf[ahKey[c]] = ahSetOf[ahVal'[c]]
    <3>1. CASE c # B
      BY <1>10, <2>2, <3>1 DEF AhGood, AhBucketsOK
    <3>2. CASE c = B
      BY <1>10, <1>11, <1>12, <2>2, <3>2
    <3> QED
      BY <3>1, <3>2
  <2>3. \A c, d \in AhBuckets : ahKey[c] # 0 /\ ahKey[d] = ahKey[c] => c = d
    BY DEF AhGood, AhBucketsOK
  <2>4. \A u \in AhThreads, c \in AhBuckets : Clears(ahThread[u], c)' <=> Clears(ahThread'[u], c)
    BY DEF Clears
  <2> QED
    BY <1>5, <2>1, <2>2, <2>3, <2>4, Zenon DEF AhBucketsOK
<1>17. /\ ahValRef' \in [1 .. AhSets -> Int]
       /\ \A n \in 1 .. AhSets : ahValRef'[n] = IF n = old THEN ahValRef[n] - 1 ELSE ahValRef[n]
  <2>1. CASE old = 0
    BY <1>5, <2>1, AhTypes DEF Released
  <2>2. CASE old # 0
    <3>1. old \in 1 .. AhSets
      BY <1>13, <2>2
    <3> QED
      BY <1>5, <2>2, <3>1, AhTypes DEF Released
  <2> QED
    BY <2>1, <2>2
<1>18. AhKeyRefs'
  <2>1. \A n \in 1 .. AhSets : Clones(ahThread[t], n) <=> Clones(r, n)
    BY <1>1, <1>2, <1>7 DEF Clones
  <2> QED
    BY <1>5, <1>8, <2>1, AhKeyRefsKeep
<1>19. AhValRefs'
  <2> SUFFICES ASSUME NEW n \in 1 .. AhSets
               PROVE  ahValRef'[n] = Cardinality(AhValIn(n)') + Cardinality(AhKeepers(n)')
    BY DEF AhValRefs
  <2>1. ahValRef[n] = Cardinality(AhValIn(n)) + Cardinality(AhKeepers(n)) /\ ahValRef[n] \in Int
    BY AhTypes DEF AhGood, AhValRefs
  <2>2. n # 0 /\ ahVal[B] = old
    BY <1>2, <1>3, <1>4, AhAssumption
  <2>3. AhKeepers(n)' = AhKeepers(n) \ {t}
    <3>1. ~Keeps(r, n)
      BY <1>7 DEF Keeps
    <3> QED
      BY <1>8, <3>1, AhKeepersTo DEF AhGood
  <2>4. t \in AhKeepers(n) <=> n = new
    BY <1>1, <1>2, <1>4, <1>12, <1>11, <2>2 DEF AhKeepers, Keeps
  <2>5. CASE n = new
    <3>1. n # old /\ AhValIn(n) = {} /\ AhValIn(n)' = {B}
      BY <1>10, <1>12, <2>2, <2>5 DEF AhValIn
    <3>2. AhKeepers(n) = {t}
      BY <1>12, <2>2, <2>4, <2>5 DEF AhKeepers, Keeps
    <3>3. PICK a, b, c, d : /\ a = AhValIn(n) /\ b = AhKeepers(n) /\ c = AhValIn(n)'
                            /\ d = AhKeepers(n)'
      OBVIOUS
    <3>4. a = {} /\ b = {t} /\ c = {B} /\ d = {}
      BY <2>3, <3>1, <3>2, <3>3
    <3>5. Cardinality(a) = 0 /\ Cardinality(b) = 1 /\ Cardinality(c) = 1 /\ Cardinality(d) = 0
      BY <3>4, FS_EmptySet, FS_Singleton
    <3> QED
      BY <1>17, <2>1, <3>1, <3>3, <3>5
  <2>6. CASE n # new
    <3>1. AhKeepers(n)' = AhKeepers(n)
      BY <2>3, <2>4, <2>6
    <3>2. CASE n = old
      <4>1. AhValIn(n)' = AhValIn(n) \ {B} /\ B \in AhValIn(n)
        BY <1>10, <2>2, <2>6, <3>2 DEF AhValIn
      <4>2. Cardinality(AhValIn(n) \ {B}) = Cardinality(AhValIn(n)) - 1
        BY <4>1, AhCounted, FS_RemoveElement
      <4>3. PICK x \in Nat, y \in Nat : x = Cardinality(AhValIn(n)) /\ y = Cardinality(AhKeepers(n))
        BY AhCounted
      <4>4. ahValRef'[n] = x + y - 1
        <5>1. ahValRef[n] = x + y
          BY <2>1, <4>3
        <5>2. ahValRef'[n] = ahValRef[n] - 1
          BY <1>17, <3>2
        <5> QED
          BY <5>1, <5>2
      <4>5. Cardinality(AhValIn(n)') = x - 1 /\ Cardinality(AhKeepers(n)') = y
        BY <3>1, <4>1, <4>2, <4>3
      <4> QED
        BY <4>4, <4>5
    <3>3. CASE n # old
      <4>1. AhValIn(n)' = AhValIn(n)
        BY <1>10, <2>2, <2>6, <3>3 DEF AhValIn
      <4> QED
        BY <1>17, <2>1, <3>1, <3>3, <4>1
    <3> QED
      BY <3>2, <3>3
  <2> QED
    BY <2>5, <2>6
<1>20. AhSerialOK'
  <2>1. ASSUME NEW k, ~Holds(B, k) PROVE Found(k)' = Found(k)
    <3>1. ASSUME NEW l \in DOMAIN AhLevels
          PROVE  /\ Holds(AhBucket(l, k), k)' <=> Holds(AhBucket(l, k), k)
                 /\ Holds(AhBucket(l, k), k) => ahVal'[AhBucket(l, k)] = ahVal[AhBucket(l, k)]
      <4>1. PICK c : c = AhBucket(l, k)
        OBVIOUS
      <4>2. Holds(c, k)' <=> Holds(c, k)
        BY <1>5 DEF Holds
      <4>3. Holds(c, k) => ahVal'[c] = ahVal[c]
        BY <1>5, <2>1 DEF AhGood, AhTypeOK
      <4> QED
        BY <4>1, <4>2, <4>3
    <3> QED
      BY <3>1, AhFoundKeep
  <2>2. ASSUME ahSerial, me.op = "set" PROVE \A k \in AhKeys : Found(k)' = ahMap'[k]
    <3> TAKE k \in AhKeys
    <3>1. AhPath(me)
      BY <1>1, <2>2 DEF AhGood, AhSerialOK
    <3>2. ahMap'[k] = IF k = me.key THEN new ELSE ahMap[k]
      BY <1>5, <2>2, AhTypes
    <3>3. CASE k # me.key
      <4>1. ~Holds(B, k)
        BY <1>11, <2>2, <3>3 DEF Holds
      <4> QED
        BY <2>1, <2>2, <3>1, <3>2, <3>3, <4>1 DEF AhPath
    <3>4. CASE k = me.key
      <4>1. me.level \in DOMAIN AhLevels /\ B = AhBucket(me.level, k)
        BY <1>1, <1>3, <2>2, <3>4 DEF AhArgs
      <4>2. Holds(B, k)'
        BY <1>5, <1>11, <1>13, <2>2, <3>4 DEF Holds
      <4>3. \A m \in 1 .. me.level - 1 : ~Holds(AhBucket(m, k), k)'
        BY <1>5, <2>2, <3>1, <3>4 DEF AhPath, Holds, Available
      <4>4. Found(k)' = ahVal'[AhBucket(me.level, k)]
        BY <4>1, <4>2, <4>3, AhFoundFirst
      <4> QED
        BY <1>10, <3>2, <3>4, <4>1, <4>4
    <3> QED
      BY <3>3, <3>4
  <2>3. ASSUME ahSerial, me.op # "set"
        PROVE  /\ AhPath(r)'
               /\ r.op \in {"set", "delete", "cleanup"} \/ \A k \in AhKeys : Found(k)' = ahMap'[k]
    <3>1. AhPath(me)
      BY <1>1, <2>3 DEF AhGood, AhSerialOK
    <3>2. ahKey[me.b] = 0 /\ \A k : ~Holds(me.b, k)
      BY <1>3, <1>11, <2>3 DEF Holds
    <3>3. \A k \in AhKeys : Found(k)' = Found(k)
      BY <1>3, <2>1, <3>2
    <3>4. me.op \in {"delete", "cleanup"} /\ me.b \in AhBuckets /\ r = NextBucket(t)
          /\ ahMap' = Forgotten(t)
      BY <1>2, <1>3, <1>5, <1>6, <2>3
    <3> QED
      BY <1>1, <1>5, <3>1, <3>2, <3>3, <3>4, AhBucketDone
  <2>4. AhWrites(t)
    BY <1>1, <1>2 DEF AhWrites
  <2>5. CASE me.op = "set"
    <3>1. r.op \notin {"set", "delete", "cleanup"}
      BY <1>6, <2>5, AhIdleOK
    <3>2. AhPath(r)'
      BY <3>1, AhNoPath
    <3> QED
      BY <1>5, <1>8, <2>2, <2>4, <2>5, <3>2, AhWriteStep
  <2>6. CASE me.op # "set"
    BY <1>5, <1>8, <2>3, <2>4, <2>6, AhWriteStep
  <2> QED
    BY <2>5, <2>6
<1>21. AhTypeOK'
  <2>1. ahVal' \in [AhBuckets -> 0 .. Len(ahSetOf)]
    BY <1>5 DEF AhGood, AhTypeOK
  <2>2. ahThread' \in [AhThreads -> AhRecord]
    BY <1>8, AhOthers DEF AhGood
  <2>3. Forgotten(t) \in [AhKeys -> Nat]
    BY AhTypes DEF Forgotten
  <2>4. ahMap' \in [AhKeys -> Nat]
    <3>1. new \in Nat
      BY <1>13
    <3>2. PICK m \in [AhKeys -> Nat] : m = ahMap
      BY AhTypes
    <3>3. [m EXCEPT ![me.key] = new] \in [AhKeys -> Nat]
      BY <3>1
    <3> QED
      BY <1>5, <2>3, <3>2, <3>3
  <2> QED
    BY <1>5, <1>17, <2>1, <2>2, <2>4 DEF AhGood, AhTypeOK
<1> QED
  BY <1>14, <1>15, <1>16, <1>18, <1>19, <1>20, <1>21 DEF AhGood

(* Nothing is stored at first.                                             *)
LEMMA AhInitial == AhInit => AhInv
<1> SUFFICES ASSUME AhInit PROVE AhGood
  BY DEF AhInv
<1>1. \A u \in AhThreads : ahThread[u] = AhIdle
  BY DEF AhInit
<1>2. \A c \in AhBuckets : ahKey[c] = 0 /\ ahVal[c] = 0
  BY DEF AhInit
<1>3. ahSetOf = <<>> /\ Len(ahSetOf) = 0
  BY DEF AhInit
<1>4. AhTypeOK
  BY <1>3, AhIdleOK, AhAssumption DEF AhInit, AhTypeOK
<1>5. AhThreadsOK
  BY <1>1, AhIdleOK DEF AhThreadsOK
<1>6. AhFresh
  BY <1>1, AhIdleOK DEF AhFresh
<1>7. AhBucketsOK
  BY <1>2 DEF AhBucketsOK
<1>8. AhKeyRefs
  BY <1>1, <1>2, AhIdleOK, AhAssumption DEF AhKeyRefs, Clones, AhInit
<1>9. AhValRefs
  <2> SUFFICES ASSUME NEW n \in 1 .. AhSets
               PROVE  ahValRef[n] = Cardinality(AhValIn(n)) + Cardinality(AhKeepers(n))
    BY DEF AhValRefs
  <2>1. AhValIn(n) = {}
    BY <1>2, AhAssumption DEF AhValIn
  <2>2. AhKeepers(n) = {}
    BY <1>1, AhIdleOK DEF AhKeepers, Keeps
  <2>3. ahValRef[n] = 0
    BY DEF AhInit
  <2> QED
    BY <2>1, <2>2, <2>3, FS_EmptySet
<1>10. AhSerialOK
  <2>1. \A k \in AhKeys : Found(k) = ahMap[k]
    <3> TAKE k \in AhKeys
    <3>1. \A l \in DOMAIN AhLevels : ~Holds(AhBucket(l, k), k)
      BY <1>2, AhInTable, AhAssumption DEF Holds
    <3> QED
      BY <3>1 DEF Found, AhInit
  <2>2. \A u \in AhThreads : ~AhWrites(u)
    BY <1>1, AhIdleOK DEF AhWrites
  <2>3. \A u \in AhThreads : AhPath(ahThread[u])
    BY <1>1, AhIdleOK DEF AhPath
  <2> QED
    BY <2>1, <2>2, <2>3 DEF AhSerialOK
<1> QED
  BY <1>4, <1>5, <1>6, <1>7, <1>8, <1>9, <1>10 DEF AhGood

(* The invariant is about the table and its calls only.                    *)
LEMMA AhUnmoved ==
    ASSUME AhInv, UNCHANGED ahVars
    PROVE  AhInv'
<1>1. UNCHANGED <<ahKey, ahVal, ahKeyRef, ahValRef, ahThread, ahSetOf, ahMap, ahSerial, ahRaced>>
  BY DEF ahVars
<1> SUFFICES ASSUME AhGood PROVE AhGood'
  BY <1>1 DEF AhInv
<1>2. AhTypeOK'
  BY <1>1 DEF AhGood, AhTypeOK
<1>3. AhThreadsOK'
  BY <1>1 DEF AhGood, AhThreadsOK, AhArgs, AhSees, Holds, Available
<1>4. AhFresh'
  BY <1>1 DEF AhGood, AhFresh
<1>5. AhBucketsOK'
  BY <1>1 DEF AhGood, AhBucketsOK, Clears
<1>6. AhKeyRefs'
  BY <1>1 DEF AhGood, AhKeyRefs, Clones
<1>7. AhValRefs'
  BY <1>1 DEF AhGood, AhValRefs, AhValIn, AhKeepers, Keeps
<1>8. AhSerialOK'
  <2>1. \A c, k : (Holds(c, k)' <=> Holds(c, k)) /\ (Available(c, k)' <=> Available(c, k))
    BY <1>1, AhStill
  <2>2. \A k : Found(k)' = Found(k)
    BY <1>1, AhStill
  <2>3. \A u : AhWrites(u)' <=> AhWrites(u)
    BY <1>1 DEF AhWrites
  <2>4. \A u \in AhThreads : AhPath(ahThread[u]) => AhPath(ahThread[u])'
    BY <1>1, <2>1, <2>2 DEF AhPath
  <2> QED
    BY <1>1, <2>2, <2>3, <2>4 DEF AhGood, AhSerialOK
<1> QED
  BY <1>2, <1>3, <1>4, <1>5, <1>6, <1>7, <1>8 DEF AhGood

(* Every step keeps the table right, or is the race that ends the claim.   *)
LEMMA AhStepInv ==
    ASSUME AhInv, [AhNext]_ahVars
    PROVE  AhInv'
<1>1. CASE AhNext
  <2>0. ~ahRaced /\ AhGood
    BY <1>1 DEF AhNext, AhInv
  <2> SUFFICES ASSUME ~ahRaced' PROVE AhGood'
    BY DEF AhInv
  <2>1. PICK t \in AhThreads :
          \/ \E k \in AhKeys : \/ SetBegin(t, k) \/ GetBegin(t, k)
                               \/ DeleteBegin(t, "delete", k)
          \/ DeleteBegin(t, "cleanup", 0)
          \/ Occupy(t) \/ ExchangeLoad(t) \/ ExchangeKey(t) \/ ExchangeValue(t)
          \/ Walk(t) \/ Lookup(t) \/ AccessValue(t) \/ Drop(t)
    BY <1>1 DEF AhNext
  <2>2. ASSUME NEW k \in AhKeys, SetBegin(t, k) PROVE AhGood'
    BY <2>0, <2>2, AhSetBegins
  <2>3. ASSUME NEW k \in AhKeys, GetBegin(t, k) PROVE AhGood'
    BY <2>0, <2>3, AhGetBegins
  <2>4. ASSUME NEW k \in AhKeys, DeleteBegin(t, "delete", k) PROVE AhGood'
    BY <2>0, <2>4, AhDeleteBegins, AhAssumption
  <2>5. CASE DeleteBegin(t, "cleanup", 0)
    BY <2>0, <2>5, AhDeleteBegins
  <2>6. CASE Occupy(t)
    BY <2>0, <2>6, AhOccupies, AhPassesOn
  <2>7. CASE ExchangeLoad(t)
    BY <2>0, <2>7, AhLoads
  <2>8. CASE ExchangeKey(t)
    BY <2>0, <2>8, AhWritesKey
  <2>9. CASE ExchangeValue(t)
    BY <2>0, <2>9, AhWritesValue
  <2>10. CASE Walk(t)
    BY <2>0, <2>10, AhWalks
  <2>11. CASE Lookup(t)
    BY <2>0, <2>11, AhLooks
  <2>12. CASE AccessValue(t)
    BY <2>0, <2>12, AhAccesses
  <2>13. CASE Drop(t)
    BY <2>0, <2>13, AhDrops
  <2> QED
    BY <2>1, <2>2, <2>3, <2>4, <2>5, <2>6, <2>7, <2>8, <2>9, <2>10, <2>11, <2>12, <2>13
<1>2. CASE UNCHANGED ahVars
  BY <1>2, AhUnmoved
<1> QED
  BY <1>1, <1>2

(* The counts, the pairs of key and value, and what Get() finds.           *)
LEMMA AhSafe ==
    ASSUME AhInv
    PROVE  CountsExact /\ OwnValue /\ LastSetFound
<1>1. CASE ahRaced
  BY <1>1 DEF CountsExact, OwnValue, LastSetFound
<1>2. CASE AhGood
  <2>1. ASSUME NEW n \in 1 .. AhSets
        PROVE  \/ ahKeyRef[n] = Cardinality({b \in AhBuckets : ahKey[b] = n})
               \/ ahKeyRef[n] = 1 /\ \E u \in AhThreads : Stores(u, "key", n)
    <3>0. ahKeyRef[n] = IF \/ \E c \in AhBuckets : ahKey[c] = n
                           \/ \E u \in AhThreads : Clones(ahThread[u], n) THEN 1 ELSE 0
      BY <1>2 DEF AhGood, AhKeyRefs
    <3>1. CASE \E u \in AhThreads : Clones(ahThread[u], n)
      BY <3>0, <3>1 DEF Clones, Stores
    <3>2. CASE \E c \in AhBuckets : ahKey[c] = n
      <4>1. PICK c \in AhBuckets : ahKey[c] = n
        BY <3>2
      <4>2. \A d \in AhBuckets : ahKey[d] = n => d = c
        BY <1>2, <4>1, AhAssumption DEF AhGood, AhBucketsOK
      <4>3. {b \in AhBuckets : ahKey[b] = n} = {c}
        BY <4>1, <4>2
      <4> QED
        BY <3>0, <3>2, <4>3, FS_Singleton
    <3>3. CASE /\ \A c \in AhBuckets : ahKey[c] # n
               /\ \A u \in AhThreads : ~Clones(ahThread[u], n)
      <4>1. {b \in AhBuckets : ahKey[b] = n} = {}
        BY <3>3
      <4> QED
        BY <3>0, <3>3, <4>1, FS_EmptySet
    <3> QED
      BY <3>1, <3>2, <3>3
  <2>2. ASSUME NEW n \in 1 .. AhSets
        PROVE  ahValRef[n] = Cardinality({b \in AhBuckets : ahVal[b] = n})
                 + Cardinality({u \in AhThreads :
                                  \/ ahThread[u].at = "hold" /\ ahThread[u].old = n
                                  \/ Stores(u, "value", n)})
    <3>1. AhKeepers(n) = {u \in AhThreads : \/ ahThread[u].at = "hold" /\ ahThread[u].old = n
                                            \/ Stores(u, "value", n)}
      BY DEF AhKeepers, Keeps, Stores
    <3>2. AhValIn(n) = {b \in AhBuckets : ahVal[b] = n}
      BY DEF AhValIn
    <3>3. ahValRef[n] = Cardinality(AhValIn(n)) + Cardinality(AhKeepers(n))
      BY <1>2 DEF AhGood, AhValRefs
    <3> QED
      BY <3>1, <3>2, <3>3
  <2>3. CountsExact
    BY <2>1, <2>2 DEF CountsExact
  <2>4. OwnValue
    BY <1>2, AhTypes DEF AhGood, AhBucketsOK, AhArgs, OwnValue
  <2>5. LastSetFound
    BY <1>2 DEF AhGood, AhSerialOK, LastSetFound
  <2> QED
    BY <2>3, <2>4, <2>5
<1> QED
  BY <1>1, <1>2 DEF AhInv

-----------------------------------------------------------------------------
(* The components together: MCSpec exercises one of them and leaves the    *)
(* others as they are.                                                     *)
LibraryInv == AhInv /\ SsInv /\ AcInv /\ AoInv /\ BrInv /\ SgInv

(* Every component starts right.                                           *)
LEMMA LibraryInitial == MCInit => LibraryInv
BY AhInitial, SsInitial, AcInitial, AoInitial, BrInitial, SgInitial DEF MCInit, LibraryInv

(* A step of one component keeps what is true of it, and of the others.    *)
LEMMA LibraryStep == LibraryInv /\ [MCNext]_mcVars => LibraryInv'
<1> SUFFICES ASSUME LibraryInv, [MCNext]_mcVars PROVE LibraryInv'
  OBVIOUS
<1>1. /\ [AhNext]_ahVars /\ [SsNext]_ssVars /\ [AcNext]_acVars /\ [AoNext]_aoVars
      /\ [BrNext]_brVars /\ [SgNext]_sgVars
  BY DEF MCNext, SeqPart, AhPart, SsPart, AcPart, AoPart, BrPart, SgPart, NuPart, mcVars
<1>2. AhInv'
  BY <1>1, AhStepInv DEF LibraryInv
<1>3. SsInv'
  BY <1>1, SsStepInv DEF LibraryInv
<1>4. AcInv' /\ AoInv'
  BY <1>1, AcStepInv, AoStepInv DEF LibraryInv
<1>5. BrInv' /\ SgInv'
  BY <1>1, BrStepPreserves, SgStepInv DEF LibraryInv
<1> QED
  BY <1>2, <1>3, <1>4, <1>5 DEF LibraryInv

(* The tables and cells of the library hold what was put in last, for      *)
(* every reader, and free what they own once, whatever their size and      *)
(* however many threads use them: the reference counts of AtomicHashmap    *)
(* are exact and Get() finds the last Set(); the threads that use          *)
(* SharedStorage agree; the cells of Atomic and AtomicOptional hold the    *)
(* last store; nobody leaves a Barrier early; the lists of the signal      *)
(* table name their handlers.                                              *)
THEOREM LibraryCorrect == MCSpec => []LibrarySafe
<1>1. LibraryInv => LibrarySafe
  <2> SUFFICES ASSUME LibraryInv PROVE LibrarySafe
    OBVIOUS
  <2>1. CountsExact /\ OwnValue /\ LastSetFound
    BY AhSafe DEF LibraryInv
  <2>2. ThreadsAgree /\ ReloadedInTime
    BY SsSafe DEF LibraryInv
  <2>3. CellOwnsOne /\ OptionalIsLastStore
    BY AcSafe, AoSafe DEF LibraryInv
  <2>4. NoneLeavesEarly
    BY DEF LibraryInv, BrInv, NoneLeavesEarly, Came
  <2>5. ListsNameHandlers
    BY DEF LibraryInv, SgInv
  <2> QED
    BY <2>1, <2>2, <2>3, <2>4, <2>5 DEF LibrarySafe
<1> QED
  BY <1>1, LibraryInitial, LibraryStep, PTL DEF MCSpec
=============================================================================
