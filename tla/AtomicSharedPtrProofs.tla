----------------------- MODULE AtomicSharedPtrProofs -----------------------
(***************************************************************************)
(* The reclamation of AtomicSharedPtr over HazardPointers is right for any *)
(* number of threads, blocks, slots and calls: counts are exact, an object *)
(* lives as long as it is owned, a control block is retired once, and none *)
(* is freed that a validated hazard pointer announces.                     *)
(***************************************************************************)
EXTENDS AtomicSharedPtr, FiniteSetTheorems, TLAPS

-----------------------------------------------------------------------------
(* The parts of the inductive invariant.                                   *)

Slotless == {"find", "new"}
Loading == {"announce", "check", "inc"}
Releases == {"dec", "zero", "decweak"}
Cleaning == {"fence", "scan", "destroy"}
Pcs == {"idle", "read", "cas", "give"} \cup Slotless \cup Loading \cup Releases \cup Cleaning

Thread == [pc : Pcs, op : {"none", "load", "weak", "strong"}, cur : Pointers, old : Pointers,
           exp : Pointers, des : Pointers, first : Pointers, cont : {"idle", "cas", "give"},
           pos : Nat, seen : SUBSET Blocks]
Slot == [ptr : Pointers, used : BOOLEAN, retired : [Blocks -> Nat], since : 0 .. Threshold - 1]

DataOK ==
    /\ cell \in Pointers /\ zero \subseteq Blocks /\ life \in [Blocks -> Lives]
    /\ strong \in [Blocks -> Nat] /\ weak \in [Blocks -> Nat]
    /\ shared \in [Blocks -> Nat] /\ weakly \in [Blocks -> Nat]
    /\ calls \in 0 .. MaxCalls

(* What a thread's registers hold at each place of its program.  It has    *)
(* references only in calls that give them back.                           *)
Shape(r) ==
    /\ r \in Thread
    /\ \/ r.pc \in Slotless \cup {"idle"}
       \/ r.op = "load"
       \/ r.pc \in Releases \cup Cleaning /\ r.cont = "idle"
       => r.exp = Null /\ r.des = Null
    /\ r.pc \in Releases => r.old \in Blocks
    /\ r.pc \in Loading => r.cur \in Blocks
    /\ r.pc \notin Slotless \cup {"scan"} => r.pos = 1

ThreadsOK == th \in [Threads -> Thread] /\ \A t \in Threads : Shape(th[t])

(* Whose a slot is.                                                        *)
SlotsOK ==
    /\ slots \in Seq(Slot) /\ slot \in [Threads -> Nat] /\ buf \in [Threads -> Seq(Blocks)]
    /\ \A t \in Threads :
         /\ IF th[t].pc \in Slotless THEN slot[t] = 0 /\ buf[t] = <<>>
                                     ELSE slot[t] \in 1 .. Len(slots) /\ slots[slot[t]].used
         /\ th[t].pc \in {"find", "scan"} => th[t].pos \in 1 .. Len(slots)
         /\ \A u \in Threads : slot[t] = slot[u] /\ slot[t] # 0 => t = u
    /\ Len(slots) > 0

(* The references to a block in the registers r of a thread, and of all.   *)
Refs(r, b) == (IF r.exp = b THEN 1 ELSE 0) + (IF r.des = b THEN 1 ELSE 0)
                + (IF r.pc = "dec" /\ r.old = b THEN 1 ELSE 0)
WeakRefs(r, b) == IF r.pc = "decweak" /\ r.old = b THEN 1 ELSE 0
AllRefs(b) == Cardinality({t \in Threads : th[t].exp = b})
                + Cardinality({t \in Threads : th[t].des = b})
                + Cardinality({t \in Threads : th[t].pc = "dec" /\ th[t].old = b})
AllWeakRefs(b) == Cardinality({t \in Threads : th[t].pc = "decweak" /\ th[t].old = b})
InCell(b) == IF cell = b THEN 1 ELSE 0
Whole(b) == IF life[b] = "alive" THEN 1 ELSE 0

(* The counts are exact, whatever the state of the block; all owners       *)
(* together have one weak reference.                                       *)
CountsOK ==
    \A b \in Blocks :
        /\ strong[b] = shared[b] + InCell(b) + AllRefs(b)
        /\ weak[b] = weakly[b] + Whole(b) + AllWeakRefs(b)

(* A block is alive until its zero flag is set, and disposed of then.      *)
LifeOK ==
    \A b \in Blocks :
        /\ life[b] = "alive" => b \notin zero
        /\ life[b] = "disposed" => b \in zero
        /\ life[b] # "alive" => strong[b] = 0
        /\ life[b] = "free" => weak[b] = 0

(* Memory that has been a control block since the program began.           *)
Born(b) == life[b] = "alive" \/ b \in zero

Knows(t) == /\ th[t].pc \in Loading => Born(th[t].cur)
            /\ th[t].pc = "zero" => Born(th[t].old)
BornOK == \A t \in Threads : Knows(t)

(* A thread validates what it has announced, and what it has validated is  *)
(* not freed: a cleanup that would free it sees the announcement.          *)
AnnounceOK ==
    \A t \in Threads : /\ th[t].pc \in {"check", "inc"} => Newest(t) = th[t].cur
                       /\ th[t].pc = "inc" => life[th[t].cur] # "free"

SeenOK ==
    \A t, u \in Threads :
        /\ th[t].pc = "inc"
        /\ th[u].pc \in {"scan", "destroy"}
        /\ slots[slot[u]].retired[th[t].cur] > 0
        => /\ buf[t] = <<>>
           /\ slots[slot[t]].ptr = th[t].cur
           /\ th[u].pc = "destroy" \/ th[u].pos > slot[t] => th[t].cur \in th[u].seen

(* The books of owners and the protocol of hazard pointers.                *)
Books == DataOK /\ ThreadsOK /\ CountsOK /\ LifeOK /\ BornOK
Hazards == SlotsOK /\ RetiredOnce /\ AnnounceOK /\ SeenOK

Inv == Books /\ Hazards

-----------------------------------------------------------------------------
(* Counting the references that threads have in their registers.           *)

(* A finite set from which one element comes or goes.                      *)
LEMMA Moved ==
    ASSUME NEW S, NEW T, NEW t, IsFiniteSet(S), IsFiniteSet(T), S \ {t} = T \ {t}
    PROVE  /\ Cardinality(S) \in Nat /\ Cardinality(T) \in Nat
           /\ Cardinality(T) = Cardinality(S) + (IF t \in T THEN 1 ELSE 0)
                                              - (IF t \in S THEN 1 ELSE 0)
<1>0. Cardinality(S) \in Nat /\ Cardinality(T) \in Nat
  BY FS_CardinalityType
<1>1. CASE t \in T /\ t \notin S
  <2>1. T = S \cup {t}
    BY <1>1
  <2>2. Cardinality(S \cup {t}) = Cardinality(S) + 1
    BY <1>1, FS_AddElement
  <2> QED
    BY <1>0, <1>1, <2>1, <2>2
<1>2. CASE t \notin T /\ t \in S
  <2>1. T = S \ {t}
    BY <1>2
  <2>2. Cardinality(S \ {t}) = Cardinality(S) - 1
    BY <1>2, FS_RemoveElement
  <2> QED
    BY <1>0, <1>2, <2>1, <2>2
<1>3. CASE (t \in T) <=> (t \in S)
  <2>1. T = S
    BY <1>3
  <2> QED
    BY <1>0, <1>3, <2>1
<1> QED
  BY <1>1, <1>2, <1>3

(* The step of one thread.                                                 *)
LEMMA SetEffect ==
    ASSUME ThreadsOK, NEW t \in Threads, NEW r, Shape(r), Set(t, r)
    PROVE  ThreadsOK' /\ th'[t] = r /\ \A u \in Threads : u # t => th'[u] = th[u]
<1>1. r \in Thread
  BY DEF Shape
<1>2. /\ th' \in [Threads -> Thread]
      /\ th'[t] = r /\ \A u \in Threads : u # t => th'[u] = th[u]
  BY <1>1 DEF ThreadsOK, Set
<1>3. \A u \in Threads : Shape(th'[u])
  <2> TAKE u \in Threads
  <2>1. CASE u = t
    BY <1>2, <2>1
  <2>2. CASE u # t
    BY <1>2, <2>2 DEF ThreadsOK
  <2> QED
    BY <2>1, <2>2
<1> QED
  BY <1>2, <1>3 DEF ThreadsOK

(* It changes the references of this thread and of no other.               *)
LEMMA RefsStep ==
    ASSUME NEW t \in Threads, \A u \in Threads : u # t => th'[u] = th[u], NEW b
    PROVE  /\ AllRefs(b) \in Nat /\ AllWeakRefs(b) \in Nat
           /\ AllRefs(b)' = AllRefs(b) + Refs(th'[t], b) - Refs(th[t], b)
           /\ AllWeakRefs(b)' = AllWeakRefs(b) + WeakRefs(th'[t], b) - WeakRefs(th[t], b)
<1> DEFINE E == {u \in Threads : th[u].exp = b}
           D == {u \in Threads : th[u].des = b}
           R == {u \in Threads : th[u].pc = "dec" /\ th[u].old = b}
           W == {u \in Threads : th[u].pc = "decweak" /\ th[u].old = b}
<1>1. \A S : S \subseteq Threads => IsFiniteSet(S)
  BY ThreadAssumption, FS_Subset
<1>2. /\ IsFiniteSet(E) /\ IsFiniteSet(E') /\ E \ {t} = E' \ {t}
      /\ IsFiniteSet(D) /\ IsFiniteSet(D') /\ D \ {t} = D' \ {t}
      /\ IsFiniteSet(R) /\ IsFiniteSet(R') /\ R \ {t} = R' \ {t}
      /\ IsFiniteSet(W) /\ IsFiniteSet(W') /\ W \ {t} = W' \ {t}
  BY <1>1
<1>3. /\ Cardinality(E) \in Nat /\ Cardinality(E') \in Nat
      /\ Cardinality(E') = Cardinality(E) + (IF t \in E' THEN 1 ELSE 0)
                                          - (IF t \in E THEN 1 ELSE 0)
  <2> HIDE DEF E
  <2> QED BY <1>2, Moved
<1>4. /\ Cardinality(D) \in Nat /\ Cardinality(D') \in Nat
      /\ Cardinality(D') = Cardinality(D) + (IF t \in D' THEN 1 ELSE 0)
                                          - (IF t \in D THEN 1 ELSE 0)
  <2> HIDE DEF D
  <2> QED BY <1>2, Moved
<1>5. /\ Cardinality(R) \in Nat /\ Cardinality(R') \in Nat
      /\ Cardinality(R') = Cardinality(R) + (IF t \in R' THEN 1 ELSE 0)
                                          - (IF t \in R THEN 1 ELSE 0)
  <2> HIDE DEF R
  <2> QED BY <1>2, Moved
<1>6. /\ Cardinality(W) \in Nat /\ Cardinality(W') \in Nat
      /\ Cardinality(W') = Cardinality(W) + (IF t \in W' THEN 1 ELSE 0)
                                          - (IF t \in W THEN 1 ELSE 0)
  <2> HIDE DEF W
  <2> QED BY <1>2, Moved
<1>7. /\ (t \in E <=> th[t].exp = b) /\ (t \in E' <=> th'[t].exp = b)
      /\ (t \in D <=> th[t].des = b) /\ (t \in D' <=> th'[t].des = b)
      /\ (t \in R <=> th[t].pc = "dec" /\ th[t].old = b)
      /\ (t \in R' <=> th'[t].pc = "dec" /\ th'[t].old = b)
      /\ (t \in W <=> th[t].pc = "decweak" /\ th[t].old = b)
      /\ (t \in W' <=> th'[t].pc = "decweak" /\ th'[t].old = b)
  OBVIOUS
<1>8. /\ AllRefs(b) = Cardinality(E) + Cardinality(D) + Cardinality(R)
      /\ AllRefs(b)' = Cardinality(E') + Cardinality(D') + Cardinality(R')
      /\ AllWeakRefs(b) = Cardinality(W) /\ AllWeakRefs(b)' = Cardinality(W')
  BY DEF AllRefs, AllWeakRefs
<1> HIDE DEF E, D, R, W
<1> QED
  BY <1>3, <1>4, <1>5, <1>6, <1>7, <1>8 DEF Refs, WeakRefs

(* No thread has more references than all of them.                         *)
LEMMA RefsBound ==
    ASSUME NEW t \in Threads, NEW b
    PROVE  /\ AllRefs(b) \in Nat /\ AllWeakRefs(b) \in Nat
           /\ Refs(th[t], b) <= AllRefs(b) /\ WeakRefs(th[t], b) <= AllWeakRefs(b)
<1>1. \A S : S \subseteq Threads => /\ Cardinality(S) \in Nat
                                    /\ t \in S => Cardinality(S) >= 1
  <2> TAKE S
  <2> HAVE S \subseteq Threads
  <2>1. IsFiniteSet(S) /\ Cardinality(S) \in Nat
    BY ThreadAssumption, FS_Subset, FS_CardinalityType
  <2>2. Cardinality(S) = 0 <=> S = {}
    BY <2>1, FS_EmptySet
  <2> QED
    BY <2>1, <2>2
<1> DEFINE E == {u \in Threads : th[u].exp = b}
           D == {u \in Threads : th[u].des = b}
           R == {u \in Threads : th[u].pc = "dec" /\ th[u].old = b}
           W == {u \in Threads : th[u].pc = "decweak" /\ th[u].old = b}
<1>2. /\ Cardinality(E) \in Nat /\ (th[t].exp = b => Cardinality(E) >= 1)
      /\ Cardinality(D) \in Nat /\ (th[t].des = b => Cardinality(D) >= 1)
      /\ Cardinality(R) \in Nat
      /\ th[t].pc = "dec" /\ th[t].old = b => Cardinality(R) >= 1
      /\ Cardinality(W) \in Nat
      /\ th[t].pc = "decweak" /\ th[t].old = b => Cardinality(W) >= 1
  BY <1>1
<1>3. AllRefs(b) = Cardinality(E) + Cardinality(D) + Cardinality(R)
      /\ AllWeakRefs(b) = Cardinality(W)
  BY DEF AllRefs, AllWeakRefs
<1> HIDE DEF E, D, R, W
<1> QED
  BY <1>2, <1>3 DEF Refs, WeakRefs

(* There are finitely many of them.                                        *)
LEMMA RefsNat ==
    ASSUME NEW b
    PROVE  AllRefs(b) \in Nat /\ AllWeakRefs(b) \in Nat
<1>1. \A S : S \subseteq Threads => Cardinality(S) \in Nat
  BY ThreadAssumption, FS_Subset, FS_CardinalityType
<1>2. /\ Cardinality({t \in Threads : th[t].exp = b}) \in Nat
      /\ Cardinality({t \in Threads : th[t].des = b}) \in Nat
      /\ Cardinality({t \in Threads : th[t].pc = "dec" /\ th[t].old = b}) \in Nat
      /\ Cardinality({t \in Threads : th[t].pc = "decweak" /\ th[t].old = b}) \in Nat
  BY <1>1
<1> QED
  BY <1>2 DEF AllRefs, AllWeakRefs

-----------------------------------------------------------------------------
(* Where the steps of a thread take it.                                    *)

(* The empty registers.                                                    *)
LEMMA IdleShape ==
    /\ Shape(Idle) /\ Shape([Idle EXCEPT !.pc = "find"])
    /\ \A b \in Blocks : /\ Refs(Idle, b) = 0 /\ WeakRefs(Idle, b) = 0
                         /\ Refs([Idle EXCEPT !.pc = "find"], b) = 0
                         /\ WeakRefs([Idle EXCEPT !.pc = "find"], b) = 0
  BY BlockAssumption DEF Shape, Idle, Thread, Pcs, Slotless, Loading, Releases, Cleaning,
     Pointers, Refs, WeakRefs

(* The call that goes on after a release has given its reference back.     *)
LEMMA ResumeShape ==
    ASSUME NEW t \in Threads, Shape(th[t]), th[t].pc \in Releases \cup Cleaning
    PROVE  /\ Shape(Resume(t))
           /\ Resume(t).pc \in {"idle", "cas", "give"}
           /\ \A b \in Blocks :
                /\ Refs(Resume(t), b) = Refs(th[t], b)
                                        - (IF th[t].pc = "dec" /\ th[t].old = b THEN 1 ELSE 0)
                /\ WeakRefs(Resume(t), b) = 0
<1> DEFINE r == th[t]
<1>0. r \in Thread /\ Shape(r) /\ r.pc \in Releases \cup Cleaning
  BY DEF Shape
<1> HIDE DEF r
<1>1. CASE r.cont = "idle"
  <2>1. r.exp = Null /\ r.des = Null
    BY <1>0, <1>1 DEF Shape
  <2>2. \A b \in Blocks : Refs(r, b) = IF r.pc = "dec" /\ r.old = b THEN 1 ELSE 0
    BY <2>1, BlockAssumption DEF Refs
  <2>3. Resume(t) = Idle
    BY <1>1 DEF Resume, r
  <2> QED
    BY <2>2, <2>3, IdleShape DEF r, Idle
<1>2. CASE r.cont # "idle"
  <2> DEFINE q == [r EXCEPT !.pc = r.cont, !.old = Null, !.pos = 1, !.seen = {}]
  <2>1. Resume(t) = q
    BY <1>2 DEF Resume, r
  <2>2. /\ q.pc = r.cont /\ q.old = Null /\ q.pos = 1 /\ q.exp = r.exp /\ q.des = r.des
        /\ q.op = r.op /\ q.pc \in {"cas", "give"}
        /\ q \in Thread
    BY <1>0, <1>2 DEF Thread, Pcs, Pointers
  <2>3. Shape(q)
    <3> HIDE DEF q
    <3>1. q.op = "load" => r.exp = Null /\ r.des = Null
      BY <1>0, <2>2 DEF Shape
    <3> QED
      BY <2>2, <3>1 DEF Shape, Slotless, Loading, Releases, Cleaning
  <2>4. \A b \in Blocks :
          /\ Refs(q, b) = Refs(r, b) - (IF r.pc = "dec" /\ r.old = b THEN 1 ELSE 0)
          /\ WeakRefs(q, b) = 0
    <3> HIDE DEF q
    <3> QED
      BY <2>2, BlockAssumption DEF Refs, WeakRefs
  <2> QED
    BY <2>1, <2>2, <2>3, <2>4 DEF r
<1> QED
  BY <1>1, <1>2

(* What an action of t leaves as it was: the references it has.            *)
Keeps(t) == \A b \in Blocks : /\ Refs(th'[t], b) = Refs(th[t], b)
                              /\ WeakRefs(th'[t], b) = WeakRefs(th[t], b)
Others(t) == \A u \in Threads : u # t => th'[u] = th[u]

(* Registers that agree on exp and des, outside a release, refer to the    *)
(* same blocks.                                                            *)
LEMMA SameRefs ==
    ASSUME NEW r, NEW q, q.exp = r.exp, q.des = r.des,
           r.pc \notin {"dec", "decweak"}, q.pc \notin {"dec", "decweak"}
    PROVE  \A b : Refs(q, b) = Refs(r, b) /\ WeakRefs(q, b) = WeakRefs(r, b)
  BY DEF Refs, WeakRefs

(* A thread is given a slot, or ends.                                      *)
LEMMA SlotSteps ==
    ASSUME ThreadsOK, NEW t \in Threads,
           \/ Set(t, Idle) /\ th[t].pc \in Slotless
           \/ Set(t, [Idle EXCEPT !.pc = "find"]) /\ th[t].pc = "idle"
    PROVE  ThreadsOK' /\ Others(t) /\ Keeps(t)
<1>0. Shape(th[t])
  BY DEF ThreadsOK
<1>1. \A b \in Blocks : Refs(th[t], b) = 0 /\ WeakRefs(th[t], b) = 0
  BY <1>0, BlockAssumption DEF Shape, Slotless, Refs, WeakRefs
<1>2. CASE Set(t, Idle)
  BY <1>1, <1>2, IdleShape, SetEffect DEF Keeps, Others
<1>3. CASE Set(t, [Idle EXCEPT !.pc = "find"])
  BY <1>1, <1>3, IdleShape, SetEffect DEF Keeps, Others
<1> QED
  BY <1>2, <1>3

(* NextSlot moves on to the next slot, or past the last one to "new".      *)
LEMMA NextSlotEffect ==
    ASSUME ThreadsOK, NEW t \in Threads, NextSlot(t)
    PROVE  /\ ThreadsOK' /\ Others(t) /\ Keeps(t)
           /\ \/ th'[t].pc = "find" /\ th'[t].pos = th[t].pos + 1 /\ th[t].pos < Len(slots)
              \/ th'[t].pc = "new"
<1> DEFINE r == th[t]
           p == [r EXCEPT !.pos = @ + 1]
           n == [r EXCEPT !.pc = "new"]
<1>0. Shape(r) /\ r \in Thread /\ r.pc = "find" /\ r.exp = Null /\ r.des = Null
  BY DEF ThreadsOK, NextSlot, At, Shape, Slotless
<1>1. \/ Set(t, p) /\ r.pos < Len(slots)
      \/ Set(t, n)
  BY DEF NextSlot
<1> HIDE DEF r
<1>2. /\ p \in Thread /\ p.pc = "find" /\ p.exp = Null /\ p.des = Null /\ p.pos = r.pos + 1
      /\ n \in Thread /\ n.pc = "new" /\ n.exp = Null /\ n.des = Null
  BY <1>0 DEF Thread, Pcs, Slotless
<1> HIDE DEF p, n
<1>3. Shape(p) /\ Shape(n)
  BY <1>2 DEF Shape, Slotless, Loading, Releases, Cleaning
<1>4. \A b \in Blocks : /\ Refs(p, b) = Refs(r, b) /\ WeakRefs(p, b) = WeakRefs(r, b)
                        /\ Refs(n, b) = Refs(r, b) /\ WeakRefs(n, b) = WeakRefs(r, b)
  BY <1>0, <1>2, SameRefs
<1>5. CASE Set(t, p) /\ r.pos < Len(slots)
  <2>1. ThreadsOK' /\ th'[t] = p /\ Others(t)
    BY <1>3, <1>5, SetEffect DEF Others
  <2> QED
    BY <1>2, <1>4, <1>5, <2>1 DEF Keeps, r
<1>6. CASE Set(t, n)
  <2>1. ThreadsOK' /\ th'[t] = n /\ Others(t)
    BY <1>3, <1>6, SetEffect DEF Others
  <2> QED
    BY <1>2, <1>4, <2>1 DEF Keeps, r
<1> QED
  BY <1>1, <1>5, <1>6

(* Load starts at "read" with no references.                               *)
LEMMA LoadEffect ==
    ASSUME ThreadsOK, NEW t \in Threads, Load(t)
    PROVE  ThreadsOK' /\ Others(t) /\ Keeps(t) /\ th'[t].pc = "read"
<1> DEFINE r == th[t]
           q == [Idle EXCEPT !.pc = "read", !.op = "load"]
<1>0. r.pc = "idle" /\ r.exp = Null /\ r.des = Null /\ Set(t, q)
  BY DEF ThreadsOK, Load, At, Shape
<1>1. q \in Thread /\ q.pc = "read" /\ q.exp = Null /\ q.des = Null /\ q.pos = 1
  BY DEF Idle, Thread, Pcs, Pointers
<1> HIDE DEF q, r
<1>2. Shape(q)
  BY <1>1 DEF Shape, Slotless, Loading, Releases, Cleaning
<1>3. ThreadsOK' /\ th'[t] = q /\ Others(t)
  BY <1>0, <1>2, SetEffect DEF Others
<1>4. \A b \in Blocks : Refs(q, b) = Refs(r, b) /\ WeakRefs(q, b) = WeakRefs(r, b)
  BY <1>0, <1>1, SameRefs
<1> QED
  BY <1>1, <1>3, <1>4 DEF Keeps, r

(* Only the place changes: announce, start over, look for announcements.   *)
LEMMA GotoEffect ==
    ASSUME ThreadsOK, NEW t \in Threads, NEW pc, Set(t, [th[t] EXCEPT !.pc = pc]),
           \/ th[t].pc = "announce" /\ pc = "check"
           \/ th[t].pc = "check" /\ pc = "inc"
           \/ th[t].pc = "cas" /\ pc = "read"
           \/ th[t].pc = "fence" /\ pc = "scan"
    PROVE  /\ ThreadsOK' /\ Others(t) /\ Keeps(t) /\ th'[t].pc = pc
           /\ th'[t].cur = th[t].cur /\ th'[t].pos = th[t].pos
<1> DEFINE r == th[t]
           q == [r EXCEPT !.pc = pc]
<1>0. Shape(r) /\ r \in Thread /\ Set(t, q)
  BY DEF ThreadsOK, Shape
<1>a. \/ r.pc = "announce" /\ pc = "check"
      \/ r.pc = "check" /\ pc = "inc"
      \/ r.pc = "cas" /\ pc = "read"
      \/ r.pc = "fence" /\ pc = "scan"
  OBVIOUS
<1> HIDE DEF r
<1>1. /\ q \in Thread /\ q.pc = pc /\ q.exp = r.exp /\ q.des = r.des /\ q.cur = r.cur
      /\ q.old = r.old /\ q.op = r.op /\ q.cont = r.cont /\ q.pos = r.pos
  BY <1>0, <1>a DEF Thread, Pcs, Loading, Cleaning
<1> HIDE DEF q
<1>2. Shape(q)
  BY <1>0, <1>a, <1>1 DEF Shape, Slotless, Loading, Releases, Cleaning
<1>3. ThreadsOK' /\ th'[t] = q /\ Others(t)
  BY <1>0, <1>2, SetEffect DEF Others
<1>4. \A b \in Blocks : Refs(q, b) = Refs(r, b) /\ WeakRefs(q, b) = WeakRefs(r, b)
  BY <1>a, <1>1, SameRefs
<1> QED
  BY <1>1, <1>3, <1>4 DEF Keeps, r

(* Scan remembers the announcement of one slot, and ends after the last.   *)
LEMMA ScanEffect ==
    ASSUME ThreadsOK, SlotsOK, NEW t \in Threads, Scan(t)
    PROVE  /\ ThreadsOK' /\ Others(t) /\ Keeps(t)
           /\ th'[t].seen = (th[t].seen \cup {slots[th[t].pos].ptr}) \ {Null}
           /\ IF th[t].pos < Len(slots) THEN th'[t].pos = th[t].pos + 1 /\ th'[t].pc = "scan"
                                        ELSE th'[t].pc = "destroy"
<1> DEFINE r == th[t]
           p == slots[r.pos].ptr
           n == Len(slots)
           seen == (r.seen \cup {p}) \ {Null}
           pos == IF r.pos < n THEN r.pos + 1 ELSE 1
           pc == IF r.pos < n THEN "scan" ELSE "destroy"
           q == [r EXCEPT !.seen = seen, !.pos = pos, !.pc = pc]
<1>0. Shape(r) /\ r \in Thread /\ r.pc = "scan" /\ Set(t, q)
  BY DEF ThreadsOK, Shape, Scan, At
<1>1. p \in Pointers
  <2>1. r.pos \in 1 .. Len(slots) /\ slots \in Seq(Slot)
    BY <1>0 DEF SlotsOK
  <2>2. slots[r.pos] \in Slot
    BY <2>1
  <2> QED
    BY <2>2 DEF Slot
<1> HIDE DEF r, p, n
<1>2. /\ q \in Thread /\ q.exp = r.exp /\ q.des = r.des
      /\ q.old = r.old /\ q.op = r.op /\ q.cont = r.cont
      /\ q.seen = (r.seen \cup {p}) \ {Null}
      /\ IF r.pos < n THEN q.pos = r.pos + 1 /\ q.pc = "scan"
                      ELSE q.pos = 1 /\ q.pc = "destroy"
  <2>1. seen \in SUBSET Blocks
    BY <1>0, <1>1 DEF Thread, Pointers
  <2>2. pos \in Nat /\ pc \in {"scan", "destroy"}
    BY <1>0 DEF Thread
  <2>3. /\ q \in Thread /\ q.exp = r.exp /\ q.des = r.des
        /\ q.old = r.old /\ q.op = r.op /\ q.cont = r.cont
        /\ q.seen = seen /\ q.pos = pos /\ q.pc = pc
    <3> HIDE DEF seen, pos, pc
    <3> QED
      BY <1>0, <2>1, <2>2 DEF Thread, Pcs, Cleaning
  <2> HIDE DEF q
  <2> QED
    BY <2>3
<1> HIDE DEF q
<1>3. Shape(q)
  BY <1>0, <1>2 DEF Shape, Slotless, Loading, Releases, Cleaning
<1>4. ThreadsOK' /\ th'[t] = q /\ Others(t)
  BY <1>0, <1>3, SetEffect DEF Others
<1>5. \A b \in Blocks : Refs(q, b) = Refs(r, b) /\ WeakRefs(q, b) = WeakRefs(r, b)
  BY <1>0, <1>2, SameRefs
<1> QED
  BY <1>2, <1>4, <1>5 DEF Keeps, r, p, n

-----------------------------------------------------------------------------
(* What the steps of a thread do to the counts.                            *)

(* A reference goes from one place to another, or is counted.              *)
Balanced(t) ==
    \A b \in Blocks :
        /\ strong'[b] + shared[b] + InCell(b) + Refs(th[t], b)
             = strong[b] + shared'[b] + InCell(b)' + Refs(th'[t], b)
        /\ weak'[b] + weakly[b] + Whole(b) + WeakRefs(th[t], b)
             = weak[b] + weakly'[b] + Whole(b)' + WeakRefs(th'[t], b)

(* A thread has a number of references to any block.                       *)
LEMMA RefsType ==
    ASSUME NEW r, NEW b
    PROVE  Refs(r, b) \in Nat /\ WeakRefs(r, b) \in Nat
  BY DEF Refs, WeakRefs

(* Arithmetic of a balanced step, shared by both counts.                   *)
LEMMA Conserved ==
    ASSUME NEW n \in Nat, NEW m \in Nat, NEW h \in Nat, NEW k \in Nat, NEW c \in Nat,
           NEW d \in Nat, NEW a \in Nat, NEW r \in Nat, NEW q \in Nat, NEW e,
           e = a + q - r, n = h + c + a, m + h + c + r = n + k + d + q
    PROVE  m = k + d + e
  OBVIOUS

(* That keeps the counts exact.                                            *)
LEMMA BalancedStep ==
    ASSUME DataOK, DataOK', CountsOK, NEW t \in Threads, Others(t), Balanced(t)
    PROVE  CountsOK'
<1> SUFFICES ASSUME NEW b \in Blocks
             PROVE  /\ strong'[b] = shared'[b] + InCell(b)' + AllRefs(b)'
                    /\ weak'[b] = weakly'[b] + Whole(b)' + AllWeakRefs(b)'
  BY DEF CountsOK
<1>1. /\ AllRefs(b) \in Nat /\ AllWeakRefs(b) \in Nat
      /\ AllRefs(b)' = AllRefs(b) + Refs(th'[t], b) - Refs(th[t], b)
      /\ AllWeakRefs(b)' = AllWeakRefs(b) + WeakRefs(th'[t], b) - WeakRefs(th[t], b)
  BY RefsStep DEF Others
<1>2. /\ Refs(th[t], b) \in Nat /\ WeakRefs(th[t], b) \in Nat
      /\ Refs(th'[t], b) \in Nat /\ WeakRefs(th'[t], b) \in Nat
  BY RefsType
<1>3. /\ InCell(b) \in Nat /\ InCell(b)' \in Nat /\ Whole(b) \in Nat /\ Whole(b)' \in Nat
  BY DEF InCell, Whole
<1>4. /\ strong[b] \in Nat /\ shared[b] \in Nat /\ weak[b] \in Nat /\ weakly[b] \in Nat
      /\ strong'[b] \in Nat /\ shared'[b] \in Nat /\ weak'[b] \in Nat /\ weakly'[b] \in Nat
  BY DEF DataOK
<1>5. /\ strong[b] = shared[b] + InCell(b) + AllRefs(b)
      /\ weak[b] = weakly[b] + Whole(b) + AllWeakRefs(b)
  BY DEF CountsOK
<1>6. /\ strong'[b] + shared[b] + InCell(b) + Refs(th[t], b)
           = strong[b] + shared'[b] + InCell(b)' + Refs(th'[t], b)
      /\ weak'[b] + weakly[b] + Whole(b) + WeakRefs(th[t], b)
           = weak[b] + weakly'[b] + Whole(b)' + WeakRefs(th'[t], b)
  BY DEF Balanced
<1>7. strong'[b] = shared'[b] + InCell(b)' + AllRefs(b)'
  BY <1>1, <1>2, <1>3, <1>4, <1>5, <1>6, Conserved, SMTT(60)
<1>8. weak'[b] = weakly'[b] + Whole(b)' + AllWeakRefs(b)'
  BY <1>1, <1>2, <1>3, <1>4, <1>5, <1>6, Conserved
<1> QED
  BY <1>7, <1>8

(* Nothing is counted and nothing moves.                                   *)
LEMMA QuietStep ==
    ASSUME DataOK, NEW t \in Threads, UNCHANGED <<cell, counts>>, calls' \in 0 .. MaxCalls,
           Keeps(t)
    PROVE  DataOK' /\ Balanced(t)
<1>1. DataOK'
  BY DEF DataOK, counts
<1>2. \A b \in Blocks : InCell(b)' = InCell(b) /\ Whole(b)' = Whole(b)
  BY DEF counts, InCell, Whole
<1>3. Balanced(t)
  BY <1>2 DEF Balanced, Keeps, counts
<1> QED
  BY <1>1, <1>3

(* A handle more or less.                                                  *)
LEMMA PlusEffect ==
    ASSUME NEW f \in [Blocks -> Nat], NEW p \in Pointers, NEW n \in Int,
           p # Null => f[p] + n >= 0
    PROVE  /\ Plus(f, p, n) \in [Blocks -> Nat]
           /\ \A b \in Blocks : Plus(f, p, n)[b] = f[b] + (IF p = b THEN n ELSE 0)
<1>1. CASE p = Null
  BY <1>1, BlockAssumption DEF Plus
<1>2. CASE p # Null
  <2>1. p \in Blocks /\ f[p] + n \in Nat
    BY <1>2 DEF Pointers
  <2> QED
    BY <1>2, <2>1 DEF Plus
<1> QED
  BY <1>1, <1>2

(* load() has its answer p: to the caller, or into expected.               *)
LEMMA LoadedEffect ==
    ASSUME DataOK, ThreadsOK, NEW t \in Threads, th[t].pc \in Loading \cup {"read"},
           NEW p \in Pointers, Loaded(t, p)
    PROVE  /\ ThreadsOK' /\ Others(t) /\ th'[t].pc \in {"idle", "cas", "give", "dec"}
           /\ shared' \in [Blocks -> Nat]
           /\ \A b \in Blocks :
                /\ shared'[b] + Refs(th'[t], b)
                     = shared[b] + Refs(th[t], b) + (IF p = b THEN 1 ELSE 0)
                /\ WeakRefs(th'[t], b) = WeakRefs(th[t], b)
<1> DEFINE r == th[t]
           cont == IF r.op = "strong" /\ p = r.first THEN "cas" ELSE "give"
           pc == IF r.exp = Null THEN cont ELSE "dec"
           q == [r EXCEPT !.exp = p, !.cur = Null, !.old = r.exp, !.cont = cont, !.pc = pc]
<1>0. Shape(r) /\ r \in Thread /\ r.pos = 1 /\ r.pc \notin {"dec", "decweak"}
  <2>1. Shape(th[t])
    BY DEF ThreadsOK
  <2> QED
    BY <2>1 DEF Shape, Slotless, Loading
<1>a. shared \in [Blocks -> Nat]
  BY DEF DataOK
<1>1. CASE r.op = "load"
  <2>1. Set(t, Idle) /\ shared' = Plus(shared, p, 1)
    BY <1>1 DEF Loaded
  <2>2. ThreadsOK' /\ th'[t] = Idle /\ Others(t)
    BY <2>1, IdleShape, SetEffect DEF Others
  <2>3. shared' \in [Blocks -> Nat]
        /\ \A b \in Blocks : shared'[b] = shared[b] + (IF p = b THEN 1 ELSE 0)
    <3>1. p # Null => shared[p] + 1 >= 0
      BY <1>a DEF Pointers
    <3> QED
      BY <1>a, <2>1, <3>1, PlusEffect
  <2>4. \A b \in Blocks : Refs(r, b) = 0 /\ WeakRefs(r, b) = 0
    BY <1>0, <1>1, BlockAssumption DEF Shape, Refs, WeakRefs
  <2>5. Idle.pc = "idle"
    BY DEF Idle
  <2> QED
    BY <1>a, <2>2, <2>3, <2>4, <2>5, IdleShape DEF r
<1>2. CASE r.op # "load"
  <2>0. cont \in {"cas", "give"} /\ pc \in {"cas", "give", "dec"}
    OBVIOUS
  <2>1. Set(t, q) /\ shared' = shared
    BY <1>0, <1>2 DEF Loaded, Thread
  <2>2. /\ q.exp = p /\ q.des = r.des /\ q.cont = cont /\ q.pc = pc /\ q.old = r.exp
        /\ q.op = r.op /\ q.pos = r.pos /\ q.cur = Null
        /\ q \in Thread
    <3>1. r.exp \in Pointers /\ Null \in Pointers /\ pc \in Pcs
      BY <1>0, <2>0 DEF Thread, Pcs, Releases, Pointers
    <3> HIDE DEF cont, pc, r
    <3> QED
      BY <1>0, <2>0, <3>1 DEF Thread
  <2> HIDE DEF q
  <2>3. Shape(q)
    <3>1. r.exp \in Pointers
      BY <1>0 DEF Thread
    <3> QED
      BY <1>0, <1>2, <2>2, <3>1 DEF Shape, Slotless, Loading, Releases, Cleaning, Pointers
  <2>4. ThreadsOK' /\ th'[t] = q /\ Others(t)
    BY <2>1, <2>3, SetEffect DEF Others
  <2>5. \A b \in Blocks : Refs(q, b) = Refs(r, b) + (IF p = b THEN 1 ELSE 0)
                          /\ WeakRefs(q, b) = WeakRefs(r, b)
    BY <1>0, <2>2, BlockAssumption DEF Refs, WeakRefs
  <2> QED
    BY <1>a, <2>0, <2>1, <2>2, <2>4, <2>5, RefsType DEF r
<1> QED
  BY <1>1, <1>2

(* Registers that hold nothing but a reference to release.                 *)
LEMMA DropShape ==
    ASSUME NEW b \in Blocks, NEW pc \in {"dec", "decweak"}
    PROVE  LET q == [Idle EXCEPT !.pc = pc, !.old = b] IN
           /\ Shape(q) /\ q.pc = pc
           /\ \A c \in Blocks :
                /\ Refs(q, c) = (IF pc = "dec" /\ b = c THEN 1 ELSE 0)
                /\ WeakRefs(q, c) = (IF pc = "decweak" /\ b = c THEN 1 ELSE 0)
<1> DEFINE q == [Idle EXCEPT !.pc = pc, !.old = b]
<1>1. /\ q \in Thread /\ q.pc = pc /\ q.old = b /\ q.exp = Null /\ q.des = Null /\ q.pos = 1
  BY DEF Idle, Thread, Pcs, Releases, Pointers
<1> HIDE DEF q
<1>2. Shape(q)
  BY <1>1 DEF Shape, Slotless, Loading, Releases, Cleaning
<1>3. \A c \in Blocks : /\ Refs(q, c) = (IF pc = "dec" /\ b = c THEN 1 ELSE 0)
                        /\ WeakRefs(q, c) = (IF pc = "decweak" /\ b = c THEN 1 ELSE 0)
  BY <1>1, BlockAssumption DEF Refs, WeakRefs
<1> QED
  BY <1>1, <1>2, <1>3 DEF q

(* A thread that is in no call has no references.                          *)
LEMMA IdleRefs ==
    ASSUME ThreadsOK, NEW t \in Threads, th[t].pc = "idle"
    PROVE  \A b \in Blocks : Refs(th[t], b) = 0 /\ WeakRefs(th[t], b) = 0
<1>1. Shape(th[t])
  BY DEF ThreadsOK
<1> QED
  BY <1>1, BlockAssumption DEF Shape, Refs, WeakRefs

(* A handle that is dropped becomes a reference of the thread.             *)
LEMMA DropEffect ==
    ASSUME DataOK, ThreadsOK, NEW t \in Threads, NEW b \in Blocks,
           DropShared(t, b) \/ DropWeak(t, b)
    PROVE  /\ DataOK' /\ ThreadsOK' /\ Others(t) /\ Balanced(t)
           /\ th'[t].pc \in {"dec", "decweak"}
<1>0. /\ th[t].pc = "idle" /\ calls' \in 0 .. MaxCalls /\ b \in Blocks
      /\ shared \in [Blocks -> Nat] /\ weakly \in [Blocks -> Nat]
  BY BoundAssumption DEF DropShared, DropWeak, At, Call, DataOK
<1>1. CASE DropShared(t, b)
  <2> DEFINE q == [Idle EXCEPT !.pc = "dec", !.old = b]
  <2>1. /\ Set(t, q) /\ shared[b] > 0 /\ shared' = [shared EXCEPT ![b] = @ - 1]
        /\ UNCHANGED <<cell, strong, zero, weak, life, weakly>>
    BY <1>1 DEF DropShared
  <2>2. /\ Shape(q) /\ q.pc = "dec"
        /\ \A c \in Blocks : Refs(q, c) = (IF b = c THEN 1 ELSE 0) /\ WeakRefs(q, c) = 0
    BY DropShape
  <2> HIDE DEF q
  <2>3. ThreadsOK' /\ th'[t] = q /\ Others(t)
    BY <2>1, <2>2, SetEffect DEF Others
  <2>4. shared' \in [Blocks -> Nat]
        /\ \A c \in Blocks : shared'[c] = shared[c] - (IF b = c THEN 1 ELSE 0)
    BY <1>0, <2>1
  <2>5. DataOK'
    BY <1>0, <2>1, <2>4 DEF DataOK
  <2>6. \A c \in Blocks : InCell(c)' = InCell(c) /\ Whole(c)' = Whole(c) /\ InCell(c) \in Nat
                          /\ strong[c] \in Nat /\ shared[c] \in Nat
    BY <2>1 DEF InCell, Whole, DataOK
  <2>7. Balanced(t)
    BY <1>0, <2>1, <2>2, <2>3, <2>4, <2>6, IdleRefs DEF Balanced
  <2> QED
    BY <2>2, <2>3, <2>5, <2>7
<1>2. CASE DropWeak(t, b)
  <2> DEFINE q == [Idle EXCEPT !.pc = "decweak", !.old = b]
  <2>1. /\ Set(t, q) /\ weakly[b] > 0 /\ weakly' = [weakly EXCEPT ![b] = @ - 1]
        /\ UNCHANGED <<cell, strong, zero, weak, life, shared>>
    BY <1>2, SMTT(60) DEF DropWeak
  <2>2. /\ Shape(q) /\ q.pc = "decweak"
        /\ \A c \in Blocks : Refs(q, c) = 0 /\ WeakRefs(q, c) = (IF b = c THEN 1 ELSE 0)
    BY DropShape
  <2> HIDE DEF q
  <2>3. ThreadsOK' /\ th'[t] = q /\ Others(t)
    BY <2>1, <2>2, SetEffect DEF Others
  <2>4. weakly' \in [Blocks -> Nat]
        /\ \A c \in Blocks : weakly'[c] = weakly[c] - (IF b = c THEN 1 ELSE 0)
    BY <1>0, <2>1
  <2>5. DataOK'
    BY <1>0, <2>1, <2>4 DEF DataOK
  <2>6. \A c \in Blocks : InCell(c)' = InCell(c) /\ Whole(c)' = Whole(c) /\ Whole(c) \in Nat
                          /\ weak[c] \in Nat /\ weakly[c] \in Nat
    BY <2>1 DEF InCell, Whole, DataOK
  <2>7. Balanced(t)
    BY <1>0, <2>1, <2>2, <2>3, <2>4, <2>6, IdleRefs DEF Balanced
  <2> QED
    BY <2>2, <2>3, <2>5, <2>7
<1> QED
  BY <1>1, <1>2

(* store(): the cell's reference is released, unless it was null.          *)
LEMMA StoreEffect ==
    ASSUME DataOK, ThreadsOK, NEW t \in Threads, NEW d \in Handles, Store(t, d)
    PROVE  /\ DataOK' /\ ThreadsOK' /\ Others(t) /\ Balanced(t)
           /\ th'[t].pc \in {"idle", "dec"}
<1> DEFINE q == IF cell = Null THEN Idle ELSE [Idle EXCEPT !.pc = "dec", !.old = cell]
<1>0. /\ th[t].pc = "idle" /\ calls' \in 0 .. MaxCalls
      /\ shared \in [Blocks -> Nat] /\ cell \in Pointers
      /\ cell' = d /\ shared' = Plus(shared, d, -1) /\ Set(t, q)
      /\ UNCHANGED <<strong, zero, weak, life, weakly>>
      /\ d \in Pointers /\ (d # Null => shared[d] > 0)
  BY BoundAssumption DEF Store, At, Call, DataOK, Handles
<1>1. /\ Shape(q) /\ q.pc \in {"idle", "dec"}
      /\ \A c \in Blocks : Refs(q, c) = InCell(c) /\ WeakRefs(q, c) = 0
  <2>1. CASE cell = Null
    BY <2>1, IdleShape, BlockAssumption, SMTT(60) DEF InCell, Idle
  <2>2. CASE cell # Null
    BY <1>0, <2>2, DropShape DEF InCell, Pointers
  <2> QED
    BY <2>1, <2>2
<1> HIDE DEF q
<1>2. ThreadsOK' /\ th'[t] = q /\ Others(t)
  BY <1>0, <1>1, SetEffect DEF Others
<1>3. /\ shared' \in [Blocks -> Nat]
      /\ \A c \in Blocks : shared'[c] = shared[c] + (IF d = c THEN -1 ELSE 0)
  <2>1. d # Null => shared[d] + (-1) >= 0
    BY <1>0 DEF Pointers
  <2> QED
    BY <1>0, <2>1, PlusEffect
<1>4. DataOK'
  BY <1>0, <1>3 DEF DataOK
<1>5. \A c \in Blocks : /\ InCell(c)' = (IF d = c THEN 1 ELSE 0) /\ Whole(c)' = Whole(c)
                        /\ strong[c] \in Nat /\ shared[c] \in Nat /\ InCell(c) \in Nat
  BY <1>0 DEF InCell, Whole, DataOK
<1>6. Balanced(t)
  BY <1>0, <1>1, <1>2, <1>3, <1>5, IdleRefs DEF Balanced
<1> QED
  BY <1>1, <1>2, <1>4, <1>6

(* compare_exchange: the two handles go into the registers.                *)
LEMMA CompareExchangeEffect ==
    ASSUME DataOK, ThreadsOK, NEW t \in Threads, NEW op \in {"weak", "strong"},
           NEW e \in Handles, NEW d \in Handles, CompareExchange(t, op, e, d)
    PROVE  DataOK' /\ ThreadsOK' /\ Others(t) /\ Balanced(t) /\ th'[t].pc = "cas"
<1> DEFINE q == [Idle EXCEPT !.pc = "cas", !.op = op, !.exp = e, !.des = d, !.first = e]
           f == Plus(shared, e, -1)
<1>0. /\ th[t].pc = "idle" /\ calls' \in 0 .. MaxCalls /\ shared \in [Blocks -> Nat]
      /\ (e = d /\ e # Null => shared[e] > 1)
      /\ shared' = Plus(f, d, -1) /\ Set(t, q)
      /\ UNCHANGED <<cell, strong, zero, weak, life, weakly>>
      /\ e \in Pointers /\ (e # Null => shared[e] > 0)
      /\ d \in Pointers /\ (d # Null => shared[d] > 0)
  BY BoundAssumption DEF CompareExchange, At, Call, DataOK, Handles
<1>1. /\ q \in Thread /\ q.pc = "cas" /\ q.op = op /\ q.exp = e /\ q.des = d /\ q.pos = 1
  BY <1>0 DEF Idle, Thread, Pcs, Pointers
<1> HIDE DEF q, f
<1>2. Shape(q)
  BY <1>1 DEF Shape, Slotless, Loading, Releases, Cleaning
<1>3. \A c \in Blocks : /\ Refs(q, c) = (IF e = c THEN 1 ELSE 0) + (IF d = c THEN 1 ELSE 0)
                        /\ WeakRefs(q, c) = 0
  BY <1>1 DEF Refs, WeakRefs
<1>4. ThreadsOK' /\ th'[t] = q /\ Others(t)
  BY <1>0, <1>2, SetEffect DEF Others
<1>5. /\ f \in [Blocks -> Nat]
      /\ \A c \in Blocks : f[c] = shared[c] + (IF e = c THEN -1 ELSE 0)
  <2>1. e # Null => shared[e] + (-1) >= 0
    BY <1>0 DEF Pointers
  <2> QED
    BY <1>0, <2>1, PlusEffect DEF f
<1>6. /\ shared' \in [Blocks -> Nat]
      /\ \A c \in Blocks : shared'[c] = f[c] + (IF d = c THEN -1 ELSE 0)
  <2>1. d # Null => f[d] + (-1) >= 0
    BY <1>0, <1>5 DEF Pointers
  <2> QED
    BY <1>0, <1>5, <2>1, PlusEffect, SMTT(60)
<1>7. DataOK'
  BY <1>0, <1>6 DEF DataOK
<1>8. \A c \in Blocks : /\ InCell(c)' = InCell(c) /\ Whole(c)' = Whole(c)
                        /\ strong[c] \in Nat /\ shared[c] \in Nat /\ InCell(c) \in Nat
  BY <1>0 DEF InCell, Whole, DataOK
<1>9. Balanced(t)
  BY <1>0, <1>3, <1>4, <1>5, <1>6, <1>8, IdleRefs DEF Balanced
<1> QED
  BY <1>1, <1>4, <1>7, <1>9

(* It succeeds: desired is the cell's, expected the caller's, and the      *)
(* reference that the cell had is released.                                *)
LEMMA CasEffect ==
    ASSUME DataOK, ThreadsOK, NEW t \in Threads, CasSucceeds(t)
    PROVE  /\ DataOK' /\ ThreadsOK' /\ Others(t) /\ Balanced(t)
           /\ th'[t].pc \in {"idle", "dec"}
<1> DEFINE q == IF cell = Null THEN Idle ELSE [Idle EXCEPT !.pc = "dec", !.old = cell]
           r == th[t]
<1>0. /\ r.pc = "cas" /\ calls' = calls /\ shared \in [Blocks -> Nat] /\ cell \in Pointers
      /\ cell = r.exp /\ cell' = r.des /\ shared' = Plus(shared, cell, 1) /\ Set(t, q)
      /\ UNCHANGED <<strong, zero, weak, life, weakly>>
      /\ r.des \in Pointers
  BY DEF CasSucceeds, At, DataOK, ThreadsOK, Thread
<1> HIDE DEF r
<1>1. /\ Shape(q) /\ q.pc \in {"idle", "dec"}
      /\ \A c \in Blocks : Refs(q, c) = InCell(c) /\ WeakRefs(q, c) = 0
  <2>1. CASE cell = Null
    BY <2>1, IdleShape, BlockAssumption, SMTT(60) DEF InCell, Idle
  <2>2. CASE cell # Null
    BY <1>0, <2>2, DropShape DEF InCell, Pointers
  <2> QED
    BY <2>1, <2>2
<1> HIDE DEF q
<1>2. ThreadsOK' /\ th'[t] = q /\ Others(t)
  BY <1>0, <1>1, SetEffect DEF Others
<1>3. /\ shared' \in [Blocks -> Nat]
      /\ \A c \in Blocks : shared'[c] = shared[c] + (IF cell = c THEN 1 ELSE 0)
  <2>1. cell # Null => shared[cell] + 1 >= 0
    BY <1>0 DEF Pointers
  <2> QED
    BY <1>0, <2>1, PlusEffect
<1>4. DataOK'
  BY <1>0, <1>3 DEF DataOK
<1>5. \A c \in Blocks : /\ InCell(c)' = (IF r.des = c THEN 1 ELSE 0) /\ Whole(c)' = Whole(c)
                        /\ strong[c] \in Nat /\ shared[c] \in Nat
                        /\ InCell(c) = (IF cell = c THEN 1 ELSE 0)
  BY <1>0 DEF InCell, Whole, DataOK
<1>6. \A c \in Blocks : /\ Refs(r, c) = InCell(c) + (IF r.des = c THEN 1 ELSE 0)
                        /\ WeakRefs(r, c) = 0
  BY <1>0 DEF Refs, WeakRefs, InCell
<1>7. Balanced(t)
  BY <1>0, <1>1, <1>2, <1>3, <1>5, <1>6 DEF Balanced, r
<1> QED
  BY <1>1, <1>2, <1>4, <1>7

(* It has failed: the caller has both handles again.                       *)
LEMMA GiveBackEffect ==
    ASSUME DataOK, ThreadsOK, NEW t \in Threads, GiveBack(t)
    PROVE  DataOK' /\ ThreadsOK' /\ Others(t) /\ Balanced(t) /\ th'[t].pc = "idle"
<1> DEFINE r == th[t]
           f == Plus(shared, r.exp, 1)
<1>0. /\ r.pc = "give" /\ calls' = calls /\ shared \in [Blocks -> Nat]
      /\ shared' = Plus(f, r.des, 1) /\ Set(t, Idle)
      /\ UNCHANGED <<cell, strong, zero, weak, life, weakly>>
      /\ r.des \in Pointers /\ r.exp \in Pointers
  BY DEF GiveBack, At, DataOK, ThreadsOK, Thread
<1>1. ThreadsOK' /\ th'[t] = Idle /\ Others(t)
  BY <1>0, IdleShape, SetEffect DEF Others
<1>2. Idle.pc = "idle"
  BY DEF Idle
<1> HIDE DEF r, f
<1>3. /\ f \in [Blocks -> Nat]
      /\ \A c \in Blocks : f[c] = shared[c] + (IF r.exp = c THEN 1 ELSE 0)
  <2>1. r.exp # Null => shared[r.exp] + 1 >= 0
    BY <1>0 DEF Pointers
  <2> QED
    BY <1>0, <2>1, PlusEffect DEF f
<1>4. /\ shared' \in [Blocks -> Nat]
      /\ \A c \in Blocks : shared'[c] = f[c] + (IF r.des = c THEN 1 ELSE 0)
  <2>1. r.des # Null => f[r.des] + 1 >= 0
    BY <1>0, <1>3 DEF Pointers
  <2> QED
    BY <1>0, <1>3, <2>1, PlusEffect
<1>5. DataOK'
  BY <1>0, <1>4 DEF DataOK
<1>6. \A c \in Blocks : /\ InCell(c)' = InCell(c) /\ Whole(c)' = Whole(c)
                        /\ strong[c] \in Nat /\ shared[c] \in Nat /\ InCell(c) \in Nat
  BY <1>0 DEF InCell, Whole, DataOK
<1>7. \A c \in Blocks :
        /\ Refs(r, c) = (IF r.exp = c THEN 1 ELSE 0) + (IF r.des = c THEN 1 ELSE 0)
        /\ WeakRefs(r, c) = 0
  BY <1>0 DEF Refs, WeakRefs
<1>8. Balanced(t)
  BY <1>0, <1>1, <1>3, <1>4, <1>6, <1>7, IdleShape DEF Balanced, r
<1> QED
  BY <1>1, <1>2, <1>5, <1>8

(* The place changes inside a release, the registers stay.                 *)
LEMMA OnwardShape ==
    ASSUME ThreadsOK, NEW t \in Threads, th[t].pc \in Releases, NEW pc,
           pc \in {"zero", "decweak", "fence"}
    PROVE  LET q == [th[t] EXCEPT !.pc = pc] IN
           /\ Shape(q) /\ q.pc = pc /\ q.old = th[t].old
           /\ \A b \in Blocks :
                /\ Refs(q, b) = Refs(th[t], b)
                                  - (IF th[t].pc = "dec" /\ th[t].old = b THEN 1 ELSE 0)
                /\ WeakRefs(q, b) = (IF pc = "decweak" /\ th[t].old = b THEN 1 ELSE 0)
<1> DEFINE r == th[t]
           q == [r EXCEPT !.pc = pc]
<1>0. Shape(r) /\ r \in Thread /\ r.pc \in Releases
  BY DEF ThreadsOK, Shape
<1> HIDE DEF r
<1>1. /\ q \in Thread /\ q.pc = pc /\ q.exp = r.exp /\ q.des = r.des /\ q.old = r.old
      /\ q.op = r.op /\ q.cont = r.cont /\ q.pos = r.pos
  BY <1>0 DEF Thread, Pcs, Releases, Cleaning
<1> HIDE DEF q
<1>2. Shape(q)
  BY <1>0, <1>1 DEF Shape, Slotless, Loading, Releases, Cleaning
<1>3. \A b \in Blocks :
        /\ Refs(q, b) = Refs(r, b) - (IF r.pc = "dec" /\ r.old = b THEN 1 ELSE 0)
        /\ WeakRefs(q, b) = (IF pc = "decweak" /\ r.old = b THEN 1 ELSE 0)
  BY <1>1 DEF Refs, WeakRefs
<1> QED
  BY <1>1, <1>2, <1>3 DEF q, r

(* DecStrong takes back one reference; the last one goes on to "zero".     *)
LEMMA DecStrongEffect ==
    ASSUME DataOK, ThreadsOK, CountsOK, NEW t \in Threads, DecStrong(t)
    PROVE  /\ DataOK' /\ ThreadsOK' /\ Others(t) /\ Balanced(t)
           /\ th[t].old \in Blocks /\ strong[th[t].old] > 0
           /\ th'[t].pc \in {"idle", "cas", "give", "zero"}
           /\ th'[t].pc = "zero" => th'[t].old = th[t].old
           /\ \A b \in Blocks : strong'[b] <= strong[b]
<1> DEFINE b == th[t].old
           q == IF strong[b] = 1 THEN [th[t] EXCEPT !.pc = "zero"] ELSE Resume(t)
<1>0. /\ th[t].pc = "dec" /\ Shape(th[t]) /\ strong' = [strong EXCEPT ![b] = @ - 1]
      /\ Set(t, q) /\ UNCHANGED <<cell, zero, weak, life, shared, weakly, calls>>
  BY DEF DecStrong, At, ThreadsOK
<1>1. b \in Blocks
  BY <1>0 DEF Shape, Releases
<1>2. strong \in [Blocks -> Nat] /\ strong[b] > 0
  <2>1. Refs(th[t], b) >= 1
    BY <1>0 DEF Refs
  <2>2. Refs(th[t], b) <= AllRefs(b) /\ AllRefs(b) \in Nat /\ Refs(th[t], b) \in Nat
    BY RefsBound, RefsType
  <2>3. strong[b] = shared[b] + InCell(b) + AllRefs(b) /\ shared[b] \in Nat
        /\ InCell(b) \in Nat
    BY <1>1 DEF CountsOK, DataOK, InCell
  <2>4. strong[b] > 0
    BY <2>1, <2>2, <2>3
  <2> QED
    BY <2>4 DEF DataOK
<1>3. /\ Shape(q) /\ q.pc \in {"idle", "cas", "give", "zero"}
      /\ (q.pc = "zero" => q.old = b)
      /\ \A c \in Blocks : /\ Refs(q, c) = Refs(th[t], c) - (IF b = c THEN 1 ELSE 0)
                           /\ WeakRefs(q, c) = 0
  <2>1. CASE strong[b] = 1
    BY <1>0, <2>1, OnwardShape DEF Releases
  <2>2. CASE strong[b] # 1
    BY <1>0, <2>2, ResumeShape DEF Releases
  <2> QED
    BY <2>1, <2>2
<1> HIDE DEF q
<1>4. ThreadsOK' /\ th'[t] = q /\ Others(t)
  BY <1>0, <1>3, SetEffect DEF Others
<1>5. /\ strong' \in [Blocks -> Nat]
      /\ \A c \in Blocks : strong'[c] = strong[c] - (IF b = c THEN 1 ELSE 0)
  BY <1>0, <1>1, <1>2
<1>6. DataOK'
  BY <1>0, <1>5 DEF DataOK
<1>7. \A c \in Blocks : /\ InCell(c)' = InCell(c) /\ Whole(c)' = Whole(c)
                        /\ strong[c] \in Nat /\ shared[c] \in Nat /\ InCell(c) \in Nat
                        /\ Refs(th[t], c) \in Nat /\ WeakRefs(th[t], c) = 0
  BY <1>0, RefsType DEF InCell, Whole, DataOK, WeakRefs
<1>8. Balanced(t)
  BY <1>0, <1>3, <1>4, <1>5, <1>7 DEF Balanced
<1>9. \A c \in Blocks : strong'[c] <= strong[c]
  BY <1>5, <1>7
<1> QED
  BY <1>1, <1>2, <1>3, <1>4, <1>6, <1>8, <1>9

(* Dispose leaves the block alone, or sets its zero flag when no strong    *)
(* reference is left and disposes of the object.                           *)
LEMMA DisposeEffect ==
    ASSUME DataOK, ThreadsOK, LifeOK, BornOK, NEW t \in Threads, Dispose(t)
    PROVE  /\ DataOK' /\ ThreadsOK' /\ Others(t) /\ Balanced(t)
           /\ th[t].old \in Blocks
           /\ th'[t].pc \in {"idle", "cas", "give", "decweak"}
           /\ UNCHANGED <<strong, weak>>
           /\ \/ UNCHANGED <<life, zero>>
              \/ /\ strong[th[t].old] = 0 /\ life[th[t].old] = "alive"
                 /\ zero' = zero \cup {th[t].old}
                 /\ life' = [life EXCEPT ![th[t].old] = "disposed"]
<1> DEFINE b == th[t].old
           last == strong[b] = 0 /\ b \notin zero
           q == IF last THEN [th[t] EXCEPT !.pc = "decweak"] ELSE Resume(t)
<1>0. /\ th[t].pc = "zero" /\ Shape(th[t])
      /\ zero' = (IF last THEN zero \cup {b} ELSE zero)
      /\ life' = (IF last THEN [life EXCEPT ![b] = "disposed"] ELSE life)
      /\ Set(t, q) /\ UNCHANGED <<cell, strong, weak, shared, weakly, calls>>
  BY DEF Dispose, At, ThreadsOK
<1>1. b \in Blocks
  BY <1>0 DEF Shape, Releases
<1>2. last => life[b] = "alive"
  BY <1>0 DEF BornOK, Knows, Born
<1>3. /\ Shape(q) /\ q.pc \in {"idle", "cas", "give", "decweak"}
      /\ \A c \in Blocks : /\ Refs(q, c) = Refs(th[t], c)
                           /\ WeakRefs(q, c) = (IF last /\ b = c THEN 1 ELSE 0)
  <2>0. \A c \in Blocks : Refs(th[t], c) - 0 = Refs(th[t], c)
    BY RefsType
  <2>1. CASE last
    BY <1>0, <2>0, <2>1, OnwardShape DEF Releases
  <2>2. CASE ~last
    BY <1>0, <2>0, <2>2, ResumeShape DEF Releases
  <2> QED
    BY <2>1, <2>2
<1> HIDE DEF q
<1>4. ThreadsOK' /\ th'[t] = q /\ Others(t)
  BY <1>0, <1>3, SetEffect DEF Others
<1>5. DataOK'
  BY <1>0, <1>1 DEF DataOK, Lives
<1>6. \A c \in Blocks : /\ InCell(c)' = InCell(c) /\ InCell(c) \in Nat
                        /\ strong[c] \in Nat /\ shared[c] \in Nat /\ weak[c] \in Nat
                        /\ weakly[c] \in Nat /\ WeakRefs(th[t], c) = 0
  BY <1>0 DEF InCell, DataOK, WeakRefs
<1>7. \A c \in Blocks : Whole(c)' = Whole(c) - (IF last /\ b = c THEN 1 ELSE 0)
                        /\ Whole(c) \in Nat
  BY <1>0, <1>1, <1>2 DEF Whole, DataOK
<1>8. Balanced(t)
  <2> HIDE DEF last
  <2> QED
    BY <1>0, <1>3, <1>4, <1>6, <1>7 DEF Balanced
<1> QED
  BY <1>0, <1>1, <1>2, <1>3, <1>4, <1>5, <1>8

(* DecWeak takes back one weak reference.                                  *)
LEMMA DecWeakEffect ==
    ASSUME DataOK, ThreadsOK, CountsOK, NEW t \in Threads, DecWeak(t)
    PROVE  /\ DataOK' /\ ThreadsOK' /\ Others(t) /\ Balanced(t)
           /\ th[t].old \in Blocks
           /\ th'[t].pc \in {"idle", "cas", "give", "fence"}
           /\ UNCHANGED <<strong, life, zero>>
           /\ weak[th[t].old] > 0
           /\ \A b \in Blocks : weak'[b] = weak[b] - (IF th[t].old = b THEN 1 ELSE 0)
<1> DEFINE b == th[t].old
           full == weak[b] = 1 /\ slots[slot[t]].since + 1 >= Threshold
           q == IF full THEN [th[t] EXCEPT !.pc = "fence"] ELSE Resume(t)
<1>0. /\ th[t].pc = "decweak" /\ Shape(th[t]) /\ weak' = [weak EXCEPT ![b] = @ - 1]
      /\ Set(t, q) /\ UNCHANGED <<cell, zero, strong, life, shared, weakly, calls>>
  BY DEF DecWeak, At, ThreadsOK
<1>1. b \in Blocks
  BY <1>0 DEF Shape, Releases
<1>2. weak \in [Blocks -> Nat] /\ weak[b] > 0
  <2>1. WeakRefs(th[t], b) = 1
    BY <1>0 DEF WeakRefs
  <2>2. WeakRefs(th[t], b) <= AllWeakRefs(b) /\ AllWeakRefs(b) \in Nat
    BY RefsBound
  <2>3. weak[b] = weakly[b] + Whole(b) + AllWeakRefs(b) /\ weakly[b] \in Nat /\ Whole(b) \in Nat
    BY <1>1 DEF CountsOK, DataOK, Whole
  <2>4. weak[b] > 0
    BY <2>1, <2>2, <2>3
  <2> QED
    BY <2>4 DEF DataOK
<1>3. /\ Shape(q) /\ q.pc \in {"idle", "cas", "give", "fence"}
      /\ \A c \in Blocks : Refs(q, c) = Refs(th[t], c) /\ WeakRefs(q, c) = 0
  <2>0. \A c \in Blocks : Refs(th[t], c) - 0 = Refs(th[t], c)
    BY RefsType
  <2>1. CASE full
    BY <1>0, <2>0, <2>1, OnwardShape DEF Releases
  <2>2. CASE ~full
    BY <1>0, <2>0, <2>2, ResumeShape DEF Releases
  <2> QED
    BY <2>1, <2>2
<1> HIDE DEF q
<1>4. ThreadsOK' /\ th'[t] = q /\ Others(t)
  BY <1>0, <1>3, SetEffect DEF Others
<1>5. /\ weak' \in [Blocks -> Nat]
      /\ \A c \in Blocks : weak'[c] = weak[c] - (IF b = c THEN 1 ELSE 0)
  BY <1>0, <1>1, <1>2
<1>6. DataOK'
  BY <1>0, <1>5 DEF DataOK
<1>7. \A c \in Blocks : /\ InCell(c)' = InCell(c) /\ Whole(c)' = Whole(c)
                        /\ weak[c] \in Nat /\ weakly[c] \in Nat /\ Whole(c) \in Nat
                        /\ WeakRefs(th[t], c) = (IF b = c THEN 1 ELSE 0)
  BY <1>0, RefsType DEF InCell, Whole, DataOK, WeakRefs
<1>8. Balanced(t)
  BY <1>0, <1>3, <1>4, <1>5, <1>7 DEF Balanced
<1> QED
  BY <1>0, <1>1, <1>2, <1>3, <1>4, <1>5, <1>6, <1>8

(* Destroy frees what was retired and not seen: blocks disposed of,        *)
(* without references.                                                     *)
LEMMA DestroyEffect ==
    ASSUME DataOK, ThreadsOK, SlotsOK, RetiredOnce, NEW t \in Threads, Destroy(t)
    PROVE  /\ DataOK' /\ ThreadsOK' /\ Others(t) /\ Balanced(t)
           /\ th'[t].pc \in {"idle", "cas", "give"}
           /\ UNCHANGED <<strong, weak, zero>>
           /\ \A b \in Blocks :
                IF slots[slot[t]].retired[b] > 0 /\ b \notin th[t].seen
                THEN life'[b] = "free" /\ life[b] = "disposed" /\ weak[b] = 0
                ELSE life'[b] = life[b]
<1> DEFINE Gone(b) == slots[slot[t]].retired[b] > 0 /\ b \notin th[t].seen
<1>0. /\ th[t].pc = "destroy" /\ Shape(th[t])
      /\ life' = [b \in Blocks |-> IF Gone(b) THEN "free" ELSE life[b]]
      /\ Set(t, Resume(t))
      /\ UNCHANGED <<cell, zero, strong, weak, shared, weakly, calls>>
  BY DEF Destroy, At, ThreadsOK
<1>1. \A b \in Blocks : Gone(b) => life[b] = "disposed" /\ weak[b] = 0
  <2>1. slot[t] \in DOMAIN slots
    BY <1>0, SMTT(60) DEF SlotsOK, Slotless
  <2> QED
    BY <2>1 DEF RetiredOnce
<1> HIDE DEF Gone
<1>2. /\ Shape(Resume(t)) /\ Resume(t).pc \in {"idle", "cas", "give"}
      /\ \A c \in Blocks : Refs(Resume(t), c) = Refs(th[t], c) /\ WeakRefs(Resume(t), c) = 0
  <2>0. \A c \in Blocks : Refs(th[t], c) - 0 = Refs(th[t], c)
    BY RefsType
  <2> QED
    BY <1>0, <2>0, ResumeShape DEF Cleaning
<1>3. ThreadsOK' /\ th'[t] = Resume(t) /\ Others(t)
  BY <1>0, <1>2, SetEffect DEF Others
<1>4. /\ life' \in [Blocks -> Lives]
      /\ \A c \in Blocks : IF Gone(c) THEN life'[c] = "free" ELSE life'[c] = life[c]
  BY <1>0 DEF DataOK, Lives
<1>5. DataOK'
  BY <1>0, <1>4 DEF DataOK
<1>6. \A c \in Blocks : /\ InCell(c)' = InCell(c) /\ Whole(c)' = Whole(c)
                        /\ WeakRefs(th[t], c) = 0
  BY <1>0, <1>1, <1>4 DEF InCell, Whole, WeakRefs
<1>7. Balanced(t)
  BY <1>0, <1>2, <1>3, <1>6 DEF Balanced
<1> QED
  BY <1>0, <1>1, <1>2, <1>3, <1>4, <1>5, <1>7 DEF Gone

(* load() before it has its answer: the cell is looked at.                 *)
LEMMA LookShape ==
    ASSUME ThreadsOK, NEW t \in Threads, th[t].pc \in Loading \cup {"read"}, NEW c \in Pointers,
           NEW pc \in {"announce", "read"}, pc = "announce" => c # Null
    PROVE  LET q == [th[t] EXCEPT !.pc = pc, !.cur = c] IN
           /\ Shape(q) /\ q.pc = pc /\ q.cur = c
           /\ \A b \in Blocks : /\ Refs(q, b) = Refs(th[t], b)
                                /\ WeakRefs(q, b) = WeakRefs(th[t], b)
<1> DEFINE r == th[t]
           q == [r EXCEPT !.pc = pc, !.cur = c]
<1>0. Shape(r) /\ r \in Thread /\ r.pc \in Loading \cup {"read"}
  BY DEF ThreadsOK, Shape
<1> HIDE DEF r
<1>1. /\ q \in Thread /\ q.pc = pc /\ q.exp = r.exp /\ q.des = r.des /\ q.cur = c
      /\ q.op = r.op /\ q.cont = r.cont /\ q.pos = r.pos
  BY <1>0 DEF Thread, Pcs, Loading
<1> HIDE DEF q
<1>2. Shape(q)
  BY <1>0, <1>1 DEF Shape, Slotless, Loading, Releases, Cleaning, Pointers
<1>3. \A b \in Blocks : Refs(q, b) = Refs(r, b) /\ WeakRefs(q, b) = WeakRefs(r, b)
  BY <1>0, <1>1, SameRefs DEF Loading
<1> QED
  BY <1>1, <1>2, <1>3 DEF q, r

(* Arithmetic of a step that adds i references to the count and to the     *)
(* owners.                                                                 *)
LEMMA Shifted ==
    ASSUME NEW n \in Nat, NEW i \in Nat, NEW h \in Nat, NEW k \in Nat, NEW c \in Nat,
           NEW r \in Nat, NEW q \in Nat, k + q = h + r + i
    PROVE  (n + i) + h + c + r = n + k + c + q
  OBVIOUS

(* What Read and Check do.                                                 *)
LEMMA LookEffect ==
    ASSUME DataOK, ThreadsOK, NEW t \in Threads, Read(t) \/ Check(t)
    PROVE  /\ DataOK' /\ ThreadsOK' /\ Others(t) /\ Balanced(t)
           /\ UNCHANGED <<cell, strong, zero, weak, life, weakly>>
           /\ \/ th'[t].pc \in {"idle", "cas", "give", "dec"}
              \/ th'[t].pc = "announce" /\ th'[t].cur = cell
              \/ th[t].pc = "check" /\ th'[t].pc = "inc" /\ th'[t].cur = cell
                 /\ th[t].cur = cell
<1>0. /\ th[t].pc \in {"read", "check"} /\ cell \in Pointers
      /\ UNCHANGED <<cell, strong, zero, weak, life, weakly, calls>>
      /\ \A b \in Blocks : /\ strong[b] \in Nat /\ shared[b] \in Nat /\ InCell(b) \in Nat
                           /\ Refs(th[t], b) \in Nat
                           /\ InCell(b)' = InCell(b) /\ Whole(b)' = Whole(b)
  <2>1. /\ th[t].pc \in {"read", "check"} /\ cell \in Pointers
        /\ UNCHANGED <<cell, strong, zero, weak, life, weakly, calls>>
    BY DEF Read, Check, At, DataOK
  <2> QED
    BY <2>1, RefsType DEF DataOK, InCell, Whole
<1>1. \/ Loaded(t, Null)
      \/ cell # Null /\ Set(t, [th[t] EXCEPT !.pc = "announce", !.cur = cell])
         /\ shared' = shared
      \/ th[t].pc = "check" /\ cell = th[t].cur /\ Set(t, [th[t] EXCEPT !.pc = "inc"])
         /\ shared' = shared
  BY DEF Read, Check, At
<1>2. CASE Loaded(t, Null)
  <2>1. /\ ThreadsOK' /\ Others(t) /\ th'[t].pc \in {"idle", "cas", "give", "dec"}
        /\ shared' \in [Blocks -> Nat]
        /\ \A b \in Blocks :
             /\ shared'[b] + Refs(th'[t], b)
                  = shared[b] + Refs(th[t], b) + (IF Null = b THEN 1 ELSE 0)
             /\ WeakRefs(th'[t], b) = WeakRefs(th[t], b)
    BY <1>0, <1>2, LoadedEffect DEF Loading, Pointers
  <2>2. DataOK'
    BY <1>0, <2>1 DEF DataOK
  <2>3. \A b \in Blocks : /\ shared'[b] \in Nat /\ Refs(th'[t], b) \in Nat
                          /\ shared'[b] + Refs(th'[t], b) = shared[b] + Refs(th[t], b)
    BY <1>0, <2>1, RefsType, BlockAssumption
  <2>4. Balanced(t)
    <3> SUFFICES ASSUME NEW b \in Blocks
                 PROVE  strong[b] + shared[b] + InCell(b) + Refs(th[t], b)
                          = strong[b] + shared'[b] + InCell(b) + Refs(th'[t], b)
      BY <1>0, <2>1 DEF Balanced
    <3> QED
      BY <1>0, <2>3
  <2> QED
    BY <1>0, <2>1, <2>2, <2>4
<1>3. CASE /\ cell # Null /\ Set(t, [th[t] EXCEPT !.pc = "announce", !.cur = cell])
           /\ shared' = shared
  <2> DEFINE q == [th[t] EXCEPT !.pc = "announce", !.cur = cell]
  <2>1. /\ Shape(q) /\ q.pc = "announce" /\ q.cur = cell
        /\ \A b \in Blocks : /\ Refs(q, b) = Refs(th[t], b)
                             /\ WeakRefs(q, b) = WeakRefs(th[t], b)
    <3>1. th[t].pc \in Loading \cup {"read"} /\ cell \in Pointers /\ cell # Null
      BY <1>0, <1>3 DEF Loading
    <3> QED
      BY <3>1, LookShape, ZenonT(60)
  <2> HIDE DEF q
  <2>2. ThreadsOK' /\ th'[t] = q /\ Others(t)
    BY <1>3, <2>1, SetEffect DEF Others, q
  <2>3. DataOK' /\ Balanced(t)
    BY <1>0, <1>3, <2>1, <2>2 DEF DataOK, Balanced
  <2> QED
    BY <1>0, <2>1, <2>2, <2>3, SMTT(60)
<1>4. CASE /\ th[t].pc = "check" /\ cell = th[t].cur /\ Set(t, [th[t] EXCEPT !.pc = "inc"])
           /\ shared' = shared
  <2>1. /\ ThreadsOK' /\ Others(t) /\ Keeps(t) /\ th'[t].pc = "inc"
        /\ th'[t].cur = th[t].cur
    BY <1>4, GotoEffect
  <2>2. DataOK' /\ Balanced(t)
    BY <1>0, <1>4, <2>1 DEF DataOK, Balanced, Keeps
  <2> QED
    BY <1>0, <1>4, <2>1, <2>2
<1> QED
  BY <1>1, <1>2, <1>3, <1>4

(* Increment adds a reference to a block that is alive, or to none.        *)
LEMMA IncrementEffect ==
    ASSUME DataOK, ThreadsOK, LifeOK, BornOK, NEW t \in Threads, Increment(t)
    PROVE  /\ DataOK' /\ ThreadsOK' /\ Others(t) /\ Balanced(t)
           /\ th'[t].pc \in {"idle", "cas", "give", "dec", "read"}
           /\ UNCHANGED <<cell, zero, weak, life, weakly>>
           /\ \A b \in Blocks : strong'[b] = strong[b] \/ life[b] = "alive"
<1> DEFINE b == th[t].cur
<1>0. /\ th[t].pc = "inc" /\ b \in Blocks
      /\ UNCHANGED <<cell, zero, weak, life, weakly, calls>>
      /\ \A c \in Blocks : /\ strong[c] \in Nat /\ shared[c] \in Nat /\ InCell(c) \in Nat
                           /\ Refs(th[t], c) \in Nat
                           /\ InCell(c)' = InCell(c) /\ Whole(c)' = Whole(c)
  <2>1. /\ th[t].pc = "inc" /\ Shape(th[t])
        /\ UNCHANGED <<cell, zero, weak, life, weakly, calls>>
    BY DEF Increment, At, ThreadsOK
  <2>2. b \in Blocks
    BY <2>1 DEF Shape, Loading
  <2> QED
    BY <2>1, <2>2, RefsType DEF DataOK, InCell, Whole
<1>1. CASE b \in zero
  <2> DEFINE q == [th[t] EXCEPT !.pc = "read", !.cur = Null]
  <2>0. Set(t, q) /\ UNCHANGED <<strong, shared>>
    BY <1>1 DEF Increment
  <2>1. /\ Shape(q) /\ q.pc = "read"
        /\ \A c \in Blocks : /\ Refs(q, c) = Refs(th[t], c)
                             /\ WeakRefs(q, c) = WeakRefs(th[t], c)
    <3>1. th[t].pc \in Loading \cup {"read"} /\ Null \in Pointers
      BY <1>0 DEF Loading, Pointers
    <3> QED
      BY <3>1, LookShape, ZenonT(60)
  <2> HIDE DEF q
  <2>2. ThreadsOK' /\ th'[t] = q /\ Others(t)
    BY <2>0, <2>1, SetEffect DEF Others
  <2>3. DataOK' /\ Balanced(t)
    BY <1>0, <2>0, <2>1, <2>2 DEF DataOK, Balanced
  <2> QED
    BY <1>0, <2>0, <2>1, <2>2, <2>3
<1>2. CASE b \notin zero
  <2>0. Loaded(t, b) /\ strong' = [strong EXCEPT ![b] = @ + 1] /\ b \in Pointers
    BY <1>0, <1>2 DEF Increment, IncStrong, Pointers
  <2>1. /\ ThreadsOK' /\ Others(t) /\ th'[t].pc \in {"idle", "cas", "give", "dec"}
        /\ shared' \in [Blocks -> Nat]
        /\ \A c \in Blocks :
             /\ shared'[c] + Refs(th'[t], c)
                  = shared[c] + Refs(th[t], c) + (IF b = c THEN 1 ELSE 0)
             /\ WeakRefs(th'[t], c) = WeakRefs(th[t], c)
    BY <1>0, <2>0, LoadedEffect DEF Loading
  <2>2. /\ strong' \in [Blocks -> Nat]
        /\ \A c \in Blocks : strong'[c] = strong[c] + (IF b = c THEN 1 ELSE 0)
    BY <1>0, <2>0 DEF DataOK
  <2>3. DataOK'
    BY <1>0, <2>1, <2>2 DEF DataOK
  <2>4. \A c \in Blocks : shared'[c] \in Nat /\ Refs(th'[t], c) \in Nat
    BY <2>1, RefsType
  <2>5. Balanced(t)
    <3> SUFFICES ASSUME NEW c \in Blocks
                 PROVE  strong'[c] + shared[c] + InCell(c) + Refs(th[t], c)
                          = strong[c] + shared'[c] + InCell(c) + Refs(th'[t], c)
      BY <1>0, <2>1 DEF Balanced
    <3> DEFINE i == IF b = c THEN 1 ELSE 0
    <3>1. /\ strong'[c] = strong[c] + i /\ i \in Nat
          /\ shared'[c] + Refs(th'[t], c) = shared[c] + Refs(th[t], c) + i
      BY <2>1, <2>2
    <3> HIDE DEF i
    <3> QED
      BY <1>0, <2>4, <3>1, Shifted
  <2>6. life[b] = "alive"
    BY <1>0, <1>2 DEF BornOK, Knows, Born, Loading
  <2>7. \A c \in Blocks : strong'[c] = strong[c] \/ life[c] = "alive"
    BY <1>0, <2>2, <2>6
  <2> QED
    BY <1>0, <2>1, <2>3, <2>5, <2>7
<1> QED
  BY <1>1, <1>2

-----------------------------------------------------------------------------
(* What is done to handles alone.                                          *)

(* Who owns a block, or a weak reference to it, finds it there.            *)
LEMMA OwnedBlock ==
    ASSUME DataOK, CountsOK, LifeOK, NEW b \in Blocks
    PROVE  /\ shared[b] > 0 \/ cell = b => strong[b] > 0
           /\ strong[b] > 0 => life[b] = "alive"
           /\ weakly[b] > 0 => weak[b] > 0
           /\ weak[b] > 0 => life[b] # "free"
           /\ weakly[b] > 0 /\ b \notin zero => life[b] = "alive"
           /\ strong[b] = 0 => shared[b] = 0 /\ InCell(b) = 0 /\ AllRefs(b) = 0
           /\ weak[b] = 0 => weakly[b] = 0 /\ Whole(b) = 0 /\ AllWeakRefs(b) = 0
<1>1. /\ strong[b] = shared[b] + InCell(b) + AllRefs(b)
      /\ weak[b] = weakly[b] + Whole(b) + AllWeakRefs(b)
      /\ shared[b] \in Nat /\ InCell(b) \in Nat /\ AllRefs(b) \in Nat
      /\ weakly[b] \in Nat /\ Whole(b) \in Nat /\ AllWeakRefs(b) \in Nat
      /\ (cell = b => InCell(b) = 1)
  BY RefsNat DEF DataOK, CountsOK, InCell, Whole
<1>2. /\ life[b] \in Lives
      /\ life[b] = "alive" => b \notin zero
      /\ life[b] = "disposed" => b \in zero
      /\ life[b] # "alive" => strong[b] = 0
      /\ life[b] = "free" => weak[b] = 0
  BY DEF LifeOK, DataOK
<1>3. \A n, i, j, k \in Nat : n = i + j + k =>
        (n = 0 => i = 0 /\ j = 0 /\ k = 0) /\ (i > 0 \/ j = 1 => n > 0)
  OBVIOUS
<1>4. /\ strong[b] \in Nat /\ weak[b] \in Nat
      /\ strong[b] = 0 => shared[b] = 0 /\ InCell(b) = 0 /\ AllRefs(b) = 0
      /\ weak[b] = 0 => weakly[b] = 0 /\ Whole(b) = 0 /\ AllWeakRefs(b) = 0
      /\ shared[b] > 0 \/ cell = b => strong[b] > 0
      /\ weakly[b] > 0 => weak[b] > 0
  BY <1>1, <1>3
<1> QED
  BY <1>2, <1>4 DEF Lives

(* Registers that stay as they are hold the same references.               *)
LEMMA SameThreads ==
    ASSUME UNCHANGED th
    PROVE  \A b : AllRefs(b)' = AllRefs(b) /\ AllWeakRefs(b)' = AllWeakRefs(b)
  BY DEF AllRefs, AllWeakRefs

(* Make starts a life with one owner.                                      *)
LEMMA MakeEffect ==
    ASSUME DataOK, CountsOK, LifeOK, NEW b \in Blocks, Make(b)
    PROVE  DataOK' /\ CountsOK' /\ LifeOK' /\ UNCHANGED <<cell, hazard, th>>
<1>0. /\ calls' \in 0 .. MaxCalls /\ UNCHANGED <<cell, weakly, hazard, th>>
      /\ life[b] = "free" /\ life' = [life EXCEPT ![b] = "alive"]
      /\ strong' = [strong EXCEPT ![b] = 1] /\ weak' = [weak EXCEPT ![b] = 1]
      /\ zero' = zero \ {b} /\ shared' = [shared EXCEPT ![b] = 1]
  BY BoundAssumption DEF Make, Call, DataOK
<1>1. /\ shared[b] = 0 /\ InCell(b) = 0 /\ AllRefs(b) = 0
      /\ weakly[b] = 0 /\ Whole(b) = 0 /\ AllWeakRefs(b) = 0
  BY <1>0, OwnedBlock DEF LifeOK
<1>2. DataOK'
  BY <1>0 DEF DataOK, Lives
<1>3. /\ strong'[b] = 1 /\ weak'[b] = 1 /\ shared'[b] = 1 /\ life'[b] = "alive"
      /\ \A c \in Blocks \ {b} : /\ strong'[c] = strong[c] /\ weak'[c] = weak[c]
                                 /\ shared'[c] = shared[c] /\ life'[c] = life[c]
                                 /\ (c \in zero' <=> c \in zero)
      /\ b \notin zero'
  BY <1>0 DEF DataOK
<1>4. CountsOK'
  <2> SUFFICES ASSUME NEW c \in Blocks
               PROVE  /\ strong'[c] = shared'[c] + InCell(c)' + AllRefs(c)'
                      /\ weak'[c] = weakly'[c] + Whole(c)' + AllWeakRefs(c)'
    BY DEF CountsOK
  <2>1. /\ AllRefs(c)' = AllRefs(c) /\ AllWeakRefs(c)' = AllWeakRefs(c)
        /\ InCell(c)' = InCell(c) /\ weakly'[c] = weakly[c]
    BY <1>0, SameThreads DEF InCell
  <2>2. CASE c = b
    <3>1. Whole(c)' = 1
      BY <1>3, <2>2 DEF Whole
    <3> QED
      BY <1>1, <1>3, <2>1, <2>2, <3>1
  <2>3. CASE c # b
    <3>1. Whole(c)' = Whole(c)
      BY <1>3, <2>3 DEF Whole
    <3> QED
      BY <1>3, <2>1, <2>3, <3>1 DEF CountsOK
  <2> QED
    BY <2>2, <2>3
<1>5. LifeOK'
  BY <1>3 DEF LifeOK
<1> QED
  BY <1>0, <1>2, <1>4, <1>5

(* Copies of handles count themselves, and only on blocks that are alive.  *)
LEMMA CopyEffect ==
    ASSUME DataOK, CountsOK, LifeOK, NEW b \in Blocks,
           CopyShared(b) \/ WeakFromShared(b) \/ Lock(b)
    PROVE  DataOK' /\ CountsOK' /\ LifeOK' /\ UNCHANGED <<cell, life, zero, hazard, th>>
           /\ \A c \in Blocks : weak[c] = 0 => weak'[c] = 0
<1>0. calls' \in 0 .. MaxCalls /\ UNCHANGED <<cell, life, zero, hazard, th>>
  BY BoundAssumption DEF CopyShared, WeakFromShared, Lock, Call, DataOK
<1>1. life[b] = "alive" \/ UNCHANGED <<strong, weak, shared, weakly>>
  BY OwnedBlock DEF CopyShared, WeakFromShared, Lock
<1>2. \/ UNCHANGED <<strong, weak, shared, weakly>>
      \/ /\ strong' = [strong EXCEPT ![b] = @ + 1] /\ shared' = [shared EXCEPT ![b] = @ + 1]
         /\ UNCHANGED <<weak, weakly>>
      \/ /\ weak' = [weak EXCEPT ![b] = @ + 1] /\ weakly' = [weakly EXCEPT ![b] = @ + 1]
         /\ UNCHANGED <<strong, shared>> /\ life[b] = "alive"
  BY OwnedBlock DEF CopyShared, WeakFromShared, Lock, IncStrong, IncWeak
<1>3. \A c \in Blocks : /\ AllRefs(c)' = AllRefs(c) /\ AllWeakRefs(c)' = AllWeakRefs(c)
                        /\ InCell(c)' = InCell(c) /\ Whole(c)' = Whole(c)
                        /\ AllRefs(c) \in Nat /\ AllWeakRefs(c) \in Nat
                        /\ InCell(c) \in Nat /\ Whole(c) \in Nat
  BY <1>0, SameThreads, RefsNat DEF InCell, Whole
<1>4. /\ DataOK'
      /\ \A c \in Blocks :
           \/ /\ strong'[c] = strong[c] /\ shared'[c] = shared[c]
              /\ weak'[c] = weak[c] /\ weakly'[c] = weakly[c]
           \/ /\ strong'[c] = strong[c] + 1 /\ shared'[c] = shared[c] + 1
              /\ weak'[c] = weak[c] /\ weakly'[c] = weakly[c] /\ life[c] = "alive"
           \/ /\ strong'[c] = strong[c] /\ shared'[c] = shared[c]
              /\ weak'[c] = weak[c] + 1 /\ weakly'[c] = weakly[c] + 1 /\ life[c] = "alive"
  <2>1. CASE UNCHANGED <<strong, weak, shared, weakly>>
    BY <1>0, <2>1 DEF DataOK
  <2>2. CASE /\ strong' = [strong EXCEPT ![b] = @ + 1] /\ shared' = [shared EXCEPT ![b] = @ + 1]
             /\ UNCHANGED <<weak, weakly>>
    <3>1. life[b] = "alive"
      BY <1>1, <2>2 DEF DataOK
    <3> QED
      BY <1>0, <2>2, <3>1 DEF DataOK
  <2>3. CASE /\ weak' = [weak EXCEPT ![b] = @ + 1] /\ weakly' = [weakly EXCEPT ![b] = @ + 1]
             /\ UNCHANGED <<strong, shared>> /\ life[b] = "alive"
    BY <1>0, <2>3 DEF DataOK
  <2> QED
    BY <1>2, <2>1, <2>2, <2>3
<1>5. CountsOK'
  <2> SUFFICES ASSUME NEW c \in Blocks
               PROVE  /\ strong'[c] = shared'[c] + InCell(c)' + AllRefs(c)'
                      /\ weak'[c] = weakly'[c] + Whole(c)' + AllWeakRefs(c)'
    BY DEF CountsOK
  <2>1. /\ strong[c] = shared[c] + InCell(c) + AllRefs(c) /\ shared[c] \in Nat
        /\ weak[c] = weakly[c] + Whole(c) + AllWeakRefs(c) /\ weakly[c] \in Nat
    BY DEF CountsOK, DataOK
  <2> QED
    BY <1>3, <1>4, <2>1
<1>6. LifeOK'
  BY <1>0, <1>4 DEF LifeOK
<1>7. \A c \in Blocks : weak[c] = 0 => weak'[c] = 0
  <2> TAKE c \in Blocks
  <2>1. life[c] = "alive" => weak[c] # 0
    BY OwnedBlock DEF Whole
  <2> QED
    BY <1>4, <2>1
<1> QED
  BY <1>0, <1>4, <1>5, <1>6, <1>7

(* Exchange swaps a handle with the cell.                                  *)
LEMMA ExchangeEffect ==
    ASSUME DataOK, CountsOK, LifeOK, NEW t \in Threads, NEW d \in Handles, Exchange(t, d)
    PROVE  DataOK' /\ CountsOK' /\ LifeOK' /\ UNCHANGED <<weak, life, zero, hazard, th>>
<1> DEFINE f == Plus(shared, d, -1)
<1>0. /\ calls' \in 0 .. MaxCalls /\ shared \in [Blocks -> Nat] /\ cell \in Pointers
      /\ cell' = d /\ shared' = Plus(f, cell, 1)
      /\ UNCHANGED <<strong, zero, weak, life, weakly, hazard, th>>
      /\ d \in Pointers /\ (d # Null => shared[d] > 0)
  BY BoundAssumption DEF Exchange, Call, DataOK, Handles
<1> HIDE DEF f
<1>1. /\ f \in [Blocks -> Nat]
      /\ \A c \in Blocks : f[c] = shared[c] + (IF d = c THEN -1 ELSE 0)
  <2>1. d # Null => shared[d] + (-1) >= 0
    BY <1>0 DEF Pointers
  <2> QED
    BY <1>0, <2>1, PlusEffect DEF f
<1>2. /\ shared' \in [Blocks -> Nat]
      /\ \A c \in Blocks : shared'[c] = f[c] + (IF cell = c THEN 1 ELSE 0)
  <2>1. cell # Null => f[cell] + 1 >= 0
    BY <1>0, <1>1 DEF Pointers
  <2> QED
    BY <1>0, <1>1, <2>1, PlusEffect
<1>3. DataOK'
  BY <1>0, <1>2 DEF DataOK
<1>4. \A c \in Blocks : /\ AllRefs(c)' = AllRefs(c) /\ AllWeakRefs(c)' = AllWeakRefs(c)
                        /\ InCell(c) = (IF cell = c THEN 1 ELSE 0)
                        /\ InCell(c)' = (IF d = c THEN 1 ELSE 0)
                        /\ Whole(c)' = Whole(c) /\ AllRefs(c) \in Nat /\ shared[c] \in Nat
  BY <1>0, SameThreads, RefsNat DEF InCell, Whole
<1>5. CountsOK'
  BY <1>0, <1>1, <1>2, <1>4 DEF CountsOK
<1>6. LifeOK'
  BY <1>0 DEF LifeOK
<1> QED
  BY <1>0, <1>3, <1>5, <1>6

-----------------------------------------------------------------------------
(* Every step of a thread keeps the books.                                 *)

(* The counts of a block change while somebody may change them.            *)
Steady ==
    /\ UNCHANGED <<life, zero>>
    /\ \A b \in Blocks : /\ strong'[b] = strong[b] \/ life[b] = "alive"
                         /\ weak'[b] = weak[b] \/ life[b] # "free"

(* A steady step ends no life and frees nothing.                           *)
LEMMA SteadyStep ==
    ASSUME LifeOK, Steady
    PROVE  LifeOK' /\ \A b : Born(b)' <=> Born(b)
  BY DEF LifeOK, Steady, Born

(* Only the thread that steps can come to hold a block that was never      *)
(* made.                                                                   *)
LEMMA KnowsStep ==
    ASSUME BornOK, NEW t \in Threads, Others(t), Knows(t)', \A b : Born(b) => Born(b)'
    PROVE  BornOK'
<1> SUFFICES ASSUME NEW u \in Threads
             PROVE  Knows(u)'
  BY DEF BornOK
<1>1. CASE u = t
  BY <1>1
<1>2. CASE u # t
  <2>1. th'[u] = th[u] /\ Knows(u)
    BY <1>2 DEF Others, BornOK
  <2>2. /\ th[u].pc \in Loading => Born(th[u].cur)'
        /\ th[u].pc = "zero" => Born(th[u].old)'
    <3>1. \A b : Born(b) => life'[b] = "alive" \/ b \in zero'
      BY DEF Born
    <3> QED
      BY <2>1, <3>1 DEF Knows, Born
  <2> QED
    BY <2>1, <2>2 DEF Knows, Born
<1> QED
  BY <1>1, <1>2

Quiet(t) == \/ TakeSlot(t) \/ NextSlot(t) \/ NewSlot(t) \/ Exit(t) \/ Load(t)
            \/ Fence(t) \/ Scan(t) \/ Announce(t) \/ CasFails(t)

(* A quiet step changes no count and no reference.                         *)
LEMMA QuietEffect ==
    ASSUME DataOK, ThreadsOK, SlotsOK, NEW t \in Threads, Quiet(t)
    PROVE  /\ ThreadsOK' /\ Others(t) /\ Keeps(t)
           /\ UNCHANGED <<cell, counts>> /\ calls' \in 0 .. MaxCalls
           /\ th'[t].pc \in {"idle", "find", "new", "read", "check", "scan", "destroy"}
           /\ th'[t].pc = "check" => th[t].pc = "announce" /\ th'[t].cur = th[t].cur
<1>1. UNCHANGED <<cell, counts>> /\ calls' \in 0 .. MaxCalls
  <2>1. UNCHANGED <<cell, counts>> /\ (UNCHANGED calls \/ Call)
    BY DEF Quiet, TakeSlot, NextSlot, NewSlot, Exit, Load, Fence, Scan, Announce, CasFails
  <2>2. calls' \in 0 .. MaxCalls
    BY <2>1, BoundAssumption DEF Call, DataOK
  <2> QED
    BY <2>1, <2>2
<1>2. CASE TakeSlot(t) \/ NewSlot(t) \/ Exit(t)
  <2>1. \/ Set(t, Idle) /\ th[t].pc \in Slotless
        \/ Set(t, [Idle EXCEPT !.pc = "find"]) /\ th[t].pc = "idle"
    BY <1>2 DEF TakeSlot, NewSlot, Exit, At, Slotless
  <2>2. ThreadsOK' /\ Others(t) /\ Keeps(t)
    BY <2>1, SlotSteps
  <2>3. th'[t].pc \in {"idle", "find"}
    BY <2>1 DEF ThreadsOK, Set, Idle
  <2> QED
    BY <1>1, <2>2, <2>3
<1>3. CASE NextSlot(t)
  BY <1>1, <1>3, NextSlotEffect
<1>4. CASE Load(t)
  BY <1>1, <1>4, LoadEffect
<1>5. CASE Scan(t)
  BY <1>1, <1>5, ScanEffect
<1>6. CASE Fence(t)
  BY <1>1, <1>6, GotoEffect DEF Fence, At
<1>7. CASE Announce(t)
  BY <1>1, <1>7, GotoEffect DEF Announce, At
<1>8. CASE CasFails(t)
  BY <1>1, <1>8, GotoEffect DEF CasFails, At
<1> QED
  BY <1>2, <1>3, <1>4, <1>5, <1>6, <1>7, <1>8 DEF Quiet

(* So it keeps the books.                                                  *)
LEMMA QuietBooks ==
    ASSUME Books, SlotsOK, NEW t \in Threads, Quiet(t)
    PROVE  Books'
<1>0. DataOK /\ ThreadsOK /\ CountsOK /\ LifeOK /\ BornOK
  BY DEF Books
<1>1. /\ ThreadsOK' /\ Others(t) /\ Keeps(t)
      /\ UNCHANGED <<cell, counts>> /\ calls' \in 0 .. MaxCalls
      /\ th'[t].pc \in {"idle", "find", "new", "read", "check", "scan", "destroy"}
      /\ th'[t].pc = "check" => th[t].pc = "announce" /\ th'[t].cur = th[t].cur
  BY <1>0, QuietEffect
<1>2. DataOK' /\ Balanced(t)
  BY <1>0, <1>1, QuietStep
<1>3. CountsOK'
  BY <1>0, <1>1, <1>2, BalancedStep
<1>4. Steady
  BY <1>1 DEF Steady, counts
<1>5. LifeOK' /\ \A b : Born(b)' <=> Born(b)
  BY <1>0, <1>4, SteadyStep
<1>6. Knows(t)'
  BY <1>0, <1>1, <1>5 DEF Knows, BornOK, Born, Loading
<1>7. BornOK'
  BY <1>0, <1>1, <1>5, <1>6, KnowsStep
<1> QED
  BY <1>1, <1>2, <1>3, <1>5, <1>7 DEF Books

(* The calls that move or count references.                                *)
Moving(t) ==
    \/ Read(t) \/ Check(t) \/ Increment(t) \/ CasSucceeds(t) \/ GiveBack(t)
    \/ DecStrong(t) \/ DecWeak(t)
    \/ \E b \in Blocks : DropShared(t, b) \/ DropWeak(t, b)
    \/ \E d \in Handles : Store(t, d)
    \/ \E op \in {"weak", "strong"}, e, d \in Handles : CompareExchange(t, op, e, d)

(* A moving step is balanced, ends no life, and leads to "inc" only from a *)
(* check that succeeds.                                                    *)
LEMMA MovingEffect ==
    ASSUME Books, NEW t \in Threads, Moving(t)
    PROVE  /\ DataOK' /\ ThreadsOK' /\ Others(t) /\ Balanced(t) /\ Steady /\ Knows(t)'
           /\ th'[t].pc \in {"idle", "cas", "give", "read", "announce", "inc", "dec", "zero",
                             "decweak", "fence"}
           /\ th'[t].pc = "inc" => /\ th[t].pc = "check" /\ cell = th[t].cur
                                   /\ th'[t].cur = cell
<1>0. DataOK /\ ThreadsOK /\ CountsOK /\ LifeOK /\ BornOK
  BY DEF Books
<1>1. CASE Read(t) \/ Check(t)
  <2>1. /\ DataOK' /\ ThreadsOK' /\ Others(t) /\ Balanced(t)
        /\ UNCHANGED <<cell, strong, zero, weak, life, weakly>>
        /\ \/ th'[t].pc \in {"idle", "cas", "give", "dec"}
           \/ th'[t].pc = "announce" /\ th'[t].cur = cell
           \/ th[t].pc = "check" /\ th'[t].pc = "inc" /\ th'[t].cur = cell
              /\ th[t].cur = cell
    BY <1>0, <1>1, LookEffect
  <2>2. Steady
    BY <2>1 DEF Steady
  <2>3. \A b : Born(b)' <=> Born(b)
    BY <1>0, <2>2, SteadyStep
  <2>4. Knows(t)'
    <3>1. ThreadsOK' => (th'[t].pc \in Loading => th'[t].cur \in Blocks)
      BY DEF ThreadsOK, Shape
    <3>2. cell \in Blocks => Born(cell)
      BY <1>0, OwnedBlock DEF Born
    <3>3. cell \in Blocks => life'[cell] = "alive" \/ cell \in zero'
      BY <2>1, <3>2 DEF Born
    <3> QED
      BY <2>1, <3>1, <3>3 DEF Knows, Born, Loading
  <2> QED
    BY <2>1, <2>2, <2>4
<1>2. CASE Increment(t)
  <2>1. /\ DataOK' /\ ThreadsOK' /\ Others(t) /\ Balanced(t)
        /\ th'[t].pc \in {"idle", "cas", "give", "dec", "read"}
        /\ UNCHANGED <<cell, zero, weak, life, weakly>>
        /\ \A b \in Blocks : strong'[b] = strong[b] \/ life[b] = "alive"
    BY <1>0, <1>2, IncrementEffect
  <2> QED
    BY <2>1 DEF Steady, Knows, Loading
<1>3. CASE CasSucceeds(t)
  <2>1. /\ DataOK' /\ ThreadsOK' /\ Others(t) /\ Balanced(t) /\ th'[t].pc \in {"idle", "dec"}
        /\ UNCHANGED <<strong, zero, weak, life>>
    BY <1>0, <1>3, CasEffect DEF CasSucceeds
  <2> QED
    BY <2>1 DEF Steady, Knows, Loading
<1>4. CASE GiveBack(t)
  <2>1. /\ DataOK' /\ ThreadsOK' /\ Others(t) /\ Balanced(t) /\ th'[t].pc = "idle"
        /\ UNCHANGED <<strong, zero, weak, life>>
    BY <1>0, <1>4, GiveBackEffect DEF GiveBack
  <2> QED
    BY <2>1 DEF Steady, Knows, Loading
<1>5. CASE DecStrong(t)
  <2>1. /\ DataOK' /\ ThreadsOK' /\ Others(t) /\ Balanced(t)
        /\ th[t].old \in Blocks /\ strong[th[t].old] > 0
        /\ th'[t].pc \in {"idle", "cas", "give", "zero"}
        /\ th'[t].pc = "zero" => th'[t].old = th[t].old
    BY <1>0, <1>5, DecStrongEffect
  <2>2. /\ UNCHANGED <<zero, weak, life>>
        /\ strong' = [strong EXCEPT ![th[t].old] = @ - 1]
    BY <1>5 DEF DecStrong
  <2>3. life[th[t].old] = "alive"
    BY <1>0, <2>1, OwnedBlock
  <2>4. Steady
    BY <1>0, <2>2, <2>3 DEF Steady, DataOK
  <2>5. Knows(t)'
    BY <2>1, <2>2, <2>3 DEF Knows, Loading, Born
  <2> QED
    BY <2>1, <2>4, <2>5
<1>6. CASE DecWeak(t)
  <2>1. /\ DataOK' /\ ThreadsOK' /\ Others(t) /\ Balanced(t)
        /\ th[t].old \in Blocks
        /\ th'[t].pc \in {"idle", "cas", "give", "fence"}
        /\ UNCHANGED <<strong, life, zero>>
        /\ weak[th[t].old] > 0
    BY <1>0, <1>6, DecWeakEffect
  <2>2. weak' = [weak EXCEPT ![th[t].old] = @ - 1]
    BY <1>6 DEF DecWeak
  <2>3. life[th[t].old] # "free"
    BY <1>0, <2>1, OwnedBlock
  <2>4. Steady
    BY <1>0, <2>1, <2>2, <2>3 DEF Steady, DataOK
  <2> QED
    BY <2>1, <2>4 DEF Knows, Loading
<1>7. ASSUME NEW b \in Blocks, DropShared(t, b) \/ DropWeak(t, b)
      PROVE  /\ DataOK' /\ ThreadsOK' /\ Others(t) /\ Balanced(t) /\ Steady /\ Knows(t)'
             /\ th'[t].pc \in {"dec", "decweak"}
  <2>1. /\ DataOK' /\ ThreadsOK' /\ Others(t) /\ Balanced(t)
        /\ th'[t].pc \in {"dec", "decweak"} /\ UNCHANGED <<strong, zero, weak, life>>
    BY <1>0, <1>7, DropEffect DEF DropShared, DropWeak
  <2> QED
    BY <2>1, SMTT(60) DEF Steady, Knows, Loading
<1>8. ASSUME NEW d \in Handles, Store(t, d)
      PROVE  /\ DataOK' /\ ThreadsOK' /\ Others(t) /\ Balanced(t) /\ Steady /\ Knows(t)'
             /\ th'[t].pc \in {"idle", "dec"}
  <2>1. /\ DataOK' /\ ThreadsOK' /\ Others(t) /\ Balanced(t)
        /\ th'[t].pc \in {"idle", "dec"} /\ UNCHANGED <<strong, zero, weak, life>>
    BY <1>0, <1>8, StoreEffect DEF Store
  <2> QED
    BY <2>1 DEF Steady, Knows, Loading
<1>9. ASSUME NEW op \in {"weak", "strong"}, NEW e \in Handles, NEW d \in Handles,
             CompareExchange(t, op, e, d)
      PROVE  /\ DataOK' /\ ThreadsOK' /\ Others(t) /\ Balanced(t) /\ Steady /\ Knows(t)'
             /\ th'[t].pc = "cas"
  <2>1. /\ DataOK' /\ ThreadsOK' /\ Others(t) /\ Balanced(t)
        /\ th'[t].pc = "cas" /\ UNCHANGED <<strong, zero, weak, life>>
    BY <1>0, <1>9, CompareExchangeEffect DEF CompareExchange
  <2> QED
    BY <2>1 DEF Steady, Knows, Loading
<1> QED
  BY <1>1, <1>2, <1>3, <1>4, <1>5, <1>6, <1>7, <1>8, <1>9 DEF Moving

(* So it keeps the books.                                                  *)
LEMMA MovingBooks ==
    ASSUME Books, NEW t \in Threads, Moving(t)
    PROVE  Books'
<1>0. DataOK /\ CountsOK /\ LifeOK /\ BornOK
  BY DEF Books
<1>1. DataOK' /\ ThreadsOK' /\ Others(t) /\ Balanced(t) /\ Steady /\ Knows(t)'
  BY MovingEffect
<1>2. CountsOK'
  BY <1>0, <1>1, BalancedStep
<1>3. LifeOK' /\ \A b : Born(b)' <=> Born(b)
  BY <1>0, <1>1, SteadyStep
<1>4. BornOK'
  BY <1>0, <1>1, <1>3, KnowsStep
<1> QED
  BY <1>1, <1>2, <1>3, <1>4 DEF Books

(* Dispose keeps the books: the weak reference of the owners becomes the   *)
(* thread's.                                                               *)
LEMMA DisposeBooks ==
    ASSUME Books, NEW t \in Threads, Dispose(t)
    PROVE  Books'
<1>0. DataOK /\ ThreadsOK /\ CountsOK /\ LifeOK /\ BornOK
  BY DEF Books
<1> DEFINE b == th[t].old
<1>1. /\ DataOK' /\ ThreadsOK' /\ Others(t) /\ Balanced(t)
      /\ b \in Blocks
      /\ th'[t].pc \in {"idle", "cas", "give", "decweak"}
      /\ UNCHANGED <<strong, weak>>
      /\ \/ UNCHANGED <<life, zero>>
         \/ /\ strong[b] = 0 /\ life[b] = "alive" /\ zero' = zero \cup {b}
            /\ life' = [life EXCEPT ![b] = "disposed"]
  BY <1>0, DisposeEffect
<1>2. CountsOK'
  BY <1>0, <1>1, BalancedStep
<1> HIDE DEF b
<1>3. LifeOK' /\ \A c : Born(c) => Born(c)'
  <2>1. CASE UNCHANGED <<life, zero>>
    BY <1>0, <1>1, <2>1 DEF LifeOK, Born
  <2>2. CASE /\ strong[b] = 0 /\ life[b] = "alive" /\ zero' = zero \cup {b}
             /\ life' = [life EXCEPT ![b] = "disposed"]
    <3>1. /\ life'[b] = "disposed" /\ b \in zero'
          /\ \A c \in Blocks \ {b} : life'[c] = life[c] /\ (c \in zero' <=> c \in zero)
      BY <1>0, <1>1, <2>2 DEF DataOK
    <3>2. LifeOK'
      BY <1>0, <1>1, <2>2, <3>1 DEF LifeOK
    <3>3. \A c : Born(c) => Born(c)'
      BY <1>0, <1>1, <2>2 DEF Born, DataOK
    <3> QED
      BY <3>2, <3>3
  <2> QED
    BY <1>1, <2>1, <2>2
<1>4. Knows(t)'
  BY <1>1 DEF Knows, Loading
<1>5. BornOK'
  BY <1>0, <1>1, <1>3, <1>4, KnowsStep
<1> QED
  BY <1>1, <1>2, <1>3, <1>5 DEF Books

(* Destroy keeps the books, because retired blocks have no references.     *)
LEMMA DestroyBooks ==
    ASSUME Books, SlotsOK, RetiredOnce, NEW t \in Threads, Destroy(t)
    PROVE  Books'
<1>0. DataOK /\ ThreadsOK /\ CountsOK /\ LifeOK /\ BornOK
  BY DEF Books
<1>1. /\ DataOK' /\ ThreadsOK' /\ Others(t) /\ Balanced(t)
      /\ th'[t].pc \in {"idle", "cas", "give"}
      /\ UNCHANGED <<strong, weak, zero>>
      /\ \A b \in Blocks : \/ life'[b] = life[b]
                           \/ life'[b] = "free" /\ life[b] = "disposed" /\ weak[b] = 0
  BY <1>0, DestroyEffect
<1>2. CountsOK'
  BY <1>0, <1>1, BalancedStep
<1>3. LifeOK'
  BY <1>0, <1>1 DEF LifeOK
<1>4. \A b \in Blocks : Born(b) => Born(b)'
  BY <1>0, <1>1 DEF LifeOK, Born
<1>5. BornOK'
  <2> SUFFICES ASSUME NEW u \in Threads
               PROVE  Knows(u)'
    BY DEF BornOK
  <2>1. CASE u = t
    BY <1>1, <2>1 DEF Knows, Loading
  <2>2. CASE u # t
    <3>1. th'[u] = th[u] /\ Knows(u) /\ Shape(th[u])
      BY <1>0, <1>1, <2>2 DEF Others, BornOK, ThreadsOK
    <3>2. /\ th[u].pc \in Loading => th[u].cur \in Blocks
          /\ th[u].pc = "zero" => th[u].old \in Blocks
      BY <3>1 DEF Shape, Releases
    <3>3. \A b \in Blocks : Born(b) => life'[b] = "alive" \/ b \in zero'
      BY <1>4 DEF Born
    <3> QED
      BY <3>1, <3>2, <3>3 DEF Knows, Born
  <2> QED
    BY <2>1, <2>2
<1> QED
  BY <1>1, <1>2, <1>3, <1>5 DEF Books

(* A new block at an old address, handles, and the exchange() of handles.  *)
Handling ==
    \/ \E b \in Blocks : Make(b) \/ CopyShared(b) \/ WeakFromShared(b) \/ Lock(b)
    \/ \E t \in Threads, d \in Handles : Exchange(t, d)

(* Calls on handles alone keep the books and take no block from the        *)
(* retired lists.                                                          *)
LEMMA HandlingEffect ==
    ASSUME Books, Handling
    PROVE  /\ Books' /\ UNCHANGED <<hazard, th>>
           /\ \A c \in Blocks : /\ life[c] = "disposed" => life'[c] = "disposed"
                                /\ life'[c] = "free" => life[c] = "free"
                                /\ life[c] = "disposed" /\ weak[c] = 0 => weak'[c] = 0
<1>0. DataOK /\ ThreadsOK /\ CountsOK /\ LifeOK /\ BornOK
  BY DEF Books
<1> DEFINE Safe ==
      /\ DataOK' /\ CountsOK' /\ LifeOK' /\ UNCHANGED <<hazard, th>>
      /\ \A c \in Blocks : /\ life[c] = "disposed" => life'[c] = "disposed"
                           /\ life'[c] = "free" => life[c] = "free"
                           /\ life[c] = "disposed" /\ weak[c] = 0 => weak'[c] = 0
      /\ \A c \in Blocks : Born(c) => Born(c)'
<1>1. Safe
  <2>1. ASSUME NEW b \in Blocks, Make(b)
        PROVE  Safe
    <3>1. DataOK' /\ CountsOK' /\ LifeOK' /\ UNCHANGED <<cell, hazard, th>>
      BY <1>0, <2>1, MakeEffect
    <3>2. /\ life[b] = "free" /\ life' = [life EXCEPT ![b] = "alive"]
          /\ zero' = zero \ {b} /\ weak' = [weak EXCEPT ![b] = 1]
      BY <2>1 DEF Make
    <3>3. /\ life'[b] = "alive"
          /\ \A c \in Blocks \ {b} : /\ life'[c] = life[c] /\ weak'[c] = weak[c]
                                     /\ (c \in zero' <=> c \in zero)
      BY <1>0, <3>2 DEF DataOK
    <3> QED
      BY <3>1, <3>2, <3>3 DEF Born
  <2>2. ASSUME NEW b \in Blocks, CopyShared(b) \/ WeakFromShared(b) \/ Lock(b)
        PROVE  Safe
    BY <1>0, <2>2, CopyEffect DEF Born
  <2>3. ASSUME NEW t \in Threads, NEW d \in Handles, Exchange(t, d)
        PROVE  Safe
    BY <1>0, <2>3, ExchangeEffect DEF Born
  <2> QED
    BY <2>1, <2>2, <2>3 DEF Handling
<1>2. ThreadsOK'
  BY <1>0, <1>1 DEF ThreadsOK
<1>3. BornOK'
  <2> SUFFICES ASSUME NEW u \in Threads
               PROVE  Knows(u)'
    BY DEF BornOK
  <2>1. th'[u] = th[u] /\ Knows(u) /\ Shape(th[u])
    BY <1>0, <1>1 DEF BornOK, ThreadsOK
  <2>2. /\ th[u].pc \in Loading => th[u].cur \in Blocks
        /\ th[u].pc = "zero" => th[u].old \in Blocks
    BY <2>1 DEF Shape, Releases
  <2>3. \A b \in Blocks : Born(b) => life'[b] = "alive" \/ b \in zero'
    BY <1>1 DEF Born
  <2> QED
    BY <2>1, <2>2, <2>3 DEF Knows, Born
<1> QED
  BY <1>1, <1>2, <1>3 DEF Books

(* A store that becomes visible does not touch the books.                  *)
LEMMA FlushBooks ==
    ASSUME Books, NEW t \in Threads, Flush(t)
    PROVE  Books'
<1>0. UNCHANGED <<cell, strong, zero, weak, life, shared, weakly, th, calls>>
  BY DEF Flush, counts
<1>1. DataOK' /\ ThreadsOK' /\ LifeOK' /\ BornOK'
  BY <1>0 DEF Books, DataOK, ThreadsOK, LifeOK, BornOK, Knows, Born
<1>2. CountsOK'
  BY <1>0, SameThreads DEF Books, CountsOK, InCell, Whole
<1> QED
  BY <1>1, <1>2 DEF Books

(* All of them.                                                            *)
LEMMA NextSplit ==
    ASSUME Next
    PROVE  \/ Handling
           \/ \E t \in Threads : Flush(t) \/ Quiet(t) \/ Moving(t) \/ Dispose(t) \/ Destroy(t)
  BY DEF Next, Proceed, Begin, Reclaim, Handling, Quiet, Moving

(* Every step keeps the books.                                             *)
LEMMA BooksStep ==
    ASSUME Books, SlotsOK, RetiredOnce, Next
    PROVE  Books'
  BY NextSplit, HandlingEffect, FlushBooks, QuietBooks, MovingBooks, DisposeBooks, DestroyBooks

-----------------------------------------------------------------------------
(* The slots, the retired lists and the announcements.                     *)

(* What lies in a retired list stays disposed of, and no life comes to an  *)
(* end but there.                                                          *)
Quieted ==
    \A b \in Blocks : /\ life[b] = "disposed" => life'[b] = "disposed"
                      /\ life'[b] = "free" => life[b] = "free"
                      /\ life[b] = "disposed" /\ weak[b] = 0 => weak'[b] = 0

(* A thread whose step is no announcement and no part of a cleanup.        *)
Apart(u) ==
    /\ th'[u].pc \in Slotless <=> th[u].pc \in Slotless
    /\ th'[u].pc \notin {"check", "scan", "destroy"}
    /\ th'[u].pc = "find" => th'[u].pos \in 1 .. Len(slots)
    /\ th'[u].pc = "inc" => th[u].pc = "check" /\ cell = th[u].cur /\ th'[u].cur = cell

(* What is validated is alive, and so in nobody's list.                    *)
LEMMA ValidatedAlive ==
    ASSUME Books, RetiredOnce, cell \in Blocks
    PROVE  /\ life[cell] = "alive"
           /\ \A i \in DOMAIN slots : ~(slots[i].retired[cell] > 0)
<1>1. life[cell] = "alive"
  BY OwnedBlock DEF Books
<1> QED
  BY <1>1 DEF RetiredOnce

(* The types of the slots and of the store buffers.                        *)
LEMMA SlotTypes ==
    ASSUME SlotsOK
    PROVE  /\ \A i \in DOMAIN slots : slots[i] \in Slot
           /\ DOMAIN slots = 1 .. Len(slots) /\ Len(slots) \in Nat
           /\ \A t \in Threads : buf[t] \in Seq(Blocks) /\ slot[t] \in Nat
           /\ \A t \in Threads : th[t].pc \notin Slotless => slot[t] \in DOMAIN slots
  BY DEF SlotsOK

(* A step that leaves slots and buffers alone, and no thread nearer to     *)
(* using or to freeing a block, keeps the protocol.                        *)
LEMMA ApartStep ==
    ASSUME Books, Hazards, UNCHANGED hazard, ThreadsOK', Quieted,
           \A u \in Threads : th'[u] = th[u] \/ Apart(u)
    PROVE  Hazards'
<1>0. /\ slots' = slots /\ slot' = slot /\ buf' = buf
      /\ SlotsOK /\ RetiredOnce /\ AnnounceOK /\ SeenOK /\ ThreadsOK
  BY DEF hazard, Hazards, Books
<1>1. SlotsOK'
  <2>1. \A u \in Threads : /\ th'[u].pc \in Slotless <=> th[u].pc \in Slotless
                           /\ th'[u].pc \in {"find", "scan"} => th'[u].pos \in 1 .. Len(slots)
    BY <1>0 DEF Apart, SlotsOK
  <2> QED
    BY <1>0, <2>1 DEF SlotsOK
<1>2. RetiredOnce'
  BY <1>0 DEF RetiredOnce, Quieted
<1>3. \A u \in Threads : th'[u].pc = "inc" => th'[u].cur \in Blocks
  BY DEF ThreadsOK, Shape, Loading
<1>4. \A u \in Threads : Newest(u)' = Newest(u)
  BY <1>0 DEF Newest
<1>5. AnnounceOK'
  <2> SUFFICES ASSUME NEW u \in Threads
               PROVE  /\ th'[u].pc \in {"check", "inc"} => Newest(u) = th'[u].cur
                      /\ th'[u].pc = "inc" => life'[th'[u].cur] # "free"
    BY <1>4 DEF AnnounceOK
  <2>1. CASE th'[u] = th[u]
    BY <1>0, <1>3, <2>1 DEF AnnounceOK, Quieted
  <2>2. CASE Apart(u)
    <3>1. SUFFICES ASSUME th'[u].pc = "inc"
                   PROVE  Newest(u) = th'[u].cur /\ life'[th'[u].cur] # "free"
      BY <2>2 DEF Apart
    <3>2. th[u].pc = "check" /\ cell = th[u].cur /\ th'[u].cur = cell /\ cell \in Blocks
      BY <1>3, <2>2, <3>1 DEF Apart
    <3>3. life[cell] = "alive"
      BY <1>0, <3>2, ValidatedAlive
    <3> QED
      BY <1>0, <3>2, <3>3 DEF AnnounceOK, Quieted
  <2> QED
    BY <2>1, <2>2
<1>6. SeenOK'
  <2> SUFFICES ASSUME NEW t \in Threads, NEW u \in Threads, th'[t].pc = "inc",
                      th'[u].pc \in {"scan", "destroy"},
                      slots[slot[u]].retired[th'[t].cur] > 0
               PROVE  /\ buf[t] = <<>> /\ slots[slot[t]].ptr = th'[t].cur
                      /\ th'[u].pc = "destroy" \/ th'[u].pos > slot[t]
                           => th'[t].cur \in th'[u].seen
    BY <1>0 DEF SeenOK
  <2>1. th'[u] = th[u] /\ slot[u] \in DOMAIN slots
    <3>1. th'[u] = th[u]
      BY DEF Apart
    <3> QED
      BY <1>0, <3>1, SlotTypes DEF Slotless
  <2>2. CASE th'[t] = th[t]
    BY <1>0, <2>1, <2>2 DEF SeenOK
  <2>3. CASE Apart(t)
    <3>1. th'[t].cur = cell /\ cell \in Blocks
      BY <1>3, <2>3 DEF Apart
    <3> QED
      BY <1>0, <2>1, <3>1, ValidatedAlive
  <2> QED
    BY <2>2, <2>3
<1> QED
  BY <1>1, <1>2, <1>5, <1>6 DEF Hazards

(* Calls on handles alone keep the protocol.                               *)
LEMMA HandlingHazards ==
    ASSUME Books, Hazards, Handling
    PROVE  Hazards'
<1>1. UNCHANGED <<hazard, th>> /\ Quieted /\ ThreadsOK'
  BY HandlingEffect DEF Quieted, Books
<1> QED
  BY <1>1, ApartStep

(* Dispose keeps the protocol: it frees nothing.                           *)
LEMMA DisposeHazards ==
    ASSUME Books, Hazards, NEW t \in Threads, Dispose(t)
    PROVE  Hazards'
<1>0. DataOK /\ ThreadsOK /\ LifeOK /\ BornOK
  BY DEF Books
<1>1. /\ ThreadsOK' /\ Others(t) /\ th[t].old \in Blocks
      /\ th'[t].pc \in {"idle", "cas", "give", "decweak"}
      /\ weak' = weak
      /\ \/ life' = life
         \/ /\ life[th[t].old] = "alive"
            /\ life' = [life EXCEPT ![th[t].old] = "disposed"]
  BY <1>0, DisposeEffect
<1>2. Quieted
  BY <1>0, <1>1 DEF Quieted, DataOK
<1>3. Apart(t) /\ UNCHANGED hazard
  BY <1>1 DEF Apart, Dispose, At, Slotless
<1> QED
  BY <1>1, <1>2, <1>3, ApartStep DEF Others

(* The moving steps that retire nothing keep the protocol; a check that    *)
(* succeeds finds the block in the cell, hence alive.                      *)
LEMMA MovingHazards ==
    ASSUME Books, Hazards, NEW t \in Threads, Moving(t), ~DecWeak(t)
    PROVE  Hazards'
<1>0. DataOK /\ ThreadsOK /\ LifeOK /\ BornOK
  BY DEF Books
<1>1. /\ ThreadsOK' /\ Others(t) /\ Steady
      /\ th'[t].pc \in {"idle", "cas", "give", "read", "announce", "inc", "dec", "zero",
                        "decweak", "fence"}
      /\ th'[t].pc = "inc" => th[t].pc = "check" /\ cell = th[t].cur /\ th'[t].cur = cell
  BY MovingEffect, SMTT(60)
<1>2. UNCHANGED hazard /\ weak' = weak
  BY ZenonT(60) DEF Moving, Read, Check, Increment, CasSucceeds, GiveBack, DecStrong, DropShared,
     DropWeak, Store, CompareExchange
<1>3. th[t].pc \notin Slotless
  BY ZenonT(60) DEF Moving, Read, Check, Increment, CasSucceeds, GiveBack, DecStrong, DropShared,
     DropWeak, Store, CompareExchange, At, Slotless
<1>4. Apart(t)
  BY <1>1, <1>3 DEF Apart, Slotless
<1>5. Quieted
  BY <1>1, <1>2 DEF Quieted, Steady
<1> QED
  BY <1>1, <1>2, <1>4, <1>5, ApartStep DEF Others

(* Steps between announcements keep the protocol.                          *)
LEMMA LoadHazards ==
    ASSUME Books, Hazards, NEW t \in Threads, NextSlot(t) \/ Load(t) \/ CasFails(t)
    PROVE  Hazards'
<1>0. DataOK /\ ThreadsOK /\ SlotsOK
  BY DEF Books, Hazards
<1>1. Quiet(t)
  BY DEF Quiet
<1>2. /\ ThreadsOK' /\ Others(t) /\ UNCHANGED <<cell, counts>>
  BY <1>0, <1>1, QuietEffect
<1>3. UNCHANGED hazard
  BY DEF NextSlot, Load, CasFails
<1>4. Apart(t)
  <2>1. CASE NextSlot(t)
    <3>1. th[t].pc = "find" /\ th[t].pos \in 1 .. Len(slots) /\ Len(slots) \in Nat
      BY <1>0, <2>1 DEF NextSlot, At, SlotsOK
    <3>2. \/ th'[t].pc = "find" /\ th'[t].pos = th[t].pos + 1 /\ th[t].pos < Len(slots)
          \/ th'[t].pc = "new"
      BY <1>0, <2>1, NextSlotEffect
    <3> QED
      BY <3>1, <3>2 DEF Apart, Slotless
  <2>2. CASE Load(t)
    BY <1>0, <2>2, LoadEffect DEF Load, At, Apart, Slotless
  <2>3. CASE CasFails(t)
    <3>1. th'[t].pc = "read" /\ th[t].pc = "cas"
      BY <1>0, <2>3, GotoEffect DEF CasFails, At
    <3> QED
      BY <3>1 DEF Apart, Slotless
  <2> QED
    BY <2>1, <2>2, <2>3
<1>5. Quieted
  BY <1>2 DEF Quieted, counts
<1> QED
  BY <1>2, <1>3, <1>4, <1>5, ApartStep DEF Others

(* A cleanup reads one slot: an announcement there is in th[t].seen now.   *)
LEMMA ScanHazards ==
    ASSUME Books, Hazards, NEW t \in Threads, Scan(t)
    PROVE  Hazards'
<1>0. /\ DataOK /\ ThreadsOK /\ SlotsOK /\ RetiredOnce /\ AnnounceOK /\ SeenOK
      /\ slots' = slots /\ slot' = slot /\ buf' = buf /\ UNCHANGED <<life, weak>>
      /\ th[t].pc = "scan" /\ th[t].pos \in 1 .. Len(slots) /\ Len(slots) \in Nat
  BY DEF Books, Hazards, Scan, hazard, counts, At, SlotsOK
<1>1. /\ ThreadsOK' /\ Others(t)
      /\ th'[t].seen = (th[t].seen \cup {slots[th[t].pos].ptr}) \ {Null}
      /\ IF th[t].pos < Len(slots) THEN th'[t].pos = th[t].pos + 1 /\ th'[t].pc = "scan"
                                   ELSE th'[t].pc = "destroy"
  BY <1>0, ScanEffect
<1>2. SlotsOK'
  <2>1. \A u \in Threads : /\ th'[u].pc \in Slotless <=> th[u].pc \in Slotless
                           /\ th'[u].pc \in {"find", "scan"} => th'[u].pos \in 1 .. Len(slots)
    BY <1>0, <1>1 DEF Others, SlotsOK, Slotless
  <2> QED
    BY <1>0, <2>1 DEF SlotsOK
<1>3. RetiredOnce'
  BY <1>0 DEF RetiredOnce
<1>4. \A u \in Threads : th'[u].pc \in {"check", "inc"} => u # t /\ th'[u] = th[u]
  BY <1>1 DEF Others
<1>5. AnnounceOK'
  <2>1. \A u \in Threads : Newest(u)' = Newest(u)
    BY <1>0 DEF Newest
  <2> QED
    BY <1>0, <1>4, <2>1 DEF AnnounceOK
<1>6. SeenOK'
  <2> SUFFICES ASSUME NEW v \in Threads, NEW u \in Threads, th'[v].pc = "inc",
                      th'[u].pc \in {"scan", "destroy"},
                      slots[slot[u]].retired[th'[v].cur] > 0
               PROVE  /\ buf[v] = <<>> /\ slots[slot[v]].ptr = th'[v].cur
                      /\ th'[u].pc = "destroy" \/ th'[u].pos > slot[v]
                           => th'[v].cur \in th'[u].seen
    BY <1>0 DEF SeenOK
  <2>1. th'[v] = th[v] /\ v # t /\ th[v].cur \in Blocks
    <3>1. th'[v] = th[v] /\ v # t
      BY <1>4
    <3> QED
      BY <1>0, <3>1 DEF ThreadsOK, Shape, Loading
  <2>2. CASE u # t
    BY <1>0, <1>1, <2>1, <2>2 DEF Others, SeenOK
  <2>3. CASE u = t
    <3>1. /\ buf[v] = <<>> /\ slots[slot[v]].ptr = th[v].cur
          /\ th[t].pos > slot[v] => th[v].cur \in th[t].seen
      BY <1>0, <2>1, <2>3 DEF SeenOK
    <3>2. slot[v] \in 1 .. Len(slots)
      BY <1>0, <2>1 DEF SlotsOK, Slotless
    <3>3. th[t].pos = slot[v] \/ th[t].pos > slot[v] => th[v].cur \in th'[t].seen
      BY <1>1, <2>1, <3>1, BlockAssumption
    <3>4. th'[t].pc = "destroy" \/ th'[t].pos > slot[v] => th[t].pos >= slot[v]
      BY <1>0, <1>1, <3>2
    <3> QED
      BY <1>0, <2>1, <2>3, <3>1, <3>2, <3>3, <3>4
  <2> QED
    BY <2>2, <2>3
<1> QED
  BY <1>2, <1>3, <1>5, <1>6 DEF Hazards

(* protect(): the newest store of the thread is what it will validate.     *)
LEMMA AnnounceHazards ==
    ASSUME Books, Hazards, NEW t \in Threads, Announce(t)
    PROVE  Hazards'
<1>0. /\ DataOK /\ ThreadsOK /\ SlotsOK /\ RetiredOnce /\ AnnounceOK /\ SeenOK
      /\ slots' = slots /\ slot' = slot /\ UNCHANGED <<life, weak>>
      /\ th[t].pc = "announce" /\ Shape(th[t])
      /\ buf' = (IF Newest(t) = th[t].cur THEN buf
                 ELSE [buf EXCEPT ![t] = Append(@, th[t].cur)])
  BY DEF Books, Hazards, Announce, counts, At, ThreadsOK
<1>1. ThreadsOK' /\ Others(t) /\ th'[t].pc = "check" /\ th'[t].cur = th[t].cur
  BY <1>0, GotoEffect DEF Announce
<1>2. th[t].cur \in Blocks /\ buf \in [Threads -> Seq(Blocks)]
  BY <1>0 DEF Shape, Loading, SlotsOK
<1>3. /\ buf' \in [Threads -> Seq(Blocks)]
      /\ \A u \in Threads : u # t => buf'[u] = buf[u]
      /\ IF Newest(t) = th[t].cur THEN buf'[t] = buf[t] ELSE buf'[t] = Append(buf[t], th[t].cur)
  BY <1>0, <1>2
<1>4. SlotsOK'
  <2>1. \A u \in Threads : /\ th'[u].pc \in Slotless <=> th[u].pc \in Slotless
                           /\ th'[u].pc \in Slotless => u # t
                           /\ th'[u].pc \in {"find", "scan"} => th'[u].pos \in 1 .. Len(slots)
    BY <1>0, <1>1 DEF Others, SlotsOK, Slotless
  <2> QED
    BY <1>0, <1>3, <2>1 DEF SlotsOK
<1>5. RetiredOnce'
  BY <1>0 DEF RetiredOnce
<1>6. \A u \in Threads : u # t => Newest(u)' = Newest(u)
  BY <1>0, <1>3 DEF Newest
<1>7. Newest(t)' = th[t].cur
  <2>1. CASE Newest(t) = th[t].cur
    BY <1>0, <1>3, <2>1 DEF Newest
  <2>2. CASE Newest(t) # th[t].cur
    <3>1. buf'[t] = Append(buf[t], th[t].cur) /\ buf[t] \in Seq(Blocks)
      BY <1>2, <1>3, <2>2
    <3>2. buf'[t] # <<>> /\ Last(buf'[t]) = th[t].cur
      BY <1>2, <3>1, SMTT(60) DEF Last
    <3> QED
      BY <3>2 DEF Newest
  <2> QED
    BY <2>1, <2>2
<1>8. AnnounceOK'
  BY <1>0, <1>1, <1>6, <1>7 DEF AnnounceOK, Others
<1>9. SeenOK'
  <2>1. \A u \in Threads : th'[u].pc \in {"inc", "scan", "destroy"}
                             => u # t /\ th'[u] = th[u] /\ buf'[u] = buf[u]
    BY <1>1, <1>3 DEF Others
  <2> QED
    BY <1>0, <2>1 DEF SeenOK
<1> QED
  BY <1>4, <1>5, <1>8, <1>9 DEF Hazards

(* One slot is written.                                                    *)
LEMMA SlotWritten ==
    ASSUME NEW i \in 1 .. Len(slots), NEW s \in Slot, slots \in Seq(Slot),
           slots' = [slots EXCEPT ![i] = s]
    PROVE  /\ slots' \in Seq(Slot) /\ Len(slots') = Len(slots) /\ DOMAIN slots' = DOMAIN slots
           /\ slots'[i] = s /\ \A k \in DOMAIN slots : k # i => slots'[k] = slots[k]
  OBVIOUS

(* No retired list changes.                                                *)
LEMMA ListsSame ==
    ASSUME RetiredOnce, UNCHANGED <<life, weak>>,
           \A i \in DOMAIN slots' : \/ i \in DOMAIN slots /\ slots'[i].retired = slots[i].retired
                                    \/ slots'[i].retired = [b \in Blocks |-> 0]
    PROVE  RetiredOnce'
<1> SUFFICES ASSUME NEW b \in Blocks, NEW i \in DOMAIN slots', slots'[i].retired[b] > 0
             PROVE  /\ slots'[i].retired[b] = 1
                    /\ \A k \in DOMAIN slots' : slots'[k].retired[b] > 0 => k = i
                    /\ life[b] = "disposed" /\ weak[b] = 0
  BY DEF RetiredOnce
<1>1. \A k \in DOMAIN slots' : slots'[k].retired[b] > 0
        => k \in DOMAIN slots /\ slots'[k].retired = slots[k].retired
  <2> TAKE k \in DOMAIN slots'
  <2>1. CASE slots'[k].retired = [c \in Blocks |-> 0]
    <3>1. slots'[k].retired[b] = 0
      BY <2>1
    <3> QED
      BY <3>1
  <2> QED
    BY <2>1
<1> QED
  BY <1>1 DEF RetiredOnce

(* get_slot() finds a slot.                                                *)
LEMMA TakeSlotHazards ==
    ASSUME Books, Hazards, NEW t \in Threads, TakeSlot(t)
    PROVE  Hazards'
<1> DEFINE i == th[t].pos
           s == [slots[i] EXCEPT !.used = TRUE]
<1>0. /\ DataOK /\ ThreadsOK /\ SlotsOK /\ RetiredOnce /\ AnnounceOK /\ SeenOK
      /\ UNCHANGED <<buf, life, weak>>
      /\ slots' = [slots EXCEPT ![i] = s] /\ slot' = [slot EXCEPT ![t] = i] /\ ~slots[i].used
      /\ Set(t, Idle) /\ th[t].pc = "find"
  BY DEF Books, Hazards, TakeSlot, counts, At
<1>1. ThreadsOK' /\ Others(t) /\ th'[t] = Idle /\ th'[t].pc = "idle"
  BY <1>0, IdleShape, SetEffect DEF Others, Idle
<1>2. /\ i \in 1 .. Len(slots) /\ slots \in Seq(Slot) /\ slots[i] \in Slot
      /\ slot \in [Threads -> Nat] /\ buf[t] = <<>>
  BY <1>0 DEF SlotsOK, Slotless
<1>3. s \in Slot /\ s.used = TRUE /\ s.ptr = slots[i].ptr /\ s.retired = slots[i].retired
  BY <1>2 DEF Slot
<1> HIDE DEF s, i
<1>4. /\ slots' \in Seq(Slot) /\ Len(slots') = Len(slots) /\ DOMAIN slots' = DOMAIN slots
      /\ slots'[i] = s /\ \A k \in DOMAIN slots : k # i => slots'[k] = slots[k]
  BY <1>0, <1>2, <1>3, SlotWritten
<1>5. /\ slot' \in [Threads -> Nat] /\ slot'[t] = i
      /\ \A u \in Threads : u # t => slot'[u] = slot[u]
  BY <1>0, <1>2
<1>6. \A u \in Threads : u # t => slot[u] # i
  BY <1>0, <1>2 DEF SlotsOK
<1>7. \A k \in DOMAIN slots : /\ slots'[k].ptr = slots[k].ptr
                              /\ slots'[k].retired = slots[k].retired
                              /\ slots[k].used => slots'[k].used
  BY <1>3, <1>4
<1>8. SlotsOK'
  <2>1. ASSUME NEW u \in Threads
        PROVE  /\ IF th'[u].pc \in Slotless
                  THEN slot'[u] = 0 /\ buf'[u] = <<>>
                  ELSE slot'[u] \in 1 .. Len(slots') /\ slots'[slot'[u]].used
               /\ th'[u].pc \in {"find", "scan"} => th'[u].pos \in 1 .. Len(slots')
               /\ \A v \in Threads : slot'[u] = slot'[v] /\ slot'[u] # 0 => u = v
    <3>1. \A v \in Threads : slot'[u] = slot'[v] /\ slot'[u] # 0 => u = v
      BY <1>0, <1>5, <1>6 DEF SlotsOK
    <3>2. CASE u = t
      BY <1>1, <1>2, <1>3, <1>4, <1>5, <3>1, <3>2 DEF Slotless
    <3>3. CASE u # t
      <4>1. th'[u] = th[u] /\ slot'[u] = slot[u] /\ buf'[u] = buf[u]
        BY <1>0, <1>1, <1>5, <3>3 DEF Others
      <4> QED
        BY <1>0, <1>2, <1>4, <1>7, <3>1, <4>1 DEF SlotsOK
    <3> QED
      BY <3>2, <3>3
  <2> QED
    BY <1>0, <1>4, <1>5, <2>1 DEF SlotsOK
<1>9. RetiredOnce'
  BY <1>0, <1>4, <1>7, ListsSame
<1>10. \A u \in Threads : th'[u].pc \in {"check", "inc", "scan", "destroy"}
         => /\ u # t /\ th'[u] = th[u] /\ slot'[u] = slot[u] /\ buf'[u] = buf[u]
            /\ slot[u] \in DOMAIN slots
  BY <1>0, <1>1, <1>5, SlotTypes DEF Others, Slotless
<1>11. AnnounceOK'
  <2>1. \A u \in Threads : th'[u].pc \in {"check", "inc"} => Newest(u)' = Newest(u)
    BY <1>7, <1>10 DEF Newest
  <2> QED
    BY <1>0, <1>10, <2>1 DEF AnnounceOK
<1>12. SeenOK'
  BY <1>0, <1>7, <1>10 DEF SeenOK
<1> QED
  BY <1>8, <1>9, <1>11, <1>12 DEF Hazards

(* get_slot() makes one.                                                   *)
LEMMA NewSlotHazards ==
    ASSUME Books, Hazards, NEW t \in Threads, NewSlot(t)
    PROVE  Hazards'
<1> DEFINE s == FreshSlot(TRUE)
           i == Len(slots) + 1
<1>0. /\ DataOK /\ ThreadsOK /\ SlotsOK /\ RetiredOnce /\ AnnounceOK /\ SeenOK
      /\ UNCHANGED <<buf, life, weak>>
      /\ slots' = Append(slots, s) /\ slot' = [slot EXCEPT ![t] = i]
      /\ Set(t, Idle) /\ th[t].pc = "new"
  BY DEF Books, Hazards, NewSlot, counts, At
<1>1. ThreadsOK' /\ Others(t) /\ th'[t] = Idle /\ th'[t].pc = "idle"
  BY <1>0, IdleShape, SetEffect DEF Others, Idle
<1>2. slots \in Seq(Slot) /\ Len(slots) \in Nat /\ slot \in [Threads -> Nat] /\ buf[t] = <<>>
  BY <1>0 DEF SlotsOK, Slotless
<1>3. s \in Slot /\ s.used = TRUE /\ s.retired = [b \in Blocks |-> 0]
  BY BoundAssumption DEF Slot, FreshSlot, Pointers
<1> HIDE DEF s
<1>4. /\ slots' \in Seq(Slot) /\ Len(slots') = i /\ DOMAIN slots' = 1 .. i
      /\ DOMAIN slots = 1 .. Len(slots)
      /\ slots'[i] = s /\ \A k \in DOMAIN slots : slots'[k] = slots[k]
  BY <1>0, <1>2, <1>3
<1>5. /\ slot' \in [Threads -> Nat] /\ slot'[t] = i
      /\ \A u \in Threads : u # t => slot'[u] = slot[u]
  BY <1>0, <1>2
<1>6. \A u \in Threads : slot[u] # i
  BY <1>0, <1>2 DEF SlotsOK
<1>8. SlotsOK'
  <2>1. ASSUME NEW u \in Threads
        PROVE  /\ IF th'[u].pc \in Slotless
                  THEN slot'[u] = 0 /\ buf'[u] = <<>>
                  ELSE slot'[u] \in 1 .. Len(slots') /\ slots'[slot'[u]].used
               /\ th'[u].pc \in {"find", "scan"} => th'[u].pos \in 1 .. Len(slots')
               /\ \A v \in Threads : slot'[u] = slot'[v] /\ slot'[u] # 0 => u = v
    <3>1. \A v \in Threads : slot'[u] = slot'[v] /\ slot'[u] # 0 => u = v
      BY <1>0, <1>5, <1>6 DEF SlotsOK
    <3>2. CASE u = t
      BY <1>1, <1>2, <1>3, <1>4, <1>5, <3>1, <3>2 DEF Slotless
    <3>3. CASE u # t
      <4>1. th'[u] = th[u] /\ slot'[u] = slot[u] /\ buf'[u] = buf[u]
        BY <1>0, <1>1, <1>5, <3>3 DEF Others
      <4> QED
        BY <1>0, <1>2, <1>4, <3>1, <4>1 DEF SlotsOK
    <3> QED
      BY <3>2, <3>3
  <2> QED
    BY <1>0, <1>2, <1>4, <1>5, <2>1 DEF SlotsOK
<1>9. RetiredOnce'
  <2>1. \A k \in DOMAIN slots' : \/ k \in DOMAIN slots /\ slots'[k].retired = slots[k].retired
                                 \/ slots'[k].retired = [b \in Blocks |-> 0]
    BY <1>2, <1>3, <1>4
  <2> QED
    BY <1>0, <2>1, ListsSame
<1>10. \A u \in Threads : th'[u].pc \in {"check", "inc", "scan", "destroy"}
         => /\ u # t /\ th'[u] = th[u] /\ slot'[u] = slot[u] /\ buf'[u] = buf[u]
            /\ slot[u] \in DOMAIN slots
  BY <1>0, <1>1, <1>5, SlotTypes DEF Others, Slotless
<1>11. AnnounceOK'
  <2>1. \A u \in Threads : th'[u].pc \in {"check", "inc"} => Newest(u)' = Newest(u)
    BY <1>4, <1>10 DEF Newest
  <2> QED
    BY <1>0, <1>10, <2>1 DEF AnnounceOK
<1>12. SeenOK'
  BY <1>0, <1>4, <1>10 DEF SeenOK
<1> QED
  BY <1>8, <1>9, <1>11, <1>12 DEF Hazards

(* The newest announcement is a block or Null.                             *)
LEMMA NewestType ==
    ASSUME SlotsOK, NEW t \in Threads, slot[t] \in DOMAIN slots
    PROVE  Newest(t) \in Pointers
<1>1. slots[slot[t]] \in Slot /\ buf[t] \in Seq(Blocks)
  BY SlotTypes
<1>2. CASE buf[t] = <<>>
  BY <1>1, <1>2 DEF Newest, Slot
<1>3. CASE buf[t] # <<>>
  <2>1. Len(buf[t]) \in 1 .. Len(buf[t])
    BY <1>1, <1>3
  <2> QED
    BY <1>1, <1>3, <2>1 DEF Newest, Last, Pointers
<1> QED
  BY <1>2, <1>3

(* A thread ends.                                                          *)
LEMMA ExitHazards ==
    ASSUME Books, Hazards, NEW t \in Threads, Exit(t)
    PROVE  Hazards'
<1> DEFINE i == slot[t]
           n == Newest(t)
           s == [slots[i] EXCEPT !.used = FALSE, !.ptr = n]
           q == [Idle EXCEPT !.pc = "find"]
<1>0. /\ DataOK /\ ThreadsOK /\ SlotsOK /\ RetiredOnce /\ AnnounceOK /\ SeenOK
      /\ UNCHANGED <<life, weak>>
      /\ slots' = [slots EXCEPT ![i] = s] /\ slot' = [slot EXCEPT ![t] = 0]
      /\ buf' = [buf EXCEPT ![t] = <<>>]
      /\ Set(t, q) /\ th[t].pc = "idle"
  BY DEF Books, Hazards, Exit, counts, At
<1>1. ThreadsOK' /\ Others(t) /\ th'[t] = q /\ th'[t].pc = "find" /\ th'[t].pos = 1
  <2>1. ThreadsOK' /\ Others(t) /\ th'[t] = q
    BY <1>0, IdleShape, SetEffect DEF Others
  <2> QED
    BY <2>1 DEF Idle
<1>2. /\ i \in 1 .. Len(slots) /\ slots \in Seq(Slot) /\ slots[i] \in Slot
      /\ slot \in [Threads -> Nat] /\ buf \in [Threads -> Seq(Blocks)]
      /\ n \in Pointers /\ Len(slots) \in Nat
  <2>1. /\ i \in 1 .. Len(slots) /\ slots \in Seq(Slot) /\ slots[i] \in Slot
        /\ slot \in [Threads -> Nat] /\ buf \in [Threads -> Seq(Blocks)]
    <3>1. slot[t] \in 1 .. Len(slots)
      BY <1>0 DEF SlotsOK, Slotless
    <3> HIDE DEF s, n, q
    <3> QED
      BY <1>0, <3>1 DEF SlotsOK
  <2> QED
    BY <1>0, <2>1, NewestType
<1> HIDE DEF n, i
<1>3. s \in Slot /\ s.retired = slots[i].retired
  BY <1>2 DEF Slot
<1> HIDE DEF s, q
<1>4. /\ slots' \in Seq(Slot) /\ Len(slots') = Len(slots) /\ DOMAIN slots' = DOMAIN slots
      /\ slots'[i] = s /\ \A k \in DOMAIN slots : k # i => slots'[k] = slots[k]
  BY <1>0, <1>2, <1>3, SlotWritten
<1>5. /\ slot' \in [Threads -> Nat] /\ slot'[t] = 0
      /\ buf' \in [Threads -> Seq(Blocks)] /\ buf'[t] = <<>>
      /\ \A u \in Threads : u # t => slot'[u] = slot[u] /\ buf'[u] = buf[u]
  <2>1. <<>> \in Seq(Blocks)
    OBVIOUS
  <2> QED
    BY <1>0, <1>2, <2>1
<1>6. \A u \in Threads : u # t => slot[u] # i
  BY <1>0, <1>2 DEF SlotsOK, i
<1>7. \A k \in DOMAIN slots : slots'[k].retired = slots[k].retired
  BY <1>3, <1>4
<1>8. SlotsOK'
  <2>1. ASSUME NEW u \in Threads
        PROVE  /\ IF th'[u].pc \in Slotless
                  THEN slot'[u] = 0 /\ buf'[u] = <<>>
                  ELSE slot'[u] \in 1 .. Len(slots') /\ slots'[slot'[u]].used
               /\ th'[u].pc \in {"find", "scan"} => th'[u].pos \in 1 .. Len(slots')
               /\ \A v \in Threads : slot'[u] = slot'[v] /\ slot'[u] # 0 => u = v
    <3>1. \A v \in Threads : slot'[u] = slot'[v] /\ slot'[u] # 0 => u = v
      BY <1>0, <1>5 DEF SlotsOK
    <3>2. CASE u = t
      BY <1>1, <1>2, <1>4, <1>5, <3>1, <3>2 DEF Slotless
    <3>3. CASE u # t
      <4>1. th'[u] = th[u] /\ slot'[u] = slot[u] /\ buf'[u] = buf[u] /\ slot[u] # i
        BY <1>0, <1>1, <1>5, <1>6, <3>3 DEF Others
      <4> QED
        BY <1>0, <1>2, <1>4, <3>1, <4>1 DEF SlotsOK
    <3> QED
      BY <3>2, <3>3
  <2> QED
    BY <1>0, <1>4, <1>5, <2>1 DEF SlotsOK
<1>9. RetiredOnce'
  BY <1>0, <1>4, <1>7, ListsSame
<1>10. \A u \in Threads : th'[u].pc \in {"check", "inc", "scan", "destroy"}
         => /\ u # t /\ th'[u] = th[u] /\ slot'[u] = slot[u] /\ buf'[u] = buf[u]
            /\ slot[u] \in DOMAIN slots /\ slots'[slot[u]] = slots[slot[u]]
  BY <1>0, <1>1, <1>4, <1>5, <1>6, SlotTypes DEF Others, Slotless
<1>11. AnnounceOK'
  <2>1. \A u \in Threads : th'[u].pc \in {"check", "inc"} => Newest(u)' = Newest(u)
    BY <1>10 DEF Newest
  <2> QED
    BY <1>0, <1>10, <2>1 DEF AnnounceOK
<1>12. SeenOK'
  BY <1>0, <1>10 DEF SeenOK
<1> QED
  BY <1>8, <1>9, <1>11, <1>12 DEF Hazards

(* A store becomes visible: the newest one is the same as before.          *)
LEMMA FlushHazards ==
    ASSUME Books, Hazards, NEW t \in Threads, Flush(t)
    PROVE  Hazards'
<1> DEFINE i == slot[t]
           s == [slots[i] EXCEPT !.ptr = Head(buf[t])]
<1>0. /\ DataOK /\ ThreadsOK /\ SlotsOK /\ RetiredOnce /\ AnnounceOK /\ SeenOK
      /\ UNCHANGED <<life, weak, slot, th>>
      /\ slots' = [slots EXCEPT ![i] = s] /\ buf' = [buf EXCEPT ![t] = Tail(@)]
      /\ buf[t] # <<>>
  BY DEF Books, Hazards, Flush, counts
<1>1. /\ i \in 1 .. Len(slots) /\ slots \in Seq(Slot) /\ slots[i] \in Slot
      /\ slot \in [Threads -> Nat] /\ buf \in [Threads -> Seq(Blocks)]
  BY <1>0 DEF SlotsOK
<1>2. Head(buf[t]) \in Pointers /\ Tail(buf[t]) \in Seq(Blocks)
      /\ (IF Tail(buf[t]) = <<>> THEN Head(buf[t]) ELSE Last(Tail(buf[t]))) = Last(buf[t])
  <2> DEFINE w == buf[t]
  <2>1. w \in Seq(Blocks) /\ w # <<>>
    BY <1>0, <1>1
  <2> HIDE DEF w
  <2>2. /\ Len(w) \in Nat \ {0} /\ Head(w) = w[1] /\ Head(w) \in Blocks
        /\ Tail(w) \in Seq(Blocks) /\ Len(Tail(w)) = Len(w) - 1
        /\ \A k \in 1 .. Len(w) - 1 : Tail(w)[k] = w[k + 1]
    BY <2>1
  <2>3. CASE Tail(w) = <<>>
    <3>1. Len(w) = 1
      BY <2>2, <2>3, SMTT(60)
    <3> QED
      BY <2>2, <2>3, <3>1 DEF Last, Pointers, w
  <2>4. CASE Tail(w) # <<>>
    <3>1. Len(Tail(w)) # 0
      BY <2>2, <2>4
    <3>2. Tail(w)[Len(w) - 1] = w[Len(w)]
      BY <2>2, <3>1
    <3> QED
      BY <2>2, <2>4, <3>2 DEF Last, Pointers, w
  <2> QED
    BY <2>3, <2>4 DEF w
<1>3. /\ s \in Slot /\ s.retired = slots[i].retired /\ s.used = slots[i].used
      /\ s.ptr = Head(buf[t])
  BY <1>1, <1>2 DEF Slot
<1> HIDE DEF s, i
<1>4. /\ slots' \in Seq(Slot) /\ Len(slots') = Len(slots) /\ DOMAIN slots' = DOMAIN slots
      /\ slots'[i] = s /\ \A k \in DOMAIN slots : k # i => slots'[k] = slots[k]
  BY <1>0, <1>1, <1>3, SlotWritten
<1>5. /\ buf' \in [Threads -> Seq(Blocks)] /\ buf'[t] = Tail(buf[t])
      /\ \A u \in Threads : u # t => buf'[u] = buf[u]
  BY <1>0, <1>1, <1>2
<1>6. \A u \in Threads : u # t => slot[u] # i
  BY <1>0, <1>1 DEF SlotsOK, i
<1>7. \A k \in DOMAIN slots : /\ slots'[k].retired = slots[k].retired
                              /\ slots'[k].used = slots[k].used
  BY <1>3, <1>4
<1>8. SlotsOK'
  <2>1. th[t].pc \notin Slotless
    BY <1>0 DEF SlotsOK
  <2> QED
    BY <1>0, <1>4, <1>5, <1>7, <2>1 DEF SlotsOK
<1>9. RetiredOnce'
  BY <1>0, <1>4, <1>7, ListsSame
<1>10. \A u \in Threads : th[u].pc \notin Slotless /\ u # t
         => slot[u] \in DOMAIN slots /\ slots'[slot[u]] = slots[slot[u]] /\ buf'[u] = buf[u]
  BY <1>0, <1>4, <1>5, <1>6, SlotTypes
<1>11. \A u \in Threads : th[u].pc \notin Slotless => Newest(u)' = Newest(u)
  <2> TAKE u \in Threads
  <2> HAVE th[u].pc \notin Slotless
  <2>1. CASE u # t
    BY <1>0, <1>10, <2>1 DEF Newest
  <2>2. CASE u = t
    <3>1. Newest(t) = Last(buf[t])
      BY <1>0 DEF Newest
    <3>2. Newest(t)' = IF Tail(buf[t]) = <<>> THEN Head(buf[t]) ELSE Last(Tail(buf[t]))
      BY <1>0, <1>3, <1>4, <1>5 DEF Newest, i
    <3> QED
      BY <1>2, <2>2, <3>1, <3>2
  <2> QED
    BY <2>1, <2>2
<1>12. AnnounceOK'
  BY <1>0, <1>11 DEF AnnounceOK, Slotless
<1>13. SeenOK'
  <2> SUFFICES ASSUME NEW v \in Threads, NEW u \in Threads, th[v].pc = "inc",
                      th[u].pc \in {"scan", "destroy"},
                      slots'[slot[u]].retired[th[v].cur] > 0
               PROVE  /\ buf'[v] = <<>> /\ slots'[slot[v]].ptr = th[v].cur
                      /\ th[u].pc = "destroy" \/ th[u].pos > slot[v]
                           => th[v].cur \in th[u].seen
    BY <1>0 DEF SeenOK
  <2>1. slot[u] \in DOMAIN slots /\ slots'[slot[u]].retired = slots[slot[u]].retired
    BY <1>0, <1>7, SlotTypes DEF Slotless
  <2>2. /\ buf[v] = <<>> /\ slots[slot[v]].ptr = th[v].cur
        /\ th[u].pc = "destroy" \/ th[u].pos > slot[v] => th[v].cur \in th[u].seen
    BY <1>0, <2>1 DEF SeenOK
  <2>3. v # t
    BY <1>0, <2>2
  <2> QED
    BY <1>10, <2>2, <2>3 DEF Slotless
<1> QED
  BY <1>8, <1>9, <1>12, <1>13 DEF Hazards

(* The heavy fence makes every announcement visible.                       *)
LEMMA FenceHazards ==
    ASSUME Books, Hazards, NEW t \in Threads, Fence(t)
    PROVE  Hazards'
<1> DEFINE Owner(i) == CHOOSE u \in Threads : slot[u] = i
           p(i) == IF \E u \in Threads : slot[u] = i THEN Newest(Owner(i)) ELSE slots[i].ptr
<1>0. /\ DataOK /\ ThreadsOK /\ SlotsOK /\ RetiredOnce /\ AnnounceOK /\ SeenOK
      /\ UNCHANGED <<life, weak, slot>>
      /\ slots' = [i \in DOMAIN slots |-> [slots[i] EXCEPT !.ptr = p(i)]]
      /\ buf' = [u \in Threads |-> <<>>]
      /\ th[t].pc = "fence" /\ Set(t, [th[t] EXCEPT !.pc = "scan"])
  BY DEF Books, Hazards, Fence, HeavyFence, counts, At
<1>1. /\ ThreadsOK' /\ Others(t) /\ th'[t].pc = "scan" /\ th'[t].pos = 1
  <2>1. ThreadsOK' /\ Others(t) /\ th'[t].pc = "scan" /\ th'[t].pos = th[t].pos
    BY <1>0, GotoEffect
  <2>2. th[t].pos = 1
    BY <1>0 DEF ThreadsOK, Shape, Slotless
  <2> QED
    BY <2>1, <2>2
<1>2. /\ \A i \in DOMAIN slots : slots[i] \in Slot
      /\ DOMAIN slots = 1 .. Len(slots) /\ Len(slots) \in Nat
      /\ \A u \in Threads : th[u].pc \notin Slotless => slot[u] \in DOMAIN slots
  BY <1>0, SlotTypes
<1>3. \A u \in Threads : slot[u] \in DOMAIN slots => p(slot[u]) = Newest(u)
  <2> TAKE u \in Threads
  <2> HAVE slot[u] \in DOMAIN slots
  <2>1. Owner(slot[u]) \in Threads /\ slot[Owner(slot[u])] = slot[u]
    OBVIOUS
  <2>2. slot[u] # 0
    BY <1>2
  <2>3. Owner(slot[u]) = u
    <3> HIDE DEF Owner
    <3> QED
      BY <1>0, <2>1, <2>2 DEF SlotsOK
  <2> HIDE DEF Owner
  <2> QED
    BY <2>3
<1>4. \A i \in DOMAIN slots : p(i) \in Pointers
  <2> TAKE i \in DOMAIN slots
  <2>1. CASE \E u \in Threads : slot[u] = i
    <3>1. PICK u \in Threads : slot[u] = i
      BY <2>1
    <3>2. p(slot[u]) = Newest(u)
      BY <1>3, <3>1
    <3> HIDE DEF p
    <3>3. Newest(u) \in Pointers
      BY <1>0, <3>1, NewestType
    <3> QED
      BY <3>1, <3>2, <3>3
  <2>2. CASE ~\E u \in Threads : slot[u] = i
    BY <1>2, <2>2 DEF Slot
  <2> QED
    BY <2>1, <2>2
<1> HIDE DEF p
<1>5. \A i \in DOMAIN slots : [slots[i] EXCEPT !.ptr = p(i)] \in Slot
  BY <1>2, <1>4 DEF Slot
<1>6. /\ slots' \in Seq(Slot) /\ Len(slots') = Len(slots) /\ DOMAIN slots' = DOMAIN slots
      /\ \A i \in DOMAIN slots : slots'[i] = [slots[i] EXCEPT !.ptr = p(i)]
  BY <1>0, <1>2, <1>5, SMTT(60)
<1>7. \A i \in DOMAIN slots : /\ slots'[i].ptr = p(i)
                              /\ slots'[i].retired = slots[i].retired
                              /\ slots'[i].used = slots[i].used
  BY <1>2, <1>6 DEF Slot
<1>8. buf' \in [Threads -> Seq(Blocks)] /\ \A u \in Threads : buf'[u] = <<>>
  <2>1. <<>> \in Seq(Blocks)
    OBVIOUS
  <2> QED
    BY <1>0, <2>1
<1>9. SlotsOK'
  <2>1. \A u \in Threads : /\ th'[u].pc \in Slotless <=> th[u].pc \in Slotless
                           /\ th'[u].pc \in {"find", "scan"} => th'[u].pos \in 1 .. Len(slots)
    <3> TAKE u \in Threads
    <3>1. CASE u = t
      <4>1. 1 \in 1 .. Len(slots)
        BY <1>0, <1>2 DEF SlotsOK
      <4> QED
        BY <1>0, <1>1, <3>1, <4>1 DEF Slotless
    <3>2. CASE u # t
      <4>1. th'[u] = th[u]
        BY <1>1, <3>2 DEF Others
      <4> QED
        BY <1>0, <4>1 DEF SlotsOK
    <3> QED
      BY <3>1, <3>2
  <2> QED
    BY <1>0, <1>2, <1>6, <1>7, <1>8, <2>1, ZenonT(60) DEF SlotsOK
<1>10. RetiredOnce'
  BY <1>0, <1>6, <1>7, ListsSame
<1>11. \A u \in Threads : th'[u].pc \in {"check", "inc"}
         => /\ u # t /\ th'[u] = th[u] /\ slot[u] \in DOMAIN slots
            /\ slots'[slot[u]].ptr = Newest(u) /\ Newest(u)' = Newest(u)
  <2> SUFFICES ASSUME NEW u \in Threads, th'[u].pc \in {"check", "inc"}
               PROVE  /\ u # t /\ th'[u] = th[u] /\ slot[u] \in DOMAIN slots
                      /\ slots'[slot[u]].ptr = Newest(u) /\ Newest(u)' = Newest(u)
    OBVIOUS
  <2>1. u # t /\ th'[u] = th[u]
    BY <1>1 DEF Others
  <2>2. slot[u] \in DOMAIN slots
    BY <1>2, <2>1 DEF Slotless
  <2>3. slots'[slot[u]].ptr = Newest(u)
    BY <1>3, <1>7, <2>2
  <2>4. Newest(u)' = slots'[slot[u]].ptr
    BY <1>0, <1>8 DEF Newest
  <2> QED
    BY <2>1, <2>2, <2>3, <2>4
<1>12. AnnounceOK'
  BY <1>0, <1>11 DEF AnnounceOK
<1>13. SeenOK'
  <2> SUFFICES ASSUME NEW v \in Threads, NEW u \in Threads, th'[v].pc = "inc",
                      th'[u].pc \in {"scan", "destroy"},
                      slots'[slot[u]].retired[th'[v].cur] > 0
               PROVE  /\ buf'[v] = <<>> /\ slots'[slot[v]].ptr = th'[v].cur
                      /\ th'[u].pc = "destroy" \/ th'[u].pos > slot[v]
                           => th'[v].cur \in th'[u].seen
    BY <1>0 DEF SeenOK
  <2>1. /\ buf'[v] = <<>> /\ slots'[slot[v]].ptr = th'[v].cur
        /\ v # t /\ th'[v] = th[v] /\ slot[v] \in 1 .. Len(slots)
    BY <1>0, <1>2, <1>8, <1>11 DEF AnnounceOK
  <2>2. CASE u = t
    BY <1>1, <1>2, <2>1, <2>2
  <2>3. CASE u # t
    <3>1. th'[u] = th[u] /\ slot[u] \in DOMAIN slots
      BY <1>1, <1>2, <2>3 DEF Others, Slotless
    <3>2. slots[slot[u]].retired[th[v].cur] > 0
      BY <1>7, <2>1, <3>1
    <3> QED
      BY <1>0, <2>1, <3>1, <3>2 DEF SeenOK
  <2> QED
    BY <2>2, <2>3
<1> QED
  BY <1>9, <1>10, <1>12, <1>13 DEF Hazards

(* Retire adds one occurrence of the block to the list.                    *)
LEMMA RetireEffect ==
    ASSUME NEW r \in Slot, NEW b \in Blocks
    PROVE  LET s == Retire(r, b) IN
           /\ s \in Slot /\ s.ptr = r.ptr /\ s.used = r.used
           /\ s.retired = [r.retired EXCEPT ![b] = @ + 1]
<1> DEFINE n == IF r.since + 1 >= Threshold THEN 0 ELSE r.since + 1
           l == [r.retired EXCEPT ![b] = @ + 1]
<1>1. n \in 0 .. Threshold - 1 /\ l \in [Blocks -> Nat]
  BY BoundAssumption DEF Slot
<1>2. Retire(r, b) = [r EXCEPT !.retired = l, !.since = n]
  BY DEF Retire
<1> HIDE DEF n, l
<1>3. LET s == [r EXCEPT !.retired = l, !.since = n] IN
      s \in Slot /\ s.ptr = r.ptr /\ s.used = r.used /\ s.retired = l
  BY <1>1 DEF Slot
<1> QED
  BY <1>2, <1>3 DEF l

(* The last weak reference goes: the block is in the list of this slot,    *)
(* and was in none before.                                                 *)
LEMMA DecWeakHazards ==
    ASSUME Books, Hazards, NEW t \in Threads, DecWeak(t)
    PROVE  Hazards'
<1> DEFINE i == slot[t]
           b == th[t].old
           s == Retire(slots[i], b)
           last == weak[b] = 1
<1>0. /\ DataOK /\ ThreadsOK /\ CountsOK /\ LifeOK
      /\ SlotsOK /\ RetiredOnce /\ AnnounceOK /\ SeenOK
      /\ UNCHANGED <<life, slot, buf>>
      /\ slots' = (IF last THEN [slots EXCEPT ![i] = s] ELSE slots)
      /\ th[t].pc = "decweak"
  BY DEF Books, Hazards, DecWeak, At
<1>1. /\ ThreadsOK' /\ Others(t) /\ b \in Blocks
      /\ th'[t].pc \in {"idle", "cas", "give", "fence"}
      /\ weak[b] > 0
      /\ \A c \in Blocks : weak'[c] = weak[c] - (IF b = c THEN 1 ELSE 0)
  BY <1>0, DecWeakEffect
<1>2. /\ i \in 1 .. Len(slots) /\ slots \in Seq(Slot) /\ slots[i] \in Slot
  <2>1. slot[t] \in 1 .. Len(slots)
    BY <1>0 DEF SlotsOK, Slotless
  <2> HIDE DEF s, last
  <2> QED
    BY <1>0, <2>1 DEF SlotsOK
<1>a. \A c \in Blocks : weak[c] \in Nat
  BY <1>0 DEF DataOK
<1> HIDE DEF i, b
<1>3. /\ s \in Slot /\ s.ptr = slots[i].ptr /\ s.used = slots[i].used
      /\ s.retired = [slots[i].retired EXCEPT ![b] = @ + 1]
  BY <1>1, <1>2, RetireEffect
<1> HIDE DEF s
<1>4. /\ slots' \in Seq(Slot) /\ Len(slots') = Len(slots) /\ DOMAIN slots' = DOMAIN slots
      /\ \A k \in DOMAIN slots : k # i \/ ~last => slots'[k] = slots[k]
      /\ last => slots'[i] = s
  <2>1. CASE last
    BY <1>0, <1>2, <1>3, <2>1, SlotWritten
  <2>2. CASE ~last
    BY <1>0, <1>2, <2>2
  <2> QED
    BY <2>1, <2>2
<1>5. \A k \in DOMAIN slots : /\ slots'[k].ptr = slots[k].ptr /\ slots'[k].used = slots[k].used
                              /\ \A c \in Blocks : slots'[k].retired[c] = slots[k].retired[c]
                                    + (IF last /\ k = i /\ c = b THEN 1 ELSE 0)
                              /\ \A c \in Blocks : slots[k].retired[c] \in Nat
  <2> TAKE k \in DOMAIN slots
  <2>1. slots[k].retired \in [Blocks -> Nat]
    BY <1>0, SlotTypes DEF Slot
  <2>2. CASE last /\ k = i
    <3>1. slots'[k].retired = [slots[k].retired EXCEPT ![b] = @ + 1]
      BY <1>3, <1>4, <2>2
    <3> QED
      BY <1>1, <1>3, <1>4, <2>1, <2>2, <3>1
  <2>3. CASE ~(last /\ k = i)
    BY <1>4, <2>1, <2>3
  <2> QED
    BY <2>2, <2>3
<1>6. \A u \in Threads : u # t => slot[u] # i
  BY <1>0, <1>2 DEF SlotsOK, i
<1>7. SlotsOK'
  <2>1. \A u \in Threads : /\ th'[u].pc \in Slotless <=> th[u].pc \in Slotless
                           /\ th'[u].pc \in {"find", "scan"} => th'[u].pos \in 1 .. Len(slots)
    BY <1>0, <1>1 DEF Others, SlotsOK, Slotless
  <2> QED
    BY <1>0, <1>4, <1>5, <2>1 DEF SlotsOK
<1>8. RetiredOnce'
  <2>1. last => life[b] = "disposed" /\ \A k \in DOMAIN slots : slots[k].retired[b] = 0
    <3> SUFFICES ASSUME last
                 PROVE  life[b] = "disposed" /\ \A k \in DOMAIN slots : slots[k].retired[b] = 0
      OBVIOUS
    <3>1. \A k \in DOMAIN slots : slots[k].retired[b] = 0
      BY <1>0, <1>1, <1>5 DEF RetiredOnce
    <3>2. weak[b] = weakly[b] + Whole(b) + AllWeakRefs(b) /\ weakly[b] \in Nat
          /\ Whole(b) \in Nat
      BY <1>0, <1>1 DEF CountsOK, DataOK, Whole
    <3>3. WeakRefs(th[t], b) = 1 /\ WeakRefs(th[t], b) <= AllWeakRefs(b)
          /\ AllWeakRefs(b) \in Nat
      BY <1>0, RefsBound DEF WeakRefs, b
    <3>4. Whole(b) = 0
      BY <3>2, <3>3
    <3>5. life[b] # "alive" /\ life[b] # "free" /\ life[b] \in Lives
      BY <1>0, <1>1, <3>4 DEF Whole, LifeOK, DataOK
    <3> QED
      BY <3>1, <3>5 DEF Lives
  <2> SUFFICES ASSUME NEW c \in Blocks, NEW k \in DOMAIN slots', slots'[k].retired[c] > 0
               PROVE  /\ slots'[k].retired[c] = 1
                      /\ \A j \in DOMAIN slots' : slots'[j].retired[c] > 0 => j = k
                      /\ life[c] = "disposed" /\ weak'[c] = 0
    BY <1>0 DEF RetiredOnce
  <2>2. k \in DOMAIN slots /\ slots[k].retired[c] \in Nat
    BY <1>4, <1>5
  <2>3. CASE last /\ c = b
    <3>1. k = i /\ \A j \in DOMAIN slots : slots'[j].retired[c] > 0 => j = i
      BY <1>5, <2>1, <2>2, <2>3
    <3>2. slots'[k].retired[c] = 1
      BY <1>5, <2>1, <2>2, <2>3, <3>1
    <3>3. weak'[c] = 0
      BY <1>1, <1>a, <2>3
    <3> QED
      BY <1>4, <2>1, <2>3, <3>1, <3>2, <3>3
  <2>4. CASE ~(last /\ c = b)
    <3>1. \A j \in DOMAIN slots : slots'[j].retired[c] = slots[j].retired[c]
      BY <1>5, <2>4
    <3>2. /\ slots[k].retired[c] = 1
          /\ \A j \in DOMAIN slots : slots[j].retired[c] > 0 => j = k
          /\ life[c] = "disposed" /\ weak[c] = 0
      BY <1>0, <2>2, <3>1 DEF RetiredOnce
    <3>3. c # b
      BY <1>1, <3>2
    <3> QED
      BY <1>1, <1>4, <2>2, <3>1, <3>2, <3>3
  <2> QED
    BY <2>3, <2>4
<1>9. \A u \in Threads : th'[u].pc \in {"check", "inc", "scan", "destroy"}
        => /\ u # t /\ th'[u] = th[u] /\ slot[u] \in DOMAIN slots /\ slot[u] # i
           /\ slots'[slot[u]] = slots[slot[u]]
  BY <1>0, <1>1, <1>4, <1>6, SlotTypes DEF Others, Slotless
<1>10. AnnounceOK'
  <2>1. \A u \in Threads : th'[u].pc \in {"check", "inc"} => Newest(u)' = Newest(u)
    BY <1>0, <1>9 DEF Newest
  <2> QED
    BY <1>0, <1>9, <2>1 DEF AnnounceOK
<1>11. SeenOK'
  BY <1>0, <1>9 DEF SeenOK
<1> QED
  BY <1>7, <1>8, <1>10, <1>11 DEF Hazards

(* A cleanup frees what it has not seen announced.                         *)
LEMMA DestroyHazards ==
    ASSUME Books, Hazards, NEW t \in Threads, Destroy(t)
    PROVE  Hazards'
<1> DEFINE i == slot[t]
           seen == th[t].seen
           l == [b \in Blocks |-> IF b \in seen THEN slots[i].retired[b] ELSE 0]
           s == [slots[i] EXCEPT !.retired = l]
<1>0. /\ DataOK /\ ThreadsOK /\ SlotsOK /\ RetiredOnce /\ AnnounceOK /\ SeenOK
      /\ UNCHANGED <<weak, slot, buf>>
      /\ slots' = [slots EXCEPT ![i] = s]
      /\ th[t].pc = "destroy"
  BY DEF Books, Hazards, Destroy, At
<1>1. /\ ThreadsOK' /\ Others(t)
      /\ th'[t].pc \in {"idle", "cas", "give"}
      /\ \A b \in Blocks : IF slots[i].retired[b] > 0 /\ b \notin seen
                           THEN life'[b] = "free" /\ life[b] = "disposed"
                           ELSE life'[b] = life[b]
  BY <1>0, DestroyEffect
<1>2. /\ i \in 1 .. Len(slots) /\ slots \in Seq(Slot) /\ slots[i] \in Slot
  <2>1. slot[t] \in 1 .. Len(slots)
    BY <1>0 DEF SlotsOK, Slotless
  <2> HIDE DEF s
  <2> QED
    BY <1>0, <2>1 DEF SlotsOK
<1>3. l \in [Blocks -> Nat]
  BY <1>2 DEF Slot
<1> HIDE DEF i, seen
<1>4. s \in Slot /\ s.ptr = slots[i].ptr /\ s.used = slots[i].used /\ s.retired = l
  <2> HIDE DEF l
  <2> QED
    BY <1>2, <1>3 DEF Slot
<1> HIDE DEF s
<1>5. /\ slots' \in Seq(Slot) /\ Len(slots') = Len(slots) /\ DOMAIN slots' = DOMAIN slots
      /\ slots'[i] = s /\ \A k \in DOMAIN slots : k # i => slots'[k] = slots[k]
  BY <1>0, <1>2, <1>4, SlotWritten
<1>6. \A k \in DOMAIN slots :
        /\ slots'[k].ptr = slots[k].ptr /\ slots'[k].used = slots[k].used
        /\ \A c \in Blocks : slots'[k].retired[c] =
                               IF k = i /\ c \notin seen THEN 0 ELSE slots[k].retired[c]
  BY <1>4, <1>5
<1>7. \A u \in Threads : u # t => slot[u] # i
  BY <1>0, <1>2 DEF SlotsOK, i
<1>8. SlotsOK'
  <2>1. \A u \in Threads : /\ th'[u].pc \in Slotless <=> th[u].pc \in Slotless
                           /\ th'[u].pc \in {"find", "scan"} => th'[u].pos \in 1 .. Len(slots)
    BY <1>0, <1>1 DEF Others, SlotsOK, Slotless
  <2> QED
    BY <1>0, <1>5, <1>6, <2>1 DEF SlotsOK
<1>9. RetiredOnce'
  <2> SUFFICES ASSUME NEW c \in Blocks, NEW k \in DOMAIN slots', slots'[k].retired[c] > 0
               PROVE  /\ slots'[k].retired[c] = 1
                      /\ \A j \in DOMAIN slots' : slots'[j].retired[c] > 0 => j = k
                      /\ life'[c] = "disposed" /\ weak[c] = 0
    BY <1>0 DEF RetiredOnce
  <2>1. \A j \in DOMAIN slots' : slots'[j].retired[c] > 0 =>
          /\ j \in DOMAIN slots /\ slots'[j].retired[c] = slots[j].retired[c]
          /\ (j = i => c \in seen)
    <3> TAKE j \in DOMAIN slots'
    <3> HAVE slots'[j].retired[c] > 0
    <3>1. j \in DOMAIN slots
      BY <1>5
    <3>2. slots'[j].retired[c] = IF j = i /\ c \notin seen THEN 0 ELSE slots[j].retired[c]
      BY <1>6, <3>1
    <3> QED
      BY <3>1, <3>2
  <2>2. /\ slots[k].retired[c] = 1
        /\ \A j \in DOMAIN slots : slots[j].retired[c] > 0 => j = k
        /\ life[c] = "disposed" /\ weak[c] = 0
    BY <1>0, <2>1 DEF RetiredOnce
  <2>3. ~(slots[i].retired[c] > 0 /\ c \notin seen)
    BY <1>2, <2>1, <2>2
  <2> QED
    BY <1>1, <2>1, <2>2, <2>3
<1>10. \A u \in Threads : th'[u].pc \in {"check", "inc", "scan", "destroy"}
         => /\ u # t /\ th'[u] = th[u] /\ slot[u] \in DOMAIN slots /\ slot[u] # i
            /\ slots'[slot[u]] = slots[slot[u]]
  BY <1>0, <1>1, <1>5, <1>7, SlotTypes DEF Others, Slotless
<1>11. AnnounceOK'
  <2>1. \A u \in Threads : th'[u].pc \in {"check", "inc"} => Newest(u)' = Newest(u)
    BY <1>0, <1>10 DEF Newest
  <2>2. \A u \in Threads : th'[u].pc = "inc" => life'[th[u].cur] # "free"
    <3> SUFFICES ASSUME NEW u \in Threads, th'[u].pc = "inc"
                 PROVE  life'[th[u].cur] # "free"
      OBVIOUS
    <3>1. th'[u] = th[u] /\ th[u].pc = "inc"
      BY <1>10
    <3>2. th[u].cur \in Blocks /\ life[th[u].cur] # "free"
      BY <1>0, <3>1 DEF ThreadsOK, Shape, Loading, AnnounceOK
    <3>3. slots[i].retired[th[u].cur] > 0 => th[u].cur \in seen
      BY <1>0, <3>1 DEF SeenOK, i, seen
    <3> QED
      BY <1>1, <3>2, <3>3
  <2> QED
    BY <1>0, <1>10, <2>1, <2>2 DEF AnnounceOK
<1>12. SeenOK'
  BY <1>0, <1>10 DEF SeenOK
<1> QED
  BY <1>8, <1>9, <1>11, <1>12 DEF Hazards

(* Every step keeps the protocol of the hazard pointers.                   *)
LEMMA HazardsStep ==
    ASSUME Books, Hazards, Next
    PROVE  Hazards'
<1>1. ASSUME NEW t \in Threads, Quiet(t)
      PROVE  Hazards'
  BY <1>1, TakeSlotHazards, LoadHazards, NewSlotHazards, ExitHazards, FenceHazards,
     ScanHazards, AnnounceHazards DEF Quiet
<1>2. ASSUME NEW t \in Threads, Moving(t)
      PROVE  Hazards'
  BY <1>2, MovingHazards, DecWeakHazards
<1> QED
  BY <1>1, <1>2, NextSplit, HandlingHazards, FlushHazards, DisposeHazards, DestroyHazards

-----------------------------------------------------------------------------
(* The invariant holds of every reachable state.                           *)

LEMMA InvInit == Init => Inv
<1> SUFFICES ASSUME Init PROVE Inv
  OBVIOUS
<1> DEFINE b == CHOOSE c \in Blocks : TRUE
           q == [Idle EXCEPT !.pc = "find"]
<1>0. /\ cell = b /\ zero = {} /\ calls = 0
      /\ strong = [c \in Blocks |-> IF c = b THEN 1 ELSE 0]
      /\ weak = [c \in Blocks |-> IF c = b THEN 1 ELSE 0]
      /\ life = [c \in Blocks |-> IF c = b THEN "alive" ELSE "free"]
      /\ shared = [c \in Blocks |-> 0] /\ weakly = [c \in Blocks |-> 0]
      /\ slots = <<FreshSlot(FALSE)>> /\ slot = [t \in Threads |-> 0]
      /\ buf = [t \in Threads |-> <<>>] /\ th = [t \in Threads |-> q]
  BY DEF Init
<1>1. b \in Blocks
  BY BlockAssumption
<1>2. Shape(q) /\ q \in Thread /\ q.pc = "find" /\ q.pos = 1 /\ q.exp = Null /\ q.des = Null
  BY IdleShape DEF Shape, Idle
<1> HIDE DEF b, q
<1>3. DataOK
  BY <1>0, <1>1, BoundAssumption DEF DataOK, Pointers, Lives
<1>4. ThreadsOK
  BY <1>0, <1>2 DEF ThreadsOK
<1>5. CountsOK
  <2> SUFFICES ASSUME NEW c \in Blocks
               PROVE  /\ strong[c] = shared[c] + InCell(c) + AllRefs(c)
                      /\ weak[c] = weakly[c] + Whole(c) + AllWeakRefs(c)
    BY DEF CountsOK
  <2>1. /\ {t \in Threads : th[t].exp = c} = {} /\ {t \in Threads : th[t].des = c} = {}
        /\ {t \in Threads : th[t].pc = "dec" /\ th[t].old = c} = {}
        /\ {t \in Threads : th[t].pc = "decweak" /\ th[t].old = c} = {}
    BY <1>0, <1>2, BlockAssumption
  <2>2. AllRefs(c) = 0 /\ AllWeakRefs(c) = 0
    <3>1. AllRefs(c) = Cardinality({}) + Cardinality({}) + Cardinality({})
          /\ AllWeakRefs(c) = Cardinality({})
      BY <2>1, Zenon DEF AllRefs, AllWeakRefs
    <3>2. Cardinality({}) = 0
      BY FS_EmptySet
    <3> QED
      BY <3>1, <3>2
  <2>3. InCell(c) = strong[c] /\ Whole(c) = weak[c] /\ shared[c] = 0 /\ weakly[c] = 0
        /\ strong[c] \in Nat /\ weak[c] \in Nat
    BY <1>0 DEF InCell, Whole
  <2> QED
    BY <2>2, <2>3
<1>6. LifeOK
  BY <1>0, <1>1 DEF LifeOK
<1>7. \A t \in Threads : th[t].pc = "find" /\ th[t].pos = 1 /\ slot[t] = 0 /\ buf[t] = <<>>
  BY <1>0, <1>2
<1>8. BornOK
  BY <1>7 DEF BornOK, Knows, Loading
<1>9. /\ slots \in Seq(Slot) /\ Len(slots) = 1 /\ DOMAIN slots = {1}
      /\ slots[1].retired = [c \in Blocks |-> 0]
  <2>1. FreshSlot(FALSE) \in Slot /\ FreshSlot(FALSE).retired = [c \in Blocks |-> 0]
    BY BoundAssumption DEF FreshSlot, Slot, Pointers
  <2> DEFINE s == FreshSlot(FALSE)
  <2>2. slots = <<s>>
    BY <1>0
  <2> HIDE DEF s
  <2>3. s \in Slot /\ s.retired = [c \in Blocks |-> 0]
    BY <2>1 DEF s
  <2>4. slots \in Seq(Slot) /\ Len(slots) = 1 /\ slots[1] = s
    BY <2>2, <2>3
  <2>5. DOMAIN slots = {1}
    BY <2>4
  <2> QED
    BY <2>3, <2>4, <2>5
<1>10. SlotsOK
  <2>1. slot \in [Threads -> Nat] /\ buf \in [Threads -> Seq(Blocks)]
    <3>1. <<>> \in Seq(Blocks)
      OBVIOUS
    <3> QED
      BY <1>0, <3>1
  <2> QED
    BY <1>7, <1>9, <2>1 DEF SlotsOK, Slotless
<1>11. RetiredOnce
  BY <1>9 DEF RetiredOnce
<1>12. AnnounceOK /\ SeenOK
  BY <1>7 DEF AnnounceOK, SeenOK
<1> QED
  BY <1>3, <1>4, <1>5, <1>6, <1>8, <1>10, <1>11, <1>12 DEF Inv, Books, Hazards

(* Every step keeps the invariant.                                         *)
LEMMA InvStep == Inv /\ [Next]_vars => Inv'
<1> SUFFICES ASSUME Inv, [Next]_vars PROVE Inv'
  OBVIOUS
<1>1. CASE Next
  BY <1>1, BooksStep, HazardsStep DEF Inv, Hazards
<1>2. CASE UNCHANGED vars
  <2>1. /\ UNCHANGED <<cell, strong, zero, weak, life, shared, weakly, th, calls>>
        /\ UNCHANGED <<slots, slot, buf>>
    BY <1>2 DEF vars, counts, hazard
  <2>2. DataOK' /\ ThreadsOK' /\ LifeOK' /\ BornOK'
    BY <2>1 DEF Inv, Books, DataOK, ThreadsOK, LifeOK, BornOK, Knows, Born
  <2>3. CountsOK'
    BY <2>1, SameThreads DEF Inv, Books, CountsOK, InCell, Whole
  <2>4. Hazards'
    BY <2>1 DEF Inv, Hazards, SlotsOK, RetiredOnce, AnnounceOK, SeenOK, Newest
  <2> QED
    BY <2>2, <2>3, <2>4 DEF Inv, Books
<1> QED
  BY <1>1, <1>2

(* Counts are exact in every state of a block's life, owners find it       *)
(* alive, and announcements protect it: the inductive invariant holds,     *)
(* whatever threads, blocks and slots there are.                           *)
THEOREM PointerInvariant == Spec => []Inv
  BY InvInit, InvStep, PTL DEF Spec

(* The strong count of a block with its object is the number of its        *)
(* owners: handles, the AtomicSharedPtr, and the references of load(),     *)
(* compare_exchange and release that are under way.                        *)
THEOREM CountsAreExact == Spec => []StrongCountExact
<1>1. Inv => StrongCountExact
  <2> SUFFICES ASSUME Inv PROVE StrongCountExact
    OBVIOUS
  <2>0. DataOK /\ ThreadsOK /\ CountsOK /\ SlotsOK
    BY DEF Inv, Books, Hazards
  <2>1. TypeOK
    <3>1. \A i \in DOMAIN slots : slots[i].ptr \in Pointers /\ slots[i].since < Threshold
      BY <2>0, SlotTypes, BoundAssumption DEF Slot
    <3>2. \A t \in Threads : slot[t] \in 0 .. Len(slots) /\ buf[t] \in Seq(Blocks)
      BY <2>0 DEF SlotsOK
    <3> QED
      BY <2>0, <3>1, <3>2 DEF TypeOK, DataOK
  <2>2. ASSUME NEW b \in Blocks
        PROVE  strong[b] = shared[b] + (IF cell = b THEN 1 ELSE 0) + Holding(b, "exp")
                           + Holding(b, "des") + Releasing(b, {"dec"})
    <3>1. \A t \in Threads : th[t].pc = "idle" => th[t].exp # b /\ th[t].des # b
      BY <2>0, BlockAssumption DEF ThreadsOK, Shape
    <3>2. /\ {t \in Threads : th[t].exp = b /\ th[t].pc # "idle"} = {t \in Threads : th[t].exp = b}
          /\ {t \in Threads : th[t].des = b /\ th[t].pc # "idle"} = {t \in Threads : th[t].des = b}
          /\ {t \in Threads : th[t].old = b /\ th[t].pc \in {"dec"}}
               = {t \in Threads : th[t].pc = "dec" /\ th[t].old = b}
      BY <3>1
    <3>3. /\ Holding(b, "exp") = Cardinality({t \in Threads : th[t].exp = b})
          /\ Holding(b, "des") = Cardinality({t \in Threads : th[t].des = b})
          /\ Releasing(b, {"dec"})
               = Cardinality({t \in Threads : th[t].pc = "dec" /\ th[t].old = b})
      BY <3>2 DEF Holding, Releasing
    <3>4. \A S : S \subseteq Threads => Cardinality(S) \in Nat
      BY ThreadAssumption, FS_Subset, FS_CardinalityType
    <3>5. Holding(b, "exp") \in Nat /\ Holding(b, "des") \in Nat
          /\ Releasing(b, {"dec"}) \in Nat
      BY <3>3, <3>4
    <3>6. AllRefs(b) = Holding(b, "exp") + Holding(b, "des") + Releasing(b, {"dec"})
      BY <3>3 DEF AllRefs
    <3>7. strong[b] = shared[b] + InCell(b) + AllRefs(b) /\ shared[b] \in Nat
          /\ InCell(b) \in Nat /\ InCell(b) = (IF cell = b THEN 1 ELSE 0)
      BY <2>0 DEF CountsOK, DataOK, InCell
    <3> HIDE DEF InCell
    <3> QED
      BY <3>5, <3>6, <3>7
  <2> QED
    BY <2>1, <2>2 DEF StrongCountExact
<1> QED
  BY <1>1, PointerInvariant, PTL

(* The managed object is there as long as a SharedPtr or the               *)
(* AtomicSharedPtr owns it.                                                *)
THEOREM OwnersFindTheObject == Spec => []OwnedIsAlive
<1>1. Inv => OwnedIsAlive
  BY OwnedBlock DEF Inv, Books, OwnedIsAlive
<1> QED
  BY <1>1, PointerInvariant, PTL

(* HazardPointers::cleanup() frees no control block that a handle or a     *)
(* reference keeps, or that a thread has announced and validated, though   *)
(* the announcement is a relaxed store and the block may be retired in the *)
(* meantime.                                                               *)
THEOREM NothingInUseIsFreed == Spec => []NoUseAfterFree
<1>1. Inv => NoUseAfterFree
  <2> SUFFICES ASSUME Inv, NEW b \in Relied
               PROVE  life[b] # "free"
    BY DEF NoUseAfterFree
  <2>0. /\ DataOK /\ ThreadsOK /\ CountsOK /\ LifeOK /\ AnnounceOK /\ b \in Blocks
        /\ strong[b] > 0 => life[b] = "alive"
        /\ weak[b] > 0 => life[b] # "free"
    BY OwnedBlock DEF Inv, Books, Hazards, Relied
  <2>1. CASE cell = b \/ shared[b] > 0 \/ weakly[b] > 0
    BY <2>0, <2>1, OwnedBlock
  <2>2. ASSUME NEW t \in Threads,
               \/ th[t].exp = b \/ th[t].des = b
               \/ th[t].old = b /\ th[t].pc \in {"dec", "decweak"}
        PROVE  life[b] # "free"
    <3>1. Refs(th[t], b) > 0 \/ WeakRefs(th[t], b) > 0
      BY <2>2 DEF Refs, WeakRefs
    <3>2. AllRefs(b) > 0 \/ AllWeakRefs(b) > 0
      BY <3>1, RefsBound, RefsType
    <3>3. strong[b] > 0 \/ weak[b] > 0
      <4>1. /\ AllRefs(b) \in Nat /\ AllWeakRefs(b) \in Nat /\ InCell(b) \in Nat
            /\ Whole(b) \in Nat /\ shared[b] \in Nat /\ weakly[b] \in Nat
            /\ strong[b] = shared[b] + InCell(b) + AllRefs(b)
            /\ weak[b] = weakly[b] + Whole(b) + AllWeakRefs(b)
        BY <2>0, RefsNat DEF DataOK, CountsOK, InCell, Whole
      <4> QED
        BY <3>2, <4>1
    <3> QED
      BY <2>0, <3>3
  <2>3. CASE Holding(b, "exp") + Holding(b, "des") > 0
    <3>1. \E t \in Threads : th[t].exp = b \/ th[t].des = b
      <4> SUFFICES ASSUME \A t \in Threads : th[t].exp # b /\ th[t].des # b
                   PROVE  FALSE
        OBVIOUS
      <4>1. {t \in Threads : th[t].exp = b /\ th[t].pc # "idle"} = {}
            /\ {t \in Threads : th[t].des = b /\ th[t].pc # "idle"} = {}
        OBVIOUS
      <4>2. Holding(b, "exp") = 0 /\ Holding(b, "des") = 0
        BY <4>1, FS_EmptySet DEF Holding
      <4> QED
        BY <2>3, <4>2
    <3> QED
      BY <2>2, <3>1
  <2>4. CASE Releasing(b, {"dec", "decweak"}) > 0
    <3>1. \E t \in Threads : th[t].old = b /\ th[t].pc \in {"dec", "decweak"}
      <4> SUFFICES ASSUME {t \in Threads : th[t].old = b /\ th[t].pc \in {"dec", "decweak"}} = {}
                   PROVE  FALSE
        OBVIOUS
      <4>1. Releasing(b, {"dec", "decweak"}) = 0
        BY FS_EmptySet DEF Releasing
      <4> QED
        BY <2>4, <4>1
    <3> QED
      BY <2>2, <3>1
  <2>5. CASE \E t \in Threads : At(t, "inc") /\ th[t].cur = b
    BY <2>0, <2>5 DEF AnnounceOK, At
  <2> QED
    BY <2>1, <2>3, <2>4, <2>5 DEF Relied
<1> QED
  BY <1>1, PointerInvariant, PTL

(* A control block is in one retired list, once, after its object has been *)
(* disposed of and its last weak reference has gone.                       *)
THEOREM BlocksRetireOnce == Spec => []RetiredOnce
<1>1. Inv => RetiredOnce
  BY DEF Inv, Hazards
<1> QED
  BY <1>1, PointerInvariant, PTL
=============================================================================
