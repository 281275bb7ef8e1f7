----------------------- MODULE StealingExecutorProofs -----------------------
(***************************************************************************)
(* The executor keeps its books for any number of consumers and items: its *)
(* unsigned counters are the numbers of the consumers they stand for,      *)
(* WaitAll() returns when all work is done, and WaitGroup::wait() when the *)
(* work of the group is.                                                   *)
(***************************************************************************)
EXTENDS StealingExecutor, FiniteSetTheorems, SequenceTheorems, TLAPS

-----------------------------------------------------------------------------
(* The parts of the inductive invariant.                                   *)

Pcs == {"gone", "setup", "lock", "test", "sleep", "asleep", "relock", "awake", "teardown",
        "steal", "again", "begin", "consume", "done", "notify", "finish", "last", "spin"}
Thread == [pc : Pcs, item : Items \cup {NoItem}, nth : Nat, lost : BOOLEAN]

WaitingPcs == {"test", "sleep", "asleep", "relock", "awake"}
WorkingPcs == {"consume", "done", "notify", "again", "finish"}
InitedPcs == Pcs \ {"gone", "setup"}
HoldingPcs == {"begin", "consume"}
DonePcs == {"done", "notify"}
Where(pcs) == {c \in Consumers : con[c].pc \in pcs}

DataOK ==
    /\ queue \in Seq(Items) /\ fate \in [Items -> Fates] /\ grouped \subseteq Items
    /\ con \in [Consumers -> Thread]
    /\ latch \in Consumers \cup {Nobody}
    /\ after \in {"idle", "shutdown"} /\ calls \in 0 .. MaxCalls

FlagsOK == \A b \in {pause, shutdown, notify, done, cancelled, spawned} : b \in BOOLEAN

(* The counters count: who waits, who is inside its loop, who works.       *)
SizesOK ==
    /\ waiting = Cardinality(Where(WaitingPcs))
    /\ working = Cardinality(Where(WorkingPcs))
    /\ inited = Cardinality(Where(InitedPcs))

(* When threads exist, and when they have started.                         *)
SpawnOK ==
    /\ ~spawned => Where({"gone"}) = Consumers
    /\ main = "spawning" => spawned
    /\ main # "spawning" => Where({"setup"}) = {}

(* The owner leaves the wait of WaitAll() when the queue is empty.         *)
JoinOK == main = "join" /\ ~pause => queue = <<>>

(* The queue holds what is queued, each item once.                         *)
QueueOK ==
    /\ \A k \in 1..Len(queue) : fate[queue[k]] = "queued"
    /\ \A j, k \in 1..Len(queue) : queue[j] = queue[k] => j = k
    /\ \A i \in Items : fate[i] = "queued" => \E k \in 1..Len(queue) : queue[k] = i
    /\ Len(queue) = Cardinality({i \in Items : fate[i] = "queued"})

(* An item is held by the one consumer that has it in its hands.           *)
HandsOK ==
    /\ \A c \in Where(HoldingPcs) : con[c].item \in Items /\ fate[con[c].item] = "held"
    /\ \A c \in Where(DonePcs) : con[c].item \in grouped /\ fate[con[c].item] \in Finished
    /\ \A c, d \in Where(HoldingPcs \cup DonePcs) : con[c].item = con[d].item => c = d
    /\ \A i \in Items : fate[i] = "held" => \E c \in Where(HoldingPcs) : con[c].item = i

(* Items are submitted in order.                                           *)
OrderOK == \E n \in 0..MaxItems : \A i \in Items : (fate[i] # "none") <=> (i <= n)

(* The WaitGroup counts the items whose done() is still to come.           *)
Owed == {i \in grouped : \/ fate[i] \in {"queued", "held", "purged"}
                         \/ \E c \in Where({"done"}) : con[c].item = i}
GroupOK ==
    /\ \A i \in grouped : fate[i] # "none"
    /\ count = Cardinality(Owed)

Inv == /\ DataOK /\ FlagsOK /\ SizesOK /\ SpawnOK /\ JoinOK /\ QueueOK /\ HandsOK
       /\ OrderOK /\ GroupOK

-----------------------------------------------------------------------------
(* Consumers at a place of their program.                                  *)

(* There are at most as many as there are consumers.                       *)
LEMMA WhereFinite ==
    ASSUME NEW P
    PROVE  IsFiniteSet(Where(P)) /\ Cardinality(Where(P)) \in 0 .. N
<1>1. Where(P) \subseteq Consumers /\ IsFiniteSet(Consumers)
  BY ExecutorAssumption DEF Where
<1>2. Cardinality(Where(P)) <= Cardinality(Consumers) /\ IsFiniteSet(Where(P))
  BY <1>1, FS_Subset
<1>3. Cardinality(Where(P)) \in Nat /\ Cardinality(Consumers) \in Nat
  BY <1>1, <1>2, FS_CardinalityType
<1> QED
  BY <1>2, <1>3 DEF N

(* If all of them are there, none is anywhere else.                        *)
LEMMA WhereAll ==
    ASSUME NEW P, Cardinality(Where(P)) = Cardinality(Consumers)
    PROVE  Where(P) = Consumers
<1>1. Where(P) \subseteq Consumers /\ IsFiniteSet(Consumers)
  BY ExecutorAssumption DEF Where
<1> QED
  BY <1>1, FS_Subset

(* If none of them moves in or out, their number stays.                    *)
LEMMA WhereSame ==
    ASSUME NEW P, \A c \in Consumers : (con'[c].pc \in P) <=> (con[c].pc \in P)
    PROVE  Where(P)' = Where(P)
  BY DEF Where

(* If one moves, their number changes by it.                               *)
LEMMA WhereStep ==
    ASSUME NEW P, NEW c \in Consumers,
           \A d \in Consumers : d # c => con'[d].pc = con[d].pc
    PROVE  Cardinality(Where(P)') = Cardinality(Where(P))
                                      + (IF con'[c].pc \in P THEN 1 ELSE 0)
                                      - (IF con[c].pc \in P THEN 1 ELSE 0)
<1>0. IsFiniteSet(Where(P)) /\ Cardinality(Where(P)) \in Nat
  BY WhereFinite, FS_CardinalityType
<1>1. CASE con'[c].pc \in P /\ con[c].pc \notin P
  <2>1. Where(P)' = Where(P) \cup {c} /\ c \notin Where(P)
    BY <1>1 DEF Where
  <2>2. Cardinality(Where(P) \cup {c}) = Cardinality(Where(P)) + 1
    BY <1>0, <2>1, FS_AddElement
  <2> QED
    BY <1>0, <1>1, <2>1, <2>2
<1>2. CASE con'[c].pc \notin P /\ con[c].pc \in P
  <2>1. Where(P)' = Where(P) \ {c} /\ c \in Where(P)
    BY <1>2 DEF Where
  <2>2. Cardinality(Where(P) \ {c}) = Cardinality(Where(P)) - 1
    BY <1>0, <2>1, FS_RemoveElement
  <2> QED
    BY <1>0, <1>2, <2>1, <2>2
<1>3. CASE (con'[c].pc \in P) <=> (con[c].pc \in P)
  <2>1. Where(P)' = Where(P)
    BY <1>3 DEF Where
  <2> QED
    BY <1>0, <1>3, <2>1
<1> QED
  BY <1>1, <1>2, <1>3

-----------------------------------------------------------------------------
(* What the steps do to the consumers.                                     *)

(* One consumer goes on.                                                   *)
LEMMA GotoEffect ==
    ASSUME con \in [Consumers -> Thread], NEW c \in Consumers, NEW x \in Pcs, Goto(c, x)
    PROVE  /\ con' \in [Consumers -> Thread]
           /\ con'[c].pc = x /\ con'[c].item = con[c].item
           /\ \A d \in Consumers : d # c => con'[d] = con[d]
  BY DEF Goto, Thread

(* One consumer lets its item go.                                          *)
LEMMA OnwardEffect ==
    ASSUME con \in [Consumers -> Thread], NEW c \in Consumers, NEW f, Onward(c, f)
    PROVE  /\ con' \in [Consumers -> Thread]
           /\ con'[c].pc \in {"finish", "again"}
           /\ \A d \in Consumers : d # c => con'[d] = con[d]
<1>1. PICK x \in {"finish", "again"} :
        con' = [con EXCEPT ![c].item = NoItem, ![c].pc = x]
  BY DEF Onward
<1>2. x \in Pcs
  BY DEF Pcs
<1> QED
  BY <1>1, <1>2 DEF Thread

(* Some that sleep wake up.                                                *)
LEMMA WakeEffect ==
    ASSUME con \in [Consumers -> Thread], NEW k, Wake(k)
    PROVE  /\ con' \in [Consumers -> Thread]
           /\ \A c \in Consumers :
                 /\ con'[c].item = con[c].item
                 /\ \/ con'[c].pc = con[c].pc
                    \/ con[c].pc = "asleep" /\ con'[c].pc = "relock"
<1>1. PICK s \in SUBSET Asleep :
        con' = [c \in Consumers |-> IF c \in s THEN [con[c] EXCEPT !.pc = "relock"]
                                    ELSE con[c]]
  BY DEF Wake, kSubset
<1>2. "relock" \in Pcs /\ \A c \in s : con[c].pc = "asleep"
  BY <1>1 DEF Pcs, Asleep, At
<1> QED
  BY <1>1, <1>2 DEF Thread

(* Thieves may have lost their race.                                       *)
LEMMA BeatenEffect ==
    ASSUME con \in [Consumers -> Thread], NEW but
    PROVE  /\ Beaten(but) \in [Consumers -> Thread]
           /\ \A c \in Consumers : /\ Beaten(but)[c].pc = con[c].pc
                                   /\ Beaten(but)[c].item = con[c].item
  BY DEF Beaten, Thread

-----------------------------------------------------------------------------
(* Steps that leave the items alone.                                       *)

(* The new executor satisfies the invariant.                               *)
LEMMA InvInit == Init => Inv
<1> SUFFICES ASSUME Init PROVE Inv
  OBVIOUS
<1>1. DataOK
  BY ExecutorAssumption DEF Init, DataOK, Fates, Gone, Thread, Pcs, Nobody
<1>2. FlagsOK
  BY DEF Init, FlagsOK
<1>3. \A P : "gone" \notin P => Where(P) = {}
  BY DEF Init, Where, Gone
<1>4. SizesOK
  <2>1. Where(WaitingPcs) = {} /\ Where(WorkingPcs) = {} /\ Where(InitedPcs) = {}
    BY <1>3 DEF WaitingPcs, WorkingPcs, InitedPcs
  <2> QED
    BY <2>1, FS_EmptySet DEF Init, SizesOK
<1>5. SpawnOK /\ JoinOK
  BY <1>3 DEF Init, SpawnOK, JoinOK, Where, Gone
<1>6. QueueOK
  <2>1. Len(queue) = 0 /\ {i \in Items : fate[i] = "queued"} = {}
    BY DEF Init
  <2>2. Cardinality({i \in Items : fate[i] = "queued"}) = 0
    BY <2>1, FS_EmptySet
  <2>3. 1..Len(queue) = {} /\ \A i \in Items : fate[i] # "queued"
    BY <2>1
  <2> QED
    BY <2>1, <2>2, <2>3 DEF QueueOK
<1>7. HandsOK
  <2>1. Where(HoldingPcs) = {} /\ Where(DonePcs) = {} /\ Where(HoldingPcs \cup DonePcs) = {}
    BY <1>3 DEF HoldingPcs, DonePcs
  <2> QED
    BY <2>1 DEF Init, HandsOK
<1>8. OrderOK
  <2>1. 0 \in 0..MaxItems /\ \A i \in Items : (fate[i] # "none") <=> (i <= 0)
    BY ExecutorAssumption DEF Init, Items
  <2> QED
    BY <2>1 DEF OrderOK
<1>9. GroupOK
  <2>1. Owed = {}
    BY DEF Init, Owed
  <2> QED
    BY <2>1, FS_EmptySet DEF Init, GroupOK
<1> QED
  BY <1>1, <1>2, <1>4, <1>5, <1>6, <1>7, <1>8, <1>9 DEF Inv

(* Nobody takes an item or lets go of one it still owes to the group.      *)
LEMMA QuietPreserves ==
    ASSUME Inv, DataOK', FlagsOK', SizesOK', SpawnOK', JoinOK',
           UNCHANGED <<queue, fate, group>>,
           \A c \in Consumers :
               /\ (con'[c].pc \in HoldingPcs) <=> (con[c].pc \in HoldingPcs)
               /\ con'[c].pc \in DonePcs => con[c].pc \in DonePcs
               /\ (con'[c].pc = "done") <=> (con[c].pc = "done")
               /\ con'[c].pc \in HoldingPcs \cup DonePcs => con'[c].item = con[c].item
    PROVE  Inv'
<1>0. QueueOK /\ HandsOK /\ OrderOK /\ GroupOK
  BY DEF Inv
<1>1. QueueOK' /\ OrderOK'
  BY <1>0 DEF QueueOK, OrderOK
<1>2. /\ Where(HoldingPcs)' = Where(HoldingPcs)
      /\ Where(DonePcs)' \subseteq Where(DonePcs)
      /\ Where({"done"})' = Where({"done"})
      /\ Where(HoldingPcs \cup DonePcs)' \subseteq Where(HoldingPcs \cup DonePcs)
      /\ \A c \in Where(HoldingPcs \cup DonePcs)' : con'[c].item = con[c].item
  BY DEF Where
<1>3. HandsOK'
  <2>1. /\ \A c \in Where(HoldingPcs)' : con'[c].item = con[c].item
        /\ \A c \in Where(DonePcs)' : con'[c].item = con[c].item
    BY <1>2 DEF Where
  <2>2. fate' = fate /\ grouped' = grouped
    BY DEF group
  <2>3. \A c \in Where(HoldingPcs)' : con'[c].item \in Items /\ fate'[con'[c].item] = "held"
    BY <1>0, <1>2, <2>1, <2>2 DEF HandsOK
  <2>4. \A c \in Where(DonePcs)' : con'[c].item \in grouped' /\ fate'[con'[c].item] \in Finished
    BY <1>0, <1>2, <2>1, <2>2 DEF HandsOK
  <2>5. \A c, d \in Where(HoldingPcs \cup DonePcs)' : con'[c].item = con'[d].item => c = d
    BY <1>0, <1>2 DEF HandsOK
  <2>6. \A i \in Items : fate'[i] = "held" => \E c \in Where(HoldingPcs)' : con'[c].item = i
    BY <1>0, <1>2, <2>1, <2>2 DEF HandsOK
  <2> QED
    BY <2>3, <2>4, <2>5, <2>6 DEF HandsOK
<1>4. GroupOK'
  <2>1. \A c \in Where({"done"}) : con'[c].item = con[c].item
    BY DEF Where, DonePcs
  <2>2. Owed' = Owed
    BY <1>2, <2>1 DEF Owed, group
  <2> QED
    BY <1>0, <2>2 DEF GroupOK, group
<1> QED
  BY <1>1, <1>3, <1>4 DEF Inv

(* The owner does something, and perhaps consumers wake up.                *)
LEMMA OwnerPreserves ==
    ASSUME Inv, DataOK', FlagsOK', SpawnOK', JoinOK',
           UNCHANGED <<queue, fate, group, sizes>>,
           \A c \in Consumers :
               /\ con'[c].item = con[c].item
               /\ \/ con'[c].pc = con[c].pc
                  \/ con[c].pc = "asleep" /\ con'[c].pc = "relock"
    PROVE  Inv'
<1>1. SizesOK'
  <2>1. /\ Where(WaitingPcs)' = Where(WaitingPcs) /\ Where(WorkingPcs)' = Where(WorkingPcs)
        /\ Where(InitedPcs)' = Where(InitedPcs)
    BY DEF Where, WaitingPcs, WorkingPcs, InitedPcs, Pcs
  <2> QED
    BY <2>1 DEF Inv, SizesOK, sizes
<1>2. \A c \in Consumers :
               /\ (con'[c].pc \in HoldingPcs) <=> (con[c].pc \in HoldingPcs)
               /\ con'[c].pc \in DonePcs => con[c].pc \in DonePcs
               /\ (con'[c].pc = "done") <=> (con[c].pc = "done")
  BY DEF HoldingPcs, DonePcs
<1> QED
  BY <1>1, <1>2, QuietPreserves

(* A consumer goes on; the counters follow it, ...                         *)
Change(c, pcs) == (IF con'[c].pc \in pcs THEN 1 ELSE 0) - (IF con[c].pc \in pcs THEN 1 ELSE 0)
Counted(c) ==
    /\ waiting' = waiting + Change(c, WaitingPcs)
    /\ working' = working + Change(c, WorkingPcs)
    /\ inited' = inited + Change(c, InitedPcs)

(* ... and it keeps the item it has.                                       *)
Keeps(c) ==
    /\ con[c].pc # "gone" /\ con'[c].pc # "setup"
    /\ (con'[c].pc \in HoldingPcs) <=> (con[c].pc \in HoldingPcs)
    /\ con'[c].pc \in DonePcs => con[c].pc \in DonePcs
    /\ (con'[c].pc = "done") <=> (con[c].pc = "done")
    /\ con'[c].pc \in HoldingPcs \cup DonePcs => con'[c].item = con[c].item

(* The counters stay right when one consumer moves.                        *)
LEMMA CountedPreserves ==
    ASSUME SizesOK, NEW c \in Consumers, Counted(c),
           \A d \in Consumers : d # c => con'[d].pc = con[d].pc
    PROVE  SizesOK'
<1>1. \A P : /\ Cardinality(Where(P)') = Cardinality(Where(P)) + Change(c, P)
  <2> TAKE P
  <2>1. Cardinality(Where(P)) \in Int
    BY WhereFinite
  <2>2. Cardinality(Where(P)') = Cardinality(Where(P))
                                      + (IF con'[c].pc \in P THEN 1 ELSE 0)
                                      - (IF con[c].pc \in P THEN 1 ELSE 0)
    BY WhereStep
  <2> QED
    BY <2>1, <2>2 DEF Change
<1> QED
  BY <1>1 DEF SizesOK, Counted

(* The step of one consumer, from what it does to that consumer.           *)
LEMMA MovePreserves ==
    ASSUME Inv, NEW c \in Consumers, Counted(c), Keeps(c),
           con' \in [Consumers -> Thread], latch' \in {latch, c, Nobody},
           \A d \in Consumers : d # c => con'[d] = con[d],
           UNCHANGED <<queue, fate, group, owner>>,
           main' = main \/ {main, main'} \cap {"spawning", "join"} = {}
    PROVE  Inv'
<1>1. DataOK' /\ FlagsOK'
  BY DEF Inv, DataOK, FlagsOK, owner, group
<1>2. SizesOK'
  BY CountedPreserves DEF Inv
<1>3. spawned
  BY DEF Inv, SpawnOK, Where, Keeps
<1>4. SpawnOK' /\ JoinOK'
  BY <1>3 DEF Inv, SpawnOK, JoinOK, Where, Keeps, owner
<1> QED
  BY <1>1, <1>2, <1>4, QuietPreserves DEF Keeps

-----------------------------------------------------------------------------
(* The steps of a consumer on its own.                                     *)

(* Starting, waiting, waking up, counting itself and going home: the loop  *)
(* of Consumer() and of Callback_Execute().                                *)
LEMMA LoopPreserves ==
    ASSUME Inv, NEW c \in Consumers,
           \/ Setup(c) \/ Lock(c) \/ Test(c) \/ Sleep(c) \/ Spurious(c) \/ Relock(c)
           \/ Awake(c) \/ Teardown(c) \/ Begin(c) \/ LastOne(c)
    PROVE  Inv'
<1>0. con \in [Consumers -> Thread]
  BY DEF Inv, DataOK
<1>1. waiting \in Int /\ working \in Int /\ inited \in Int
  BY WhereFinite DEF Inv, SizesOK
(* What is left to show of each: where the consumer goes.                  *)
<1>2. ASSUME NEW x \in Pcs, Goto(c, x), con[c].pc # "gone", x # "setup",
             x \in HoldingPcs <=> con[c].pc \in HoldingPcs, x \notin DonePcs,
             con[c].pc \notin DonePcs,
             waiting' = waiting + (IF x \in WaitingPcs THEN 1 ELSE 0)
                                - (IF con[c].pc \in WaitingPcs THEN 1 ELSE 0),
             working' = working + (IF x \in WorkingPcs THEN 1 ELSE 0)
                                - (IF con[c].pc \in WorkingPcs THEN 1 ELSE 0),
             inited' = inited + (IF x \in InitedPcs THEN 1 ELSE 0)
                              - (IF con[c].pc \in InitedPcs THEN 1 ELSE 0)
      PROVE  Inv'
  <2>1. /\ con' \in [Consumers -> Thread] /\ con'[c].pc = x /\ con'[c].item = con[c].item
        /\ \A d \in Consumers : d # c => con'[d] = con[d]
    BY <1>0, <1>2, GotoEffect
  <2>2. Counted(c)
    BY <1>1, <1>2, <2>1 DEF Counted, Change
  <2>3. Keeps(c)
    BY <1>2, <2>1 DEF Keeps, DonePcs
  <2>4. UNCHANGED <<queue, fate, group, owner, main>> /\ latch' \in {latch, c, Nobody}
    BY DEF Setup, Lock, Test, Sleep, Spurious, Relock, Awake, Teardown, Begin, LastOne, sizes
  <2> QED
    BY <2>1, <2>2, <2>3, <2>4, MovePreserves
<1> USE DEF WaitingPcs, WorkingPcs, InitedPcs, HoldingPcs, DonePcs, Pcs
<1>Setup. CASE Setup(c)
  <2>1. /\ con[c].pc = "setup" /\ Goto(c, "lock")
        /\ UNCHANGED <<working, waiting>> /\ inited' = inited + 1
    BY <1>Setup DEF Setup, At
  <2> QED
    BY <1>1, <1>2, <2>1
<1>Lock. CASE Lock(c)
  <2>1. /\ con[c].pc = "lock" /\ Goto(c, "test")
        /\ UNCHANGED <<working, inited>> /\ waiting' = waiting + 1
    BY <1>Lock DEF Lock, At
  <2> QED
    BY <1>1, <1>2, <2>1
<1>Test. CASE Test(c)
  <2>1. PICK x \in {"sleep", "awake"} :
          con[c].pc = "test" /\ Goto(c, x) /\ UNCHANGED sizes
    BY <1>Test DEF Test, At, sizes
  <2> QED
    BY <1>1, <1>2, <2>1 DEF sizes
<1>Sleep. CASE Sleep(c)
  <2>1. con[c].pc = "sleep" /\ Goto(c, "asleep") /\ UNCHANGED sizes
    BY <1>Sleep DEF Sleep, At, sizes
  <2> QED
    BY <1>1, <1>2, <2>1 DEF sizes
<1>Spurious. CASE Spurious(c)
  <2>1. con[c].pc = "asleep" /\ Goto(c, "relock") /\ UNCHANGED sizes
    BY <1>Spurious DEF Spurious, At, sizes
  <2> QED
    BY <1>1, <1>2, <2>1 DEF sizes
<1>Relock. CASE Relock(c)
  <2>1. con[c].pc = "relock" /\ Goto(c, "test") /\ UNCHANGED sizes
    BY <1>Relock DEF Relock, At, sizes
  <2> QED
    BY <1>1, <1>2, <2>1 DEF sizes
<1>Awake. CASE Awake(c)
  <2>1. PICK x \in {"teardown", "steal"} :
          /\ con[c].pc = "awake" /\ Goto(c, x)
          /\ UNCHANGED <<working, inited>> /\ waiting' = waiting - 1
    BY <1>Awake DEF Awake, At
  <2> QED
    BY <1>1, <1>2, <2>1
<1>Teardown. CASE Teardown(c)
  <2>1. /\ con[c].pc = "teardown" /\ Goto(c, "gone")
        /\ UNCHANGED <<working, waiting>> /\ inited' = inited - 1
    BY <1>Teardown DEF Teardown, At
  <2> QED
    BY <1>1, <1>2, <2>1
<1>Begin. CASE Begin(c)
  <2>1. /\ con[c].pc = "begin" /\ Goto(c, "consume")
        /\ UNCHANGED <<waiting, inited>> /\ working' = working + 1
    BY <1>Begin DEF Begin, At
  <2> QED
    BY <1>1, <1>2, <2>1
<1>LastOne. CASE LastOne(c)
  <2>1. PICK x \in {"spin", "lock"} :
          con[c].pc = "last" /\ Goto(c, x) /\ UNCHANGED sizes
    BY <1>LastOne DEF LastOne, At, sizes
  <2> QED
    BY <1>1, <1>2, <2>1 DEF sizes
<1> QED
  BY <1>Setup, <1>Lock, <1>Test, <1>Sleep, <1>Spurious, <1>Relock, <1>Awake, <1>Teardown,
     <1>Begin, <1>LastOne

(* Stealing nothing, telling the group, finishing and telling the owner    *)
(* (Callback_Execute, WaitGroup::done, Consumer).                          *)
LEMMA EndPreserves ==
    ASSUME Inv, NEW c \in Consumers,
           StealFail(c) \/ DoneNotify(c) \/ Finish(c) \/ Spin(c)
    PROVE  Inv'
<1>0. con \in [Consumers -> Thread]
  BY DEF Inv, DataOK
<1>1. waiting \in Int /\ working \in Int /\ inited \in Int
  BY WhereFinite DEF Inv, SizesOK
<1>2. UNCHANGED <<queue, fate, group, owner, latch>>
  BY DEF StealFail, DoneNotify, Finish, Spin
<1>StealFail. CASE StealFail(c)
  <2>1. PICK x \in {"last", "finish"} :
          /\ x = "last" <=> con[c].pc = "steal"
          /\ con' = [con EXCEPT ![c].pc = x, ![c].lost = FALSE]
    BY <1>StealFail DEF StealFail, At
  <2>2. /\ con' \in [Consumers -> Thread] /\ con'[c].pc = x
        /\ \A d \in Consumers : d # c => con'[d] = con[d]
    BY <1>0, <2>1, ZenonT(60) DEF Thread, Pcs
  <2>3. con[c].pc \in {"steal", "again"} /\ UNCHANGED <<sizes, main>>
    BY <1>StealFail DEF StealFail
  <2>4. Counted(c)
    BY <1>1, <2>1, <2>2, <2>3
       DEF Counted, Change, WaitingPcs, WorkingPcs, InitedPcs, Pcs, sizes
  <2>5. Keeps(c)
    BY <2>2, <2>3 DEF Keeps, HoldingPcs, DonePcs
  <2> QED
    BY <1>2, <2>2, <2>3, <2>4, <2>5, MovePreserves
<1>DoneNotify. CASE DoneNotify(c)
  <2>1. con[c].pc = "notify" /\ Onward(c, fate[con[c].item]) /\ UNCHANGED sizes
    BY <1>DoneNotify DEF DoneNotify, At
  <2>2. /\ con' \in [Consumers -> Thread] /\ con'[c].pc \in {"finish", "again"}
        /\ \A d \in Consumers : d # c => con'[d] = con[d]
    BY <1>0, <2>1, OnwardEffect
  <2>3. main' = main \/ {main, main'} \cap {"spawning", "join"} = {}
    BY <1>DoneNotify DEF DoneNotify
  <2>4. Counted(c)
    BY <1>1, <2>1, <2>2 DEF Counted, Change, WaitingPcs, WorkingPcs, InitedPcs, Pcs, sizes
  <2>5. Keeps(c)
    BY <2>1, <2>2 DEF Keeps, HoldingPcs, DonePcs
  <2> QED
    BY <1>2, <2>2, <2>3, <2>4, <2>5, MovePreserves
<1>Finish. CASE Finish(c)
  <2>1. /\ con' = [con EXCEPT ![c] = [Gone EXCEPT !.pc = "last"]] /\ con[c].pc = "finish"
        /\ UNCHANGED <<waiting, inited, main>> /\ working' = working - 1
    BY <1>Finish DEF Finish, At
  <2>2. [Gone EXCEPT !.pc = "last"] \in Thread /\ [Gone EXCEPT !.pc = "last"].pc = "last"
    BY DEF Gone, Thread, Pcs
  <2>3. /\ con' \in [Consumers -> Thread] /\ con'[c].pc = "last"
        /\ \A d \in Consumers : d # c => con'[d] = con[d]
    BY <1>0, <2>1, <2>2
  <2>4. Counted(c)
    BY <1>1, <2>1, <2>3 DEF Counted, Change, WaitingPcs, WorkingPcs, InitedPcs, Pcs
  <2>5. Keeps(c)
    BY <2>1, <2>3 DEF Keeps, HoldingPcs, DonePcs
  <2> QED
    BY <1>2, <2>1, <2>3, <2>4, <2>5, MovePreserves
<1>Spin. CASE Spin(c)
  <2>1. con[c].pc = "spin" /\ UNCHANGED sizes /\ (UNCHANGED con \/ Goto(c, "lock"))
    BY <1>Spin DEF Spin, At
  <2>2. main' = main \/ {main, main'} \cap {"spawning", "join"} = {}
    BY <1>Spin DEF Spin
  <2>3. /\ con' \in [Consumers -> Thread] /\ con'[c].pc \in {"spin", "lock"}
        /\ \A d \in Consumers : d # c => con'[d] = con[d]
    <3>1. "lock" \in Pcs
      BY DEF Pcs
    <3> QED
      BY <1>0, <2>1, <3>1, GotoEffect
  <2>4. Counted(c)
    BY <1>1, <2>1, <2>3 DEF Counted, Change, WaitingPcs, WorkingPcs, InitedPcs, Pcs, sizes
  <2>5. Keeps(c)
    BY <2>1, <2>3 DEF Keeps, HoldingPcs, DonePcs
  <2> QED
    BY <1>2, <2>2, <2>3, <2>4, <2>5, MovePreserves
<1> QED
  BY <1>StealFail, <1>DoneNotify, <1>Finish, <1>Spin

-----------------------------------------------------------------------------
(* The owner's steps that leave the items alone.                           *)

(* Calls and the rest of the owner's steps, consumers woken up included.   *)
LEMMA OwnerStepPreserves ==
    ASSUME Inv,
           \/ Pause \/ Resume \/ Cancel \/ Purge \/ GroupWait
           \/ \E next \in {"idle", "shutdown"} : WaitAll(next)
           \/ Spawned \/ SubmitDecide \/ WaitAllTest \/ WaitAllSleep
           \/ WaitAllReturn \/ ShutdownWait \/ ShutdownTell \/ ShutdownSpam \/ ShutdownJoin
           \/ GroupTest \/ SubmitNotify \/ OwnerSpurious
    PROVE  Inv'
<1>0. DataOK /\ FlagsOK /\ SizesOK /\ SpawnOK /\ JoinOK
  BY DEF Inv
<1>1. /\ con' \in [Consumers -> Thread]
      /\ \A c \in Consumers :
               /\ con'[c].item = con[c].item
               /\ \/ con'[c].pc = con[c].pc
                  \/ con[c].pc = "asleep" /\ con'[c].pc = "relock"
  <2>1. con \in [Consumers -> Thread]
    BY <1>0 DEF DataOK
  <2>2. UNCHANGED con \/ \E k : Wake(k)
    BY DEF Pause, Resume, Cancel, Purge, GroupWait, WaitAll, Spawned, SubmitDecide,
       WaitAllTest, WaitAllSleep, WaitAllReturn, ShutdownWait, ShutdownTell, ShutdownSpam,
       ShutdownJoin, GroupTest, SubmitNotify, OwnerSpurious, Resumed, WakeForQueue
  <2> QED
    BY <2>1, <2>2, WakeEffect
<1>2. UNCHANGED <<queue, fate, group, sizes, latch>>
  BY DEF Pause, Resume, Cancel, Purge, GroupWait, WaitAll, Spawned, SubmitDecide,
     WaitAllTest, WaitAllSleep, WaitAllReturn, ShutdownWait, ShutdownTell, ShutdownSpam,
     ShutdownJoin, GroupTest, SubmitNotify, OwnerSpurious, Resumed
<1>3. /\ Where({"gone"})' = Where({"gone"}) /\ Where({"setup"})' = Where({"setup"})
  BY <1>1 DEF Where
<1>4. calls' \in 0..MaxCalls /\ after' \in {"idle", "shutdown"}
  BY <1>0, ExecutorAssumption DEF DataOK, Call,
     Pause, Resume, Cancel, Purge, GroupWait, WaitAll, Spawned, SubmitDecide,
     WaitAllTest, WaitAllSleep, WaitAllReturn, ShutdownWait, ShutdownTell, ShutdownSpam,
     ShutdownJoin, GroupTest, SubmitNotify, OwnerSpurious, Resumed
<1>5. DataOK'
  BY <1>0, <1>1, <1>2, <1>4 DEF DataOK, group
<1>6. FlagsOK'
  BY <1>0 DEF FlagsOK, flags,
     Pause, Resume, Cancel, Purge, GroupWait, WaitAll, Spawned, SubmitDecide,
     WaitAllTest, WaitAllSleep, WaitAllReturn, ShutdownWait, ShutdownTell, ShutdownSpam,
     ShutdownJoin, GroupTest, SubmitNotify, OwnerSpurious, Resumed
<1>7. SpawnOK'
  <2>1. CASE Spawned
    <3>1. main = "spawning" /\ waiting = Threads /\ main' = "idle" /\ UNCHANGED spawned
      BY <2>1 DEF Spawned, Resumed
    <3>2. spawned /\ Cardinality(Where(WaitingPcs)) = Cardinality(Consumers)
      BY <1>0, <3>1 DEF SpawnOK, SizesOK, Threads
    <3>3. Where(WaitingPcs) = Consumers
      BY <3>2, WhereAll
    <3>4. Where({"setup"}) = {}
      BY <3>3 DEF Where, WaitingPcs
    <3> QED
      BY <1>3, <3>1, <3>2, <3>4 DEF SpawnOK
  <2>2. CASE ShutdownJoin
    <3>1. main = "spam" /\ inited = 0 /\ main' = "idle"
      BY <2>2 DEF ShutdownJoin
    <3>2. Where(InitedPcs) = {} /\ Where({"setup"}) = {}
      BY <1>0, <3>1, WhereFinite, FS_EmptySet DEF SpawnOK, SizesOK
    <3>3. \A c \in Consumers : con[c].pc \in Pcs
      BY <1>0 DEF DataOK, Thread
    <3>4. Where({"gone"}) = Consumers
      BY <3>2, <3>3 DEF Where, InitedPcs
    <3> QED
      BY <1>3, <3>1, <3>2, <3>4 DEF SpawnOK
  <2>3. CASE ~Spawned /\ ~ShutdownJoin
    <3>1. main # "spawning" /\ main' # "spawning" /\ UNCHANGED spawned
      BY <1>0, <2>3 DEF DataOK,
         Pause, Resume, Cancel, Purge, GroupWait, WaitAll, SubmitDecide, WaitAllTest,
         WaitAllSleep, WaitAllReturn, ShutdownWait, ShutdownTell, ShutdownSpam,
         GroupTest, SubmitNotify, OwnerSpurious, Resumed, Call, flags
    <3> QED
      BY <1>0, <1>3, <3>1 DEF SpawnOK
  <2> QED
    BY <2>1, <2>2, <2>3
<1>8. JoinOK'
  BY <1>0, <1>2 DEF JoinOK, DataOK, Spawned, ShutdownJoin,
         Pause, Resume, Cancel, Purge, GroupWait, WaitAll, SubmitDecide, WaitAllTest,
         WaitAllSleep, WaitAllReturn, ShutdownWait, ShutdownTell, ShutdownSpam,
         GroupTest, SubmitNotify, OwnerSpurious, Resumed, Call, flags
<1> QED
  BY <1>1, <1>2, <1>5, <1>6, <1>7, <1>8, OwnerPreserves

-----------------------------------------------------------------------------
(* The steps that move items.                                              *)

(* Spawn() creates threads where there were none.                          *)
LEMMA SpawnPreserves == ASSUME Inv, Spawn PROVE Inv'
<1>0. /\ DataOK /\ FlagsOK /\ SizesOK /\ SpawnOK
  BY DEF Inv
<1>1. /\ ~spawned /\ spawned' = TRUE /\ main' = "spawning"
      /\ con' = [c \in Consumers |-> [Gone EXCEPT !.pc = "setup"]]
      /\ UNCHANGED <<queue, fate, group, flags, sizes, latch, after>>
      /\ calls' \in 0..MaxCalls
  BY <1>0, ExecutorAssumption DEF Spawn, Call, DataOK
<1>2. /\ [Gone EXCEPT !.pc = "setup"] \in Thread
      /\ [Gone EXCEPT !.pc = "setup"].pc = "setup"
  BY DEF Gone, Thread, Pcs
<1>3. /\ con' \in [Consumers -> Thread]
      /\ \A c \in Consumers : con'[c].pc = "setup" /\ con[c].pc = "gone"
  BY <1>0, <1>1, <1>2 DEF SpawnOK, Where
<1>4. DataOK' /\ FlagsOK'
  BY <1>0, <1>1, <1>3 DEF DataOK, FlagsOK, flags, group
<1>5. SizesOK'
  <2>1. /\ Where(WaitingPcs)' = Where(WaitingPcs) /\ Where(WorkingPcs)' = Where(WorkingPcs)
        /\ Where(InitedPcs)' = Where(InitedPcs)
    BY <1>3 DEF Where, WaitingPcs, WorkingPcs, InitedPcs
  <2> QED
    BY <1>0, <1>1, <2>1 DEF SizesOK, sizes
<1>6. SpawnOK' /\ JoinOK'
  BY <1>1 DEF SpawnOK, JoinOK
<1>7. \A c \in Consumers : /\ con'[c].pc \notin HoldingPcs \cup DonePcs \cup {"done"}
                           /\ con[c].pc \notin HoldingPcs \cup DonePcs \cup {"done"}
  BY <1>3 DEF HoldingPcs, DonePcs
<1> QED
  BY <1>1, <1>4, <1>5, <1>6, <1>7, QuietPreserves

(* There are at most MaxItems items of any kind.                           *)
LEMMA SomeItems ==
    ASSUME NEW S, S \subseteq Items
    PROVE  IsFiniteSet(S) /\ Cardinality(S) \in 0..MaxItems
<1>0. MaxItems \in Nat
  BY ExecutorAssumption
<1>1. IsFiniteSet(1..MaxItems) /\ Cardinality(1..MaxItems) = MaxItems
  BY <1>0, FS_Interval
<1>2. IsFiniteSet(S) /\ Cardinality(S) <= MaxItems
  BY <1>1, FS_Subset DEF Items
<1> QED
  BY <1>0, <1>2, FS_CardinalityType

(* The number of items submitted is the last item's.                       *)
LEMMA SubmittedIs ==
    ASSUME NEW n \in 0..MaxItems, \A i \in Items : (fate[i] # "none") <=> (i <= n)
    PROVE  Submitted = n
<1>0. MaxItems \in Nat
  BY ExecutorAssumption
<1>1. {i \in Items : fate[i] # "none"} = 1..n
  BY <1>0 DEF Items
<1>2. Cardinality(1..n) = n
  BY FS_Interval
<1> QED
  BY <1>1, <1>2 DEF Submitted

(* Submit() appends a new item.                                            *)
LEMMA SubmitPreserves == ASSUME Inv, NEW g \in BOOLEAN, Submit(g) PROVE Inv'
<1>0. /\ DataOK /\ FlagsOK /\ SizesOK /\ SpawnOK /\ QueueOK /\ HandsOK /\ OrderOK /\ GroupOK
  BY DEF Inv
<1>1. PICK n \in 0..MaxItems : \A i \in Items : (fate[i] # "none") <=> (i <= n)
  BY <1>0 DEF OrderOK
<1> DEFINE i == n + 1
<1>2. /\ i \in Items /\ fate' = [fate EXCEPT ![i] = "queued"] /\ queue' = Append(queue, i)
      /\ grouped' = (IF g THEN grouped \cup {i} ELSE grouped)
      /\ count' = (IF g THEN count + 1 ELSE count)
      /\ main = "idle" /\ main' = "submitted"
      /\ UNCHANGED <<flags, sizes, latch, spawned, after, con, calls>>
  BY <1>1, SubmittedIs DEF Submit
<1>3. fate[i] = "none" /\ n \in Nat /\ MaxItems \in Nat
  BY <1>1, <1>2, ExecutorAssumption
<1> HIDE DEF i
<1>4. /\ fate' \in [Items -> Fates] /\ fate'[i] = "queued"
      /\ \A j \in Items : j # i => fate'[j] = fate[j]
  BY <1>0, <1>2 DEF DataOK, Fates
<1>5. /\ queue' \in Seq(Items) /\ Len(queue') = Len(queue) + 1 /\ Len(queue) \in Nat
      /\ queue'[Len(queue) + 1] = i
      /\ \A k \in 1..Len(queue) : queue'[k] = queue[k] /\ queue[k] \in Items
  BY <1>0, <1>2 DEF DataOK
<1>6. DataOK' /\ FlagsOK'
  BY <1>0, <1>2, <1>4, <1>5 DEF DataOK, FlagsOK, flags
<1>7. SizesOK' /\ SpawnOK' /\ JoinOK'
  BY <1>0, <1>2 DEF SizesOK, SpawnOK, JoinOK, Where, sizes
<1>8. QueueOK'
  <2>1. \A k \in 1..Len(queue) : queue[k] # i
    BY <1>0, <1>3 DEF QueueOK
  <2>2. \A k \in 1..Len(queue') : k \in 1..Len(queue) \/ (k = Len(queue) + 1 /\ queue'[k] = i)
    BY <1>5
  <2>3. \A k \in 1..Len(queue') : fate'[queue'[k]] = "queued"
    BY <1>0, <1>4, <1>5, <2>1, <2>2 DEF QueueOK
  <2>4. \A j, k \in 1..Len(queue') : queue'[j] = queue'[k] => j = k
    BY <1>0, <1>5, <2>1, <2>2 DEF QueueOK
  <2>5. \A j \in Items : fate'[j] = "queued" => \E k \in 1..Len(queue') : queue'[k] = j
    <3>1. /\ Len(queue) + 1 \in 1..Len(queue')
          /\ \A k \in 1..Len(queue) : k \in 1..Len(queue')
      BY <1>5
    <3> QED
      BY <1>0, <1>4, <1>5, <3>1 DEF QueueOK
  <2>6. Len(queue') = Cardinality({j \in Items : fate'[j] = "queued"})
    <3>1. /\ {j \in Items : fate'[j] = "queued"} = {j \in Items : fate[j] = "queued"} \cup {i}
          /\ i \notin {j \in Items : fate[j] = "queued"}
      BY <1>2, <1>3, <1>4
    <3>2. IsFiniteSet({j \in Items : fate[j] = "queued"})
      BY SomeItems
    <3>3. Cardinality({j \in Items : fate[j] = "queued"} \cup {i})
             = Cardinality({j \in Items : fate[j] = "queued"}) + 1
      BY <3>1, <3>2, FS_AddElement
    <3> QED
      BY <1>0, <1>5, <3>1, <3>3 DEF QueueOK
  <2> QED
    BY <2>3, <2>4, <2>5, <2>6 DEF QueueOK
<1>9. HandsOK'
  <2>1. \A P : Where(P)' = Where(P)
    BY <1>2 DEF Where
  <2>2. \A c \in Where(HoldingPcs) : con[c].item \in Items /\ con[c].item # i
    BY <1>0, <1>3 DEF HandsOK
  <2>3. \A c \in Where(DonePcs) : con[c].item \in Items /\ con[c].item # i
    BY <1>0, <1>3 DEF HandsOK, Finished, DataOK
  <2>4. grouped \subseteq grouped'
    BY <1>2
  <2>5. \A c \in Where(HoldingPcs)' : con'[c].item \in Items /\ fate'[con'[c].item] = "held"
    BY <1>0, <1>2, <1>4, <2>1, <2>2 DEF HandsOK
  <2>6. \A c \in Where(DonePcs)' : con'[c].item \in grouped' /\ fate'[con'[c].item] \in Finished
    BY <1>0, <1>2, <1>4, <2>1, <2>3, <2>4 DEF HandsOK
  <2>7. \A c, d \in Where(HoldingPcs \cup DonePcs)' : con'[c].item = con'[d].item => c = d
    BY <1>0, <1>2, <2>1 DEF HandsOK
  <2>8. \A j \in Items : fate'[j] = "held" => \E c \in Where(HoldingPcs)' : con'[c].item = j
    BY <1>0, <1>2, <1>4, <2>1 DEF HandsOK
  <2> QED
    BY <2>5, <2>6, <2>7, <2>8 DEF HandsOK
<1>10. OrderOK'
  <2>1. n + 1 \in 0..MaxItems /\ \A j \in Items : (fate'[j] # "none") <=> (j <= n + 1)
    BY <1>1, <1>2, <1>3, <1>4 DEF i, Items
  <2> QED
    BY <2>1 DEF OrderOK
<1>11. GroupOK'
  <2>1. \A j \in grouped' : fate'[j] # "none"
    BY <1>0, <1>2, <1>4 DEF GroupOK, DataOK
  <2>2. i \notin grouped /\ i \notin Owed
    BY <1>0, <1>3 DEF GroupOK, Owed
  <2>3. Owed' = (IF g THEN Owed \cup {i} ELSE Owed)
    <3>1. Where({"done"})' = Where({"done"}) /\ UNCHANGED con
      BY <1>2 DEF Where
    <3>2. grouped \subseteq Items
      BY <1>0 DEF DataOK
    <3> QED
      BY <1>2, <1>4, <2>2, <3>1, <3>2 DEF Owed
  <2>4. IsFiniteSet(Owed)
    <3>1. Owed \subseteq Items
      BY <1>0 DEF Owed, DataOK
    <3> QED
      BY <3>1, SomeItems
  <2>5. Cardinality(Owed \cup {i}) = Cardinality(Owed) + 1
    BY <2>2, <2>4, FS_AddElement
  <2> QED
    BY <1>0, <1>2, <2>1, <2>3, <2>5 DEF GroupOK
<1> QED
  BY <1>6, <1>7, <1>8, <1>9, <1>10, <1>11 DEF Inv

(* An item leaves the queue.                                               *)
LEMMA TakePreserves ==
    ASSUME DataOK, DataOK', QueueOK, NEW m \in 1..Len(queue), NEW f, f # "queued",
           fate'[queue[m]] = f,
           \A j \in Items : j # queue[m] => fate'[j] = fate[j],
           Len(queue') = Len(queue) - 1,
           \A k \in 1..(Len(queue) - 1) : queue'[k] = queue[IF k < m THEN k ELSE k + 1]
    PROVE  QueueOK'
<1> DEFINE At0(k) == IF k < m THEN k ELSE k + 1
<1>0. /\ Len(queue) \in Nat /\ queue[m] \in Items
      /\ \A k \in 1..Len(queue) : queue[k] \in Items
  BY DEF DataOK
<1>1. \A k \in 1..Len(queue') : /\ At0(k) \in 1..Len(queue) /\ At0(k) # m
                                /\ queue'[k] = queue[At0(k)]
  BY <1>0
<1>2. \A j, k \in 1..Len(queue') : At0(j) = At0(k) => j = k
  BY <1>0
<1>3. \A l \in 1..Len(queue) : l # m => \E k \in 1..Len(queue') : At0(k) = l
  <2> SUFFICES ASSUME NEW l \in 1..Len(queue), l # m PROVE \E k \in 1..Len(queue') : At0(k) = l
    OBVIOUS
  <2>1. CASE l < m
    <3>1. l \in 1..Len(queue') /\ At0(l) = l
      BY <1>0, <2>1
    <3> QED
      BY <3>1
  <2>2. CASE l > m
    <3>1. l - 1 \in 1..Len(queue') /\ At0(l - 1) = l
      BY <1>0, <2>2
    <3> QED
      BY <3>1
  <2> QED
    BY <1>0, <2>1, <2>2
<1> HIDE DEF At0
<1>4. \A k \in 1..Len(queue') : fate'[queue'[k]] = "queued"
  BY <1>0, <1>1 DEF QueueOK
<1>5. \A j, k \in 1..Len(queue') : queue'[j] = queue'[k] => j = k
  BY <1>1, <1>2, SMTT(60) DEF QueueOK
<1>6. \A j \in Items : fate'[j] = "queued" => \E k \in 1..Len(queue') : queue'[k] = j
  <2> SUFFICES ASSUME NEW j \in Items, fate'[j] = "queued"
               PROVE  \E k \in 1..Len(queue') : queue'[k] = j
    OBVIOUS
  <2>1. j # queue[m] /\ fate[j] = "queued"
    OBVIOUS
  <2>2. PICK l \in 1..Len(queue) : queue[l] = j
    BY <2>1 DEF QueueOK
  <2>3. PICK k \in 1..Len(queue') : At0(k) = l
    BY <1>3, <2>1, <2>2
  <2> QED
    BY <1>1, <2>2, <2>3
<1>7. Len(queue') = Cardinality({j \in Items : fate'[j] = "queued"})
  <2> DEFINE Q == {j \in Items : fate[j] = "queued"}
  <2>1. {j \in Items : fate'[j] = "queued"} = Q \ {queue[m]} /\ queue[m] \in Q
    BY <1>0 DEF QueueOK
  <2>2. IsFiniteSet(Q)
    BY SomeItems
  <2>3. Cardinality(Q \ {queue[m]}) = Cardinality(Q) - 1
    BY <2>1, <2>2, FS_RemoveElement
  <2> QED
    BY <2>1, <2>3 DEF QueueOK
<1> QED
  BY <1>4, <1>5, <1>6, <1>7 DEF QueueOK

(* Purge() pops the newest item.                                           *)
LEMMA PurgePopPreserves == ASSUME Inv, PurgePop PROVE Inv'
<1>0. /\ DataOK /\ FlagsOK /\ SizesOK /\ SpawnOK /\ QueueOK /\ HandsOK /\ OrderOK /\ GroupOK
  BY DEF Inv
<1>1. CASE queue = <<>>
  <2>1. main = "purge" /\ main' = "idle" /\ UNCHANGED <<queue, fate, con>>
        /\ UNCHANGED <<group, flags, sizes, latch, spawned, after, calls>>
    BY <1>1 DEF PurgePop
  <2>2. DataOK' /\ FlagsOK' /\ SpawnOK' /\ JoinOK'
    BY <1>0, <2>1 DEF DataOK, FlagsOK, SpawnOK, JoinOK, Where, flags, group
  <2> QED
    BY <2>1, <2>2, OwnerPreserves
<1>2. CASE queue # <<>>
  <2> DEFINE m == Len(queue)
             i == queue[Len(queue)]
  <2>1. /\ main = "purge" /\ queue' = Front(queue) /\ fate' = [fate EXCEPT ![i] = "purged"]
        /\ con' \in {con, Beaten({})}
        /\ UNCHANGED <<main, group, flags, sizes, latch, spawned, after, calls>>
    BY <1>2 DEF PurgePop, Last
  <2>2. /\ con' \in [Consumers -> Thread]
        /\ \A c \in Consumers : con'[c].pc = con[c].pc /\ con'[c].item = con[c].item
    BY <1>0, <2>1, BeatenEffect DEF DataOK
  <2>3. m \in 1..Len(queue) /\ i \in Items
    BY <1>0, <1>2 DEF DataOK
  <2>4. /\ queue' \in Seq(Items) /\ Len(queue') = Len(queue) - 1
        /\ \A k \in 1..(Len(queue) - 1) : queue'[k] = queue[k]
    <3>1. queue \in Seq(Items) /\ Len(queue) \in Nat \ {0}
      BY <1>0, <1>2 DEF DataOK
    <3>2. queue' = SubSeq(queue, 1, Len(queue) - 1)
      BY <2>1 DEF Front
    <3>3. Len(queue) - 1 \in Int /\ \A k \in 1..(Len(queue) - 1) : queue[k] \in Items
      BY <3>1
    <3>4. /\ queue' \in Seq(Items)
          /\ Len(queue') = IF 1 <= Len(queue) - 1 THEN (Len(queue) - 1) - 1 + 1 ELSE 0
          /\ \A k \in 1..((Len(queue) - 1) - 1 + 1) : queue'[k] = queue[1 + k - 1]
      BY <3>2, <3>3, SubSeqProperties
    <3>5. \A k \in 1..(Len(queue) - 1) : k \in 1..((Len(queue) - 1) - 1 + 1) /\ 1 + k - 1 = k
      BY <3>1
    <3>6. Len(queue') = Len(queue) - 1
      <4>1. PICK n \in Nat \ {0} : n = Len(queue)
        BY <3>1
      <4>2. Len(queue') = IF 1 <= n - 1 THEN (n - 1) - 1 + 1 ELSE 0
        BY <3>4, <4>1, Zenon
      <4>3. Len(queue') = n - 1
        BY <4>2
      <4> QED
        BY <4>1, <4>3
    <3> QED
      BY <3>4, <3>5, <3>6
  <2>5. fate[i] = "queued"
    BY <1>0, <2>3 DEF QueueOK
  <2>6. /\ fate' \in [Items -> Fates] /\ fate'[i] = "purged"
        /\ \A j \in Items : j # i => fate'[j] = fate[j]
    BY <1>0, <2>1, <2>3 DEF DataOK, Fates
  <2>7. DataOK' /\ FlagsOK'
    BY <1>0, <2>1, <2>2, <2>4, <2>6 DEF DataOK, FlagsOK, flags, group
  <2>8. QueueOK'
    <3>1. \A k \in 1..(Len(queue) - 1) : queue'[k] = queue[IF k < m THEN k ELSE k + 1]
      BY <2>3, <2>4
    <3> QED
      BY <1>0, <2>3, <2>4, <2>6, <2>7, <3>1, TakePreserves
  <2> HIDE DEF i, m
  <2>9. \A P : Where(P)' = Where(P)
    BY <2>2 DEF Where
  <2>10. SizesOK' /\ SpawnOK' /\ JoinOK'
    BY <1>0, <2>1, <2>9 DEF SizesOK, SpawnOK, JoinOK, sizes
  <2>11. HandsOK'
    <3>1. /\ \A c \in Where(HoldingPcs) : con[c].item # i /\ con'[c].item = con[c].item
          /\ \A c \in Where(DonePcs) : con[c].item # i /\ con'[c].item = con[c].item
          /\ \A c \in Where(HoldingPcs \cup DonePcs) : con'[c].item = con[c].item
      BY <1>0, <2>2, <2>5 DEF HandsOK, Finished, Where
    <3>2. grouped' = grouped /\ grouped \subseteq Items
      BY <1>0, <2>1 DEF group, DataOK
    <3>3. \A c \in Where(HoldingPcs)' : con'[c].item \in Items /\ fate'[con'[c].item] = "held"
      BY <1>0, <2>6, <2>9, <3>1 DEF HandsOK
    <3>4. \A c \in Where(DonePcs)' : con'[c].item \in grouped' /\ fate'[con'[c].item] \in Finished
      BY <1>0, <2>6, <2>9, <3>1, <3>2 DEF HandsOK
    <3>5. \A c, d \in Where(HoldingPcs \cup DonePcs)' : con'[c].item = con'[d].item => c = d
      <4>1. Where(HoldingPcs \cup DonePcs)' = Where(HoldingPcs \cup DonePcs)
        BY <2>2 DEF Where
      <4>2. \A c, d \in Where(HoldingPcs \cup DonePcs) : con[c].item = con[d].item => c = d
        BY <1>0 DEF HandsOK
      <4> QED
        BY <3>1, <4>1, <4>2
    <3>6. \A j \in Items : fate'[j] = "held" => \E c \in Where(HoldingPcs)' : con'[c].item = j
      <4> SUFFICES ASSUME NEW j \in Items, fate'[j] = "held"
                   PROVE  \E c \in Where(HoldingPcs)' : con'[c].item = j
        OBVIOUS
      <4>1. fate[j] = "held"
        BY <2>6
      <4>2. PICK c \in Where(HoldingPcs) : con[c].item = j
        BY <1>0, <4>1 DEF HandsOK
      <4>3. c \in Where(HoldingPcs)' /\ con'[c].item = j
        BY <2>9, <3>1, <4>2
      <4> QED
        BY <4>3
    <3> QED
      BY <3>3, <3>4, <3>5, <3>6 DEF HandsOK
  <2>12. OrderOK'
    BY <1>0, <2>5, <2>6 DEF OrderOK
  <2>13. GroupOK'
    <3>1. grouped' = grouped /\ count' = count /\ grouped \subseteq Items
      BY <1>0, <2>1 DEF group, DataOK
    <3>2. \A c \in Where({"done"}) : con'[c].item = con[c].item
      BY <2>2 DEF Where
    <3>3. Owed' = Owed
      BY <2>5, <2>6, <2>9, <3>1, <3>2 DEF Owed
    <3>4. \A j \in grouped' : fate'[j] # "none"
      BY <1>0, <2>6, <3>1 DEF GroupOK
    <3> QED
      BY <1>0, <3>1, <3>3, <3>4 DEF GroupOK
  <2> QED
    BY <2>7, <2>8, <2>10, <2>11, <2>12, <2>13 DEF Inv
<1> QED
  BY <1>1, <1>2

(* A consumer steals the oldest item (Callback_Execute).                   *)
LEMMA StealPreserves == ASSUME Inv, NEW c \in Consumers, Steal(c) PROVE Inv'
<1>0. /\ DataOK /\ FlagsOK /\ SizesOK /\ SpawnOK /\ QueueOK /\ HandsOK /\ OrderOK /\ GroupOK
  BY DEF Inv
<1> DEFINE i == queue[1]
           x == IF con[c].pc = "steal" THEN "begin" ELSE "consume"
           new == [pc |-> x, item |-> i, nth |-> con[c].nth + 1, lost |-> FALSE]
<1>1. /\ con[c].pc \in {"steal", "again"} /\ queue # <<>> /\ queue' = Tail(queue)
      /\ UNCHANGED <<group, owner, sizes, latch, main>>
  BY DEF Steal
<1>2. queue \in Seq(Items) /\ 1 \in 1..Len(queue) /\ Head(queue) = i /\ i \in Items
  BY <1>0, <1>1 DEF DataOK
<1>3. fate' = [fate EXCEPT ![i] = "held"] /\ con' = [Beaten({c}) EXCEPT ![c] = new]
  BY <1>2 DEF Steal, At
<1>4. new \in Thread /\ new.pc = x /\ new.item = i
  <2>1. con[c].nth + 1 \in Nat
    BY <1>0 DEF DataOK, Thread
  <2> QED
    BY <1>2, <2>1 DEF Thread, Pcs
<1>5. /\ con' \in [Consumers -> Thread] /\ con'[c].pc = x /\ con'[c].item = i
      /\ \A d \in Consumers : d # c => con'[d].pc = con[d].pc /\ con'[d].item = con[d].item
  <2>1. /\ Beaten({c}) \in [Consumers -> Thread]
        /\ \A d \in Consumers : /\ Beaten({c})[d].pc = con[d].pc
                                /\ Beaten({c})[d].item = con[d].item
    BY <1>0, BeatenEffect DEF DataOK
  <2> QED
    BY <1>3, <1>4, <2>1
<1>6. x \in {"begin", "consume"} /\ (x = "begin" <=> con[c].pc = "steal")
  BY <1>1
<1> HIDE DEF x, new
<1>7. /\ queue' \in Seq(Items) /\ Len(queue') = Len(queue) - 1
      /\ \A k \in 1..(Len(queue) - 1) : queue'[k] = queue[k + 1]
  BY <1>1, <1>2, HeadTailProperties
<1>8. fate[i] = "queued"
  BY <1>0, <1>2 DEF QueueOK
<1>9. /\ fate' \in [Items -> Fates] /\ fate'[i] = "held"
      /\ \A j \in Items : j # i => fate'[j] = fate[j]
  BY <1>0, <1>2, <1>3 DEF DataOK, Fates
<1>10. DataOK' /\ FlagsOK'
  BY <1>0, <1>1, <1>5, <1>7, <1>9 DEF DataOK, FlagsOK, owner, group
<1>11. QueueOK'
  <2>1. \A k \in 1..(Len(queue) - 1) : queue'[k] = queue[IF k < 1 THEN k ELSE k + 1]
    BY <1>7
  <2> QED
    BY <1>0, <1>2, <1>7, <1>9, <1>10, <2>1, TakePreserves
<1> HIDE DEF i
<1>12. SizesOK'
  <2>1. waiting \in Int /\ working \in Int /\ inited \in Int
    BY <1>0, WhereFinite DEF SizesOK
  <2>2. Counted(c)
    BY <1>1, <1>5, <1>6, <2>1
       DEF Counted, Change, WaitingPcs, WorkingPcs, InitedPcs, Pcs, sizes
  <2> QED
    BY <1>0, <1>5, <2>2, CountedPreserves
<1>13. SpawnOK' /\ JoinOK'
  <2>1. spawned /\ UNCHANGED <<spawned, pause, main>>
    BY <1>0, <1>1 DEF SpawnOK, Where, owner
  <2>2. SpawnOK'
    BY <1>0, <1>5, <1>6, <2>1 DEF SpawnOK, Where
  <2>3. ~(main = "join" /\ ~pause)
    BY <1>1 DEF Inv, JoinOK
  <2> QED
    BY <2>1, <2>2, <2>3 DEF JoinOK
<1>14. /\ Where(HoldingPcs)' = Where(HoldingPcs) \cup {c} /\ c \notin Where(HoldingPcs)
       /\ Where(DonePcs)' = Where(DonePcs) /\ c \notin Where(DonePcs)
       /\ Where({"done"})' = Where({"done"}) /\ c \notin Where({"done"})
       /\ Where(HoldingPcs \cup DonePcs)' = Where(HoldingPcs \cup DonePcs) \cup {c}
       /\ c \notin Where(HoldingPcs \cup DonePcs)
  BY <1>1, <1>5, <1>6 DEF Where, HoldingPcs, DonePcs
<1>15. HandsOK'
  <2>1. \A P : \A d \in Where(P) : d # c => con'[d].item = con[d].item
    BY <1>5 DEF Where
  <2>2. /\ \A d \in Where(HoldingPcs) : con[d].item # i
        /\ \A d \in Where(DonePcs) : con[d].item # i
    BY <1>0, <1>8 DEF HandsOK, Finished
  <2>3. \A d \in Where(HoldingPcs \cup DonePcs) : con[d].item # i
    BY <2>2 DEF Where
  <2>4. grouped' = grouped /\ grouped \subseteq Items
    BY <1>0, <1>1 DEF group, DataOK
  <2>5. \A d \in Where(HoldingPcs)' : con'[d].item \in Items /\ fate'[con'[d].item] = "held"
    BY <1>0, <1>2, <1>5, <1>9, <1>14, <2>1, <2>2 DEF HandsOK, i
  <2>6. \A d \in Where(DonePcs)' : con'[d].item \in grouped' /\ fate'[con'[d].item] \in Finished
    BY <1>0, <1>9, <1>14, <2>1, <2>2, <2>4 DEF HandsOK
  <2>7. \A d, e \in Where(HoldingPcs \cup DonePcs)' : con'[d].item = con'[e].item => d = e
    BY <1>0, <1>5, <1>14, <2>1, <2>3, ZenonT(60) DEF HandsOK
  <2>8. \A j \in Items : fate'[j] = "held" => \E d \in Where(HoldingPcs)' : con'[d].item = j
    BY <1>0, <1>5, <1>9, <1>14, <2>1 DEF HandsOK
  <2> QED
    BY <2>5, <2>6, <2>7, <2>8 DEF HandsOK
<1>16. OrderOK'
  BY <1>0, <1>8, <1>9 DEF OrderOK
<1>17. GroupOK'
  <2>1. grouped' = grouped /\ count' = count /\ grouped \subseteq Items
    BY <1>0, <1>1 DEF group, DataOK
  <2>2. \A d \in Where({"done"}) : con'[d].item = con[d].item
    BY <1>5, <1>14 DEF Where
  <2>3. Owed' = Owed
    BY <1>8, <1>9, <1>14, <2>1, <2>2 DEF Owed
  <2>4. \A j \in grouped' : fate'[j] # "none"
    BY <1>0, <1>9, <2>1 DEF GroupOK
  <2> QED
    BY <1>0, <2>1, <2>3, <2>4 DEF GroupOK
<1> QED
  BY <1>10, <1>11, <1>12, <1>13, <1>15, <1>16, <1>17 DEF Inv

(* A consumer has consumed its item or cleaned it up (Callback_Execute).   *)
LEMMA ConsumePreserves == ASSUME Inv, NEW c \in Consumers, Consume(c) PROVE Inv'
<1>0. /\ DataOK /\ FlagsOK /\ SizesOK /\ SpawnOK /\ JoinOK /\ QueueOK /\ HandsOK
      /\ OrderOK /\ GroupOK
  BY DEF Inv
<1> DEFINE i == con[c].item
           f == IF cancelled THEN "cleaned" ELSE "consumed"
<1>1. /\ con[c].pc = "consume" /\ fate' = [fate EXCEPT ![i] = f] /\ f \in Finished
      /\ UNCHANGED <<queue, group, owner, sizes, latch, main>>
  BY DEF Consume, At, Finished
<1>2. c \in Where(HoldingPcs) /\ c \notin Where(DonePcs)
  BY <1>1 DEF Where, HoldingPcs, DonePcs
<1>3. i \in Items /\ fate[i] = "held"
  BY <1>0, <1>2 DEF HandsOK
<1>4. /\ con' \in [Consumers -> Thread]
      /\ \A d \in Consumers : d # c => con'[d] = con[d]
      /\ i \in grouped => con'[c].pc = "done" /\ con'[c].item = i
      /\ i \notin grouped => con'[c].pc \in {"finish", "again"}
  <2>0. con \in [Consumers -> Thread] /\ "done" \in Pcs
    BY <1>0 DEF DataOK, Pcs
  <2>1. CASE i \in grouped
    <3>1. Goto(c, "done")
      BY <2>1 DEF Consume
    <3> QED
      BY <2>0, <2>1, <3>1, GotoEffect
  <2>2. CASE i \notin grouped
    <3>1. Onward(c, f)
      BY <2>2 DEF Consume
    <3> QED
      BY <2>0, <2>2, <3>1, OnwardEffect
  <2> QED
    BY <2>1, <2>2
<1> HIDE DEF i, f
<1>5. /\ fate' \in [Items -> Fates] /\ fate'[i] \in Finished
      /\ \A j \in Items : j # i => fate'[j] = fate[j]
  BY <1>0, <1>1, <1>3 DEF DataOK, Fates, Finished
<1>6. DataOK' /\ FlagsOK'
  BY <1>0, <1>1, <1>4, <1>5 DEF DataOK, FlagsOK, owner, group
<1>7. SizesOK'
  <2>1. waiting \in Int /\ working \in Int /\ inited \in Int
    BY <1>0, WhereFinite DEF SizesOK
  <2>2. con'[c].pc \in {"done", "finish", "again"}
    BY <1>4
  <2>3. Counted(c)
    BY <1>1, <2>1, <2>2 DEF Counted, Change, WaitingPcs, WorkingPcs, InitedPcs, Pcs, sizes
  <2> QED
    BY <1>0, <1>4, <2>3, CountedPreserves
<1>8. SpawnOK' /\ JoinOK'
  <2>1. spawned /\ UNCHANGED <<spawned, pause, main, queue>>
    BY <1>0, <1>1 DEF SpawnOK, Where, owner
  <2>2. con'[c].pc # "setup"
    BY <1>4
  <2> QED
    BY <1>0, <1>4, <2>1, <2>2 DEF SpawnOK, JoinOK, Where
<1>9. QueueOK'
  <2>1. \A j \in Items : (fate'[j] = "queued") <=> (fate[j] = "queued")
    BY <1>3, <1>5 DEF Finished
  <2>2. \A k \in 1..Len(queue) : queue[k] \in Items
    BY <1>0 DEF DataOK
  <2>3. {j \in Items : fate'[j] = "queued"} = {j \in Items : fate[j] = "queued"}
    BY <2>1
  <2> QED
    BY <1>0, <1>1, <2>1, <2>2, <2>3, ZenonT(60) DEF QueueOK
<1>10. /\ Where(HoldingPcs)' = Where(HoldingPcs) \ {c}
       /\ Where(DonePcs)' = (IF i \in grouped THEN Where(DonePcs) \cup {c} ELSE Where(DonePcs))
       /\ Where({"done"})' =
            (IF i \in grouped THEN Where({"done"}) \cup {c} ELSE Where({"done"}))
       /\ c \notin Where({"done"})
       /\ Where(HoldingPcs \cup DonePcs)' \subseteq Where(HoldingPcs \cup DonePcs)
       /\ c \in Where(HoldingPcs \cup DonePcs)' => i \in grouped
  BY <1>1, <1>4 DEF Where, HoldingPcs, DonePcs
<1>11. \A P : \A d \in Where(P) : d # c => con'[d].item = con[d].item /\ d \in Consumers
  BY <1>4 DEF Where
<1>12. \A d \in Where(HoldingPcs \cup DonePcs) : d # c => con[d].item # i
  <2>1. c \in Where(HoldingPcs \cup DonePcs)
    BY <1>2 DEF Where
  <2> QED
    BY <1>0, <2>1 DEF HandsOK, i
<1>13. /\ \A d \in Where(HoldingPcs) : d # c => con[d].item # i
       /\ \A d \in Where(DonePcs) : con[d].item # i
  BY <1>2, <1>12 DEF Where
<1>14. HandsOK'
  <2>1. grouped' = grouped /\ grouped \subseteq Items
    BY <1>0, <1>1 DEF group, DataOK
  <2>2. \A d \in Where(HoldingPcs)' : con'[d].item \in Items /\ fate'[con'[d].item] = "held"
    BY <1>0, <1>5, <1>10, <1>11, <1>13 DEF HandsOK
  <2>3. \A d \in Where(DonePcs)' : con'[d].item \in grouped' /\ fate'[con'[d].item] \in Finished
    <3>1. \A d \in Where(DonePcs) : con'[d].item \in grouped' /\ fate'[con'[d].item] \in Finished
      BY <1>0, <1>2, <1>5, <1>11, <1>13, <2>1 DEF HandsOK
    <3>2. i \in grouped => con'[c].item \in grouped' /\ fate'[con'[c].item] \in Finished
      BY <1>4, <1>5, <2>1
    <3> QED
      BY <1>10, <3>1, <3>2
  <2>4. \A d, e \in Where(HoldingPcs \cup DonePcs)' : con'[d].item = con'[e].item => d = e
    <3>1. \A d \in Where(HoldingPcs \cup DonePcs)' : con'[d].item = con[d].item
      BY <1>4, <1>10, <1>11 DEF i
    <3> QED
      BY <1>0, <1>10, <3>1 DEF HandsOK
  <2>5. \A j \in Items : fate'[j] = "held" => \E d \in Where(HoldingPcs)' : con'[d].item = j
    <3> SUFFICES ASSUME NEW j \in Items, fate'[j] = "held"
                 PROVE  \E d \in Where(HoldingPcs)' : con'[d].item = j
      OBVIOUS
    <3>1. j # i /\ fate[j] = "held"
      BY <1>5 DEF Finished
    <3>2. PICK d \in Where(HoldingPcs) : con[d].item = j
      BY <1>0, <3>1 DEF HandsOK
    <3>3. d # c
      BY <3>1, <3>2 DEF i
    <3> QED
      BY <1>10, <1>11, <3>2, <3>3
  <2> QED
    BY <2>2, <2>3, <2>4, <2>5 DEF HandsOK
<1>15. OrderOK'
  <2>1. \A j \in Items : (fate'[j] # "none") <=> (fate[j] # "none")
    BY <1>3, <1>5 DEF Finished
  <2> QED
    BY <1>0, <2>1 DEF OrderOK
<1>16. GroupOK'
  <2>1. grouped' = grouped /\ count' = count /\ grouped \subseteq Items
    BY <1>0, <1>1 DEF group, DataOK
  <2>2. \A d \in Where({"done"}) : con'[d].item = con[d].item
    BY <1>10, <1>11
  <2>3. Owed' = Owed
    <3>1. ASSUME NEW j \in grouped, j # i PROVE j \in Owed' <=> j \in Owed
      BY <1>4, <1>5, <1>10, <2>1, <2>2, <3>1 DEF Owed
    <3>2. i \in grouped => i \in Owed /\ i \in Owed'
      BY <1>3, <1>4, <1>10, <2>1 DEF Owed
    <3>3. Owed \subseteq grouped /\ Owed' \subseteq grouped
      BY <2>1 DEF Owed
    <3> QED
      BY <3>1, <3>2, <3>3
  <2>4. \A j \in grouped' : fate'[j] # "none"
    BY <1>0, <1>5, <2>1 DEF GroupOK, Finished
  <2> QED
    BY <1>0, <2>1, <2>3, <2>4 DEF GroupOK
<1> QED
  BY <1>6, <1>7, <1>8, <1>9, <1>14, <1>15, <1>16 DEF Inv

(* A consumer tells the group that its item is done (WaitGroup::done).     *)
LEMMA DonePreserves == ASSUME Inv, NEW c \in Consumers, Done(c) PROVE Inv'
<1>0. /\ DataOK /\ FlagsOK /\ SizesOK /\ SpawnOK /\ JoinOK /\ QueueOK /\ HandsOK
      /\ OrderOK /\ GroupOK
  BY DEF Inv
<1> DEFINE i == con[c].item
<1>1. /\ con[c].pc = "done" /\ count' = count - 1
      /\ Goto(c, "notify") \/ Onward(c, fate[i])
      /\ UNCHANGED <<queue, fate, grouped, owner, sizes, latch, main>>
  BY DEF Done, At
<1>2. c \in Where(DonePcs) /\ c \in Where({"done"})
  BY <1>1 DEF Where, DonePcs
<1>3. i \in grouped /\ i \in Items /\ fate[i] \in Finished
  BY <1>0, <1>2 DEF HandsOK, DataOK
<1>4. /\ con' \in [Consumers -> Thread] /\ con'[c].pc \in {"notify", "finish", "again"}
      /\ con'[c].pc = "notify" => con'[c].item = i
      /\ \A d \in Consumers : d # c => con'[d] = con[d]
  <2>0. con \in [Consumers -> Thread] /\ "notify" \in Pcs
    BY <1>0 DEF DataOK, Pcs
  <2> QED
    BY <1>1, <2>0, GotoEffect, OnwardEffect
<1> HIDE DEF i
<1>5. DataOK' /\ FlagsOK'
  BY <1>0, <1>1, <1>4 DEF DataOK, FlagsOK, owner
<1>6. SizesOK'
  <2>1. waiting \in Int /\ working \in Int /\ inited \in Int
    BY <1>0, WhereFinite DEF SizesOK
  <2>2. Counted(c)
    BY <1>1, <1>4, <2>1 DEF Counted, Change, WaitingPcs, WorkingPcs, InitedPcs, Pcs, sizes
  <2> QED
    BY <1>0, <1>4, <2>2, CountedPreserves
<1>7. SpawnOK' /\ JoinOK'
  <2>1. spawned /\ UNCHANGED <<spawned, pause, main, queue>>
    BY <1>0, <1>1 DEF SpawnOK, Where, owner
  <2> QED
    BY <1>0, <1>4, <2>1 DEF SpawnOK, JoinOK, Where
<1>8. QueueOK' /\ OrderOK'
  BY <1>0, <1>1 DEF QueueOK, OrderOK
<1>9. /\ Where(HoldingPcs)' = Where(HoldingPcs) /\ c \notin Where(HoldingPcs)
      /\ Where(DonePcs)' \subseteq Where(DonePcs)
      /\ Where({"done"})' = Where({"done"}) \ {c}
      /\ Where(HoldingPcs \cup DonePcs)' \subseteq Where(HoldingPcs \cup DonePcs)
      /\ \A d \in Where(HoldingPcs \cup DonePcs)' : con'[d].item = con[d].item
  BY <1>1, <1>4 DEF Where, HoldingPcs, DonePcs, i
<1>10. HandsOK'
  <2>1. /\ \A d \in Where(HoldingPcs)' : con'[d].item = con[d].item
        /\ \A d \in Where(DonePcs)' : con'[d].item = con[d].item
    BY <1>9 DEF Where
  <2>2. \A d \in Where(HoldingPcs)' : con'[d].item \in Items /\ fate'[con'[d].item] = "held"
    BY <1>0, <1>1, <1>9, <2>1 DEF HandsOK
  <2>3. \A d \in Where(DonePcs)' : con'[d].item \in grouped' /\ fate'[con'[d].item] \in Finished
    BY <1>0, <1>1, <1>9, <2>1 DEF HandsOK
  <2>4. \A d, e \in Where(HoldingPcs \cup DonePcs)' : con'[d].item = con'[e].item => d = e
    BY <1>0, <1>9 DEF HandsOK
  <2>5. \A j \in Items : fate'[j] = "held" => \E d \in Where(HoldingPcs)' : con'[d].item = j
    BY <1>0, <1>1, <1>9, <2>1 DEF HandsOK
  <2> QED
    BY <2>2, <2>3, <2>4, <2>5 DEF HandsOK
<1>11. GroupOK'
  <2>1. \A d \in Where({"done"}) : d # c => con'[d].item = con[d].item /\ con[d].item # i
    <3>1. \A d \in Where({"done"}) : d \in Where(HoldingPcs \cup DonePcs) /\ d \in Consumers
      BY DEF Where, DonePcs
    <3> QED
      BY <1>0, <1>2, <1>4, <3>1 DEF HandsOK, i
  <2>2. Owed' = Owed \ {i} /\ i \in Owed
    <3>1. i \in Owed
      BY <1>2, <1>3 DEF Owed, i
    <3>2. i \notin Owed'
      BY <1>1, <1>3, <1>9, <2>1 DEF Owed, Finished
    <3>3. ASSUME NEW j \in grouped, j # i PROVE j \in Owed' <=> j \in Owed
      BY <1>1, <1>9, <2>1, <3>3 DEF Owed, i
    <3>4. Owed \subseteq grouped /\ Owed' \subseteq grouped
      BY <1>1 DEF Owed
    <3> QED
      BY <3>1, <3>2, <3>3, <3>4
  <2>3. IsFiniteSet(Owed)
    <3>1. Owed \subseteq Items
      BY <1>0 DEF Owed, DataOK
    <3> QED
      BY <3>1, SomeItems
  <2>4. Cardinality(Owed \ {i}) = Cardinality(Owed) - 1
    BY <2>2, <2>3, FS_RemoveElement
  <2> QED
    BY <1>0, <1>1, <2>2, <2>4 DEF GroupOK
<1> QED
  BY <1>5, <1>6, <1>7, <1>8, <1>10, <1>11 DEF Inv

-----------------------------------------------------------------------------
(* The invariant, and what follows from it.                                *)

(* Every step of every thread preserves the invariant.                     *)
LEMMA InvStep == Inv /\ [Next]_vars => Inv'
<1> SUFFICES ASSUME Inv, [Next]_vars PROVE Inv'
  OBVIOUS
<1>1. CASE Calls
  BY <1>1, OwnerStepPreserves, SpawnPreserves, SubmitPreserves DEF Calls
<1>2. CASE OwnerSteps \/ SubmitNotify \/ OwnerSpurious
  BY <1>2, OwnerStepPreserves, PurgePopPreserves DEF OwnerSteps
<1>3. ASSUME NEW c \in Consumers, ConsumerSteps(c) \/ Lock(c) \/ Relock(c) \/ Spurious(c)
      PROVE  Inv'
  BY <1>3, LoopPreserves, EndPreserves, StealPreserves, ConsumePreserves, DonePreserves
     DEF ConsumerSteps
<1>4. CASE UNCHANGED vars
  BY <1>4 DEF vars, Inv, DataOK, FlagsOK, SizesOK, SpawnOK, JoinOK, QueueOK, HandsOK,
              OrderOK, GroupOK, Owed, Where, flags, sizes, group
<1> QED
  BY <1>1, <1>2, <1>3, <1>4 DEF Next

(* The invariant holds in every reachable state.                           *)
THEOREM ExecutorInvariant == Spec => []Inv
  BY InvInit, InvStep, PTL DEF Spec

(* The unsigned counters of the executor and of the WaitGroup never pass   *)
(* below zero or above the number of what they count, whatever the order   *)
(* in which threads start, wait, work and go (M_waiting_size,              *)
(* M_working_size, M_initialized_size, WaitGroup).                         *)
THEOREM ExecutorTypes == Spec => []TypeOK
<1>1. Inv => TypeOK
  <2> SUFFICES ASSUME Inv PROVE TypeOK
    OBVIOUS
  <2>0. DataOK /\ FlagsOK /\ SizesOK /\ QueueOK /\ GroupOK /\ MaxItems \in Nat
    BY ExecutorAssumption DEF Inv
  <2>1. waiting \in 0..N /\ working \in 0..N /\ inited \in 0..N
    BY <2>0, WhereFinite DEF SizesOK
  <2>2. count \in 0..MaxItems
    <3>1. Owed \subseteq Items
      BY <2>0 DEF Owed, DataOK
    <3> QED
      BY <2>0, <3>1, SomeItems DEF GroupOK
  <2>3. queue \in BoundedSeq(Items, MaxItems)
    <3>1. Len(queue) \in 0..MaxItems
      BY <2>0, SomeItems DEF QueueOK
    <3>2. queue \in [1..Len(queue) -> Items]
      BY <2>0 DEF DataOK
    <3> QED
      BY <3>1, <3>2 DEF BoundedSeq, SeqOf
  <2> QED
    BY <2>0, <2>1, <2>2, <2>3 DEF TypeOK, DataOK, FlagsOK
<1> QED
  BY <1>1, ExecutorInvariant, PTL

(* WaitAll() of an executor that is not paused returns when nothing is     *)
(* queued and no consumer has an item in its hands: the queue is empty     *)
(* when it leaves its wait, and once all consumers wait none holds an item *)
(* that M_working_size did not show yet.                                   *)
THEOREM WaitAllIsRight == Spec => WaitAllMeansDone
<1> DEFINE Right == (main = "join" /\ main' # "join" /\ ~pause) =>
                       (\A i \in Items : fate[i] \notin {"queued", "held"})
<1>1. Inv /\ [Next]_vars => [Right]_vars
  <2> SUFFICES ASSUME Inv, Next, main = "join", main' # "join", ~pause, NEW i \in Items
               PROVE  fate[i] \notin {"queued", "held"}
    OBVIOUS
  <2>1. WaitAllReturn
    BY DEF Next, Calls, OwnerSteps, ConsumerSteps, Call, Spawn, Pause, Resume, Cancel, Purge,
       GroupWait, Submit, WaitAll, Spawned, SubmitDecide, PurgePop, WaitAllTest,
       WaitAllSleep, ShutdownWait, ShutdownTell, ShutdownSpam, ShutdownJoin, GroupTest,
       SubmitNotify, OwnerSpurious, Setup, Lock, Test, Sleep, Spurious, Relock, Awake,
       Teardown, Steal, StealFail, Begin, Consume, Done, DoneNotify, Finish, LastOne, Spin
  <2>2. fate[i] # "queued"
    <3>1. Len(queue) = 0
      BY DEF Inv, JoinOK
    <3> QED
      BY <3>1 DEF Inv, QueueOK
  <2>3. \A c \in Consumers : con[c].pc \in WaitingPcs \cup {"gone"}
    <3>1. CASE spawned
      <4>1. Cardinality(Where(WaitingPcs)) = Cardinality(Consumers)
        BY <2>1, <3>1 DEF WaitAllReturn, Threads, Inv, SizesOK
      <4>2. Where(WaitingPcs) = Consumers
        BY <4>1, WhereAll
      <4> QED
        BY <4>2 DEF Where
    <3>2. CASE ~spawned
      BY <3>2 DEF Inv, SpawnOK, Where
    <3> QED
      BY <3>1, <3>2
  <2>4. Where(HoldingPcs) = {}
    BY <2>3 DEF Where, WaitingPcs, HoldingPcs
  <2> QED
    BY <2>2, <2>4 DEF Inv, HandsOK
<1> QED
  BY <1>1, ExecutorInvariant, PTL DEF Spec, WaitAllMeansDone

(* WaitGroup::wait() returns when every item of the group has been         *)
(* consumed or cleaned up: the count is that of the items for which done() *)
(* is still to come, purged ones included.                                 *)
THEOREM WaitGroupIsRight == Spec => WaitGroupMeansDone
<1> DEFINE Right == (main \in {"wait", "waiting"} /\ main' = "idle") =>
                       (\A i \in grouped : fate[i] \in Finished)
<1>1. Inv /\ [Next]_vars => [Right]_vars
  <2> SUFFICES ASSUME Inv, Next, main \in {"wait", "waiting"}, main' = "idle",
                      NEW i \in grouped
               PROVE  fate[i] \in Finished
    OBVIOUS
  <2>1. GroupTest
    BY DEF Next, Calls, OwnerSteps, ConsumerSteps, Call, Spawn, Pause, Resume, Cancel, Purge,
       GroupWait, Submit, WaitAll, Spawned, SubmitDecide, PurgePop, WaitAllTest,
       WaitAllSleep, WaitAllReturn, ShutdownWait, ShutdownTell, ShutdownSpam, ShutdownJoin,
       SubmitNotify, OwnerSpurious, Setup, Lock, Test, Sleep, Spurious, Relock, Awake,
       Teardown, Steal, StealFail, Begin, Consume, Done, DoneNotify, Finish, LastOne, Spin
  <2>2. Owed = {}
    <3>1. count = 0
      BY <2>1 DEF GroupTest
    <3>2. IsFiniteSet(Owed) /\ Cardinality(Owed) = 0
      <4>1. Owed \subseteq Items
        BY DEF Inv, Owed, DataOK
      <4> QED
        BY <3>1, <4>1, SomeItems DEF Inv, GroupOK
    <3> QED
      BY <3>2, FS_EmptySet
  <2>3. fate[i] \in Fates /\ fate[i] # "none"
    BY DEF Inv, DataOK, GroupOK
  <2>4. fate[i] \notin {"queued", "held", "purged"}
    BY <2>2 DEF Owed
  <2> QED
    BY <2>3, <2>4 DEF Fates, Finished
<1> QED
  BY <1>1, ExecutorInvariant, PTL DEF Spec, WaitGroupMeansDone
=============================================================================
