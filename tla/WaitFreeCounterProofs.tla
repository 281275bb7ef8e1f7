----------------------- MODULE WaitFreeCounterProofs -----------------------
(***************************************************************************)
(* The counter is correct for any number of threads and any width of the   *)
(* word, as long as failed increments do not overflow into the flags.      *)
(***************************************************************************)
EXTENDS WaitFreeCounter, TLAPS

(* One step of one thread keeps the inductive invariant.                   *)
LEMMA StepKeepsInv ==
    ASSUME KeepRoom, Inv, NEW t \in Threads,
           \/ Increment(t) \/ DecrementSub(t) \/ DecrementCas(t)
           \/ DecrementExchange(t) \/ Load(t) \/ LoadHelp(t)
    PROVE  Inv'
<1> USE FlagAssumption DEF TypeOK, IsZero, IsPending, Count, ZeroFlag, Word
<1>0. /\ x \in 0 .. 4 * PendingFlag - 1 /\ refs \in Nat /\ winners \in Nat
      /\ calls \in Nat /\ pc \in [Threads -> Steps]
  BY DEF Inv
<1>1. CASE Increment(t)
  <2>1. TypeOK'
    BY <1>0, <1>1 DEF Increment, Add1
  <2>2. CountExact' /\ Room'
    BY <1>0, <1>1 DEF Increment, Add1, Inv, CountExact, Room
  <2>3. /\ x' = x + 1 /\ pc' = pc /\ winners' = winners
        /\ x' # 0 /\ (IsZero(x') <=> IsZero(x)) /\ (IsPending(x') <=> IsPending(x))
    BY <1>0, <1>1 DEF Increment, Add1, Inv, Room
  <2>4. OneWinner'
    BY <2>3 DEF Inv, OneWinner
  <2> QED BY <2>1, <2>2, <2>4 DEF Inv
<1>2. CASE DecrementSub(t)
  <2>1. /\ x \in 1 .. PendingFlag - 1 /\ refs = x /\ x' = x - 1 /\ refs' = refs - 1
        /\ winners = 0 /\ winners' = winners /\ calls' = calls
    BY <1>0, <1>2 DEF DecrementSub, Sub1, Inv, CountExact, Room
  <2>2. pc' = [pc EXCEPT ![t] = IF x = 1 THEN "cas" ELSE "idle"] /\ pc[t] = "idle"
    BY <1>2 DEF DecrementSub, Goto
  <2>3. TypeOK' /\ CountExact' /\ Room'
    BY <1>0, <2>1, <2>2 DEF CountExact, Room, Steps
  <2>4. x' = 0 => pc'[t] = "cas"
    BY <1>0, <2>1, <2>2
  <2>5. \A s \in Threads : pc[s] # "exchange"
    BY <1>0, <2>1 DEF Inv, OneWinner
  <2>6. \A s \in Threads : pc'[s] # "exchange"
    BY <1>0, <2>2, <2>5
  <2>7. OneWinner'
    BY <1>0, <2>1, <2>4, <2>6 DEF OneWinner
  <2> QED BY <2>3, <2>7 DEF Inv
<1>3. CASE DecrementCas(t)
  <2>1. CASE x = 0
    <3>1. /\ x' = 2 * PendingFlag /\ winners = 0 /\ winners' = 1 /\ refs = 0
          /\ refs' = refs /\ calls' = calls
      BY <1>0, <1>3, <2>1 DEF DecrementCas, Inv, CountExact
    <3>2. pc' = [pc EXCEPT ![t] = "idle"]
      BY <1>3, <2>1 DEF DecrementCas, Goto
    <3>3. TypeOK' /\ CountExact' /\ Room'
      BY <1>0, <3>1, <3>2 DEF CountExact, Room, Steps
    <3>4. OneWinner'
      BY <1>0, <3>1 DEF OneWinner
    <3> QED BY <3>3, <3>4 DEF Inv
  <2>2. CASE x # 0
    <3>1. x' = x /\ winners' = winners /\ refs' = refs /\ calls' = calls
      BY <1>3, <2>2 DEF DecrementCas
    <3>2. pc' = [pc EXCEPT ![t] = IF IsPending(x) THEN "exchange" ELSE "idle"]
      BY <1>3, <2>2 DEF DecrementCas, Goto
    <3>3. TypeOK' /\ CountExact' /\ Room'
      BY <1>0, <3>1, <3>2 DEF CountExact, Room, Steps, Inv
    <3>4. IsPending(x) => IsZero(x)
      BY <1>0 DEF Inv, Room
    <3>5. IsPending(x) => pc'[t] = "exchange"
      BY <1>0, <3>2
    <3>6. \A s \in Threads : pc'[s] = "exchange" => IsZero(x)
      BY <1>0, <3>2, <3>4 DEF Inv, OneWinner
    <3>7. OneWinner'
      BY <2>2, <3>1, <3>5, <3>6 DEF OneWinner, Inv
    <3> QED BY <3>3, <3>7 DEF Inv
  <2> QED BY <2>1, <2>2
<1>4. CASE DecrementExchange(t)
  <2>1. /\ IsZero(x) /\ x' = 2 * PendingFlag /\ refs = 0 /\ refs' = refs
        /\ winners' = 1 /\ calls' = calls
    BY <1>0, <1>4 DEF DecrementExchange, Inv, OneWinner, CountExact
  <2>2. pc' = [pc EXCEPT ![t] = "idle"]
    BY <1>4 DEF DecrementExchange, Goto
  <2>3. TypeOK' /\ CountExact' /\ Room'
    BY <1>0, <2>1, <2>2 DEF CountExact, Room, Steps
  <2>4. OneWinner'
    BY <1>0, <2>1 DEF OneWinner
  <2> QED BY <2>3, <2>4 DEF Inv
<1>5. CASE Load(t)
  <2>1. /\ x = 0 /\ x' = x /\ winners' = winners /\ refs' = refs /\ calls' = calls
        /\ pc[t] = "idle" /\ pc' = [pc EXCEPT ![t] = "help"]
    BY <1>5 DEF Load, Goto
  <2>2. TypeOK' /\ CountExact' /\ Room'
    BY <1>0, <2>1 DEF CountExact, Room, Steps, Inv
  <2>3. \A s \in Threads : pc[s] \in {"cas", "exchange"} => pc'[s] = pc[s]
    BY <1>0, <2>1
  <2>4. \A s \in Threads : pc'[s] = "exchange" => pc[s] = "exchange"
    BY <1>0, <2>1
  <2>5. OneWinner'
    BY <2>1, <2>3, <2>4 DEF OneWinner, Inv
  <2> QED BY <2>2, <2>5 DEF Inv
<1>6. CASE LoadHelp(t)
  <2>1. /\ x' = IF x = 0 THEN 3 * PendingFlag ELSE x
        /\ winners' = winners /\ refs' = refs /\ calls' = calls
        /\ pc[t] = "help" /\ pc' = [pc EXCEPT ![t] = "idle"]
    BY <1>0, <1>6 DEF LoadHelp, Goto
  <2>2. TypeOK' /\ CountExact' /\ Room'
    BY <1>0, <2>1 DEF CountExact, Room, Steps, Inv
  <2>3. \A s \in Threads : pc[s] \in {"cas", "exchange"} => pc'[s] = pc[s]
    BY <1>0, <2>1
  <2>4. \A s \in Threads : pc'[s] = "exchange" => pc[s] = "exchange"
    BY <1>0, <2>1
  <2>5. CASE x = 0
    <3>1. winners = 0 /\ x' = 3 * PendingFlag /\ \E s \in Threads : pc[s] = "cas"
      BY <1>0, <2>1, <2>5 DEF Inv, OneWinner, CountExact
    <3>2. \E s \in Threads : pc'[s] = "cas"
      BY <2>3, <3>1
    <3>3. OneWinner'
      BY <1>0, <2>1, <3>1, <3>2 DEF OneWinner
    <3> QED BY <2>2, <3>3 DEF Inv
  <2>6. CASE x # 0
    <3>1. x' = x
      BY <2>1, <2>6
    <3>2. OneWinner'
      BY <2>1, <2>3, <2>4, <2>6, <3>1 DEF OneWinner, Inv
    <3> QED BY <2>2, <3>2 DEF Inv
  <2> QED BY <2>5, <2>6
<1> QED BY <1>1, <1>2, <1>3, <1>4, <1>5, <1>6

(* Every step keeps the inductive invariant.                              *)
LEMMA NextKeepsInv == ASSUME KeepRoom PROVE Inv /\ [Next]_vars => Inv'
<1> SUFFICES ASSUME Inv, [Next]_vars PROVE Inv'
  OBVIOUS
<1>1. CASE Next
  BY <1>1, StepKeepsInv DEF Next
<1>2. CASE UNCHANGED vars
  BY <1>2 DEF vars, Inv, TypeOK, CountExact, OneWinner, Room, IsZero, IsPending,
     Count, ZeroFlag, Word
<1> QED BY <1>1, <1>2

(* The inductive invariant holds of WaitFreeCounter.                       *)
THEOREM Invariance ==
    ASSUME KeepRoom
    PROVE  Spec => []Inv
<1>1. Init => Inv
  BY FlagAssumption DEF Init, Inv, TypeOK, CountExact, OneWinner, Room, Steps,
     IsZero, IsPending, Count, ZeroFlag, Word
<1> QED BY <1>1, NextKeepsInv, PTL DEF Spec

(* The word always agrees with the references, and no object that is still *)
(* referred to is disposed of (increment, decrement, load).                *)
THEOREM CountCorrect ==
    ASSUME KeepRoom
    PROVE  Spec => []CountExact
<1>1. Inv => CountExact
  BY DEF Inv
<1> QED BY <1>1, Invariance, PTL

(* Of the decrements that may find the count at zero one returns true, and *)
(* one that could is under way until then.                                 *)
THEOREM WinnerCorrect ==
    ASSUME KeepRoom
    PROVE  Spec => []OneWinner
<1>1. Inv => OneWinner
  BY DEF Inv
<1> QED BY <1>1, Invariance, PTL

(* For any number of threads and any width of the word the counter         *)
(* implements one that is stuck at zero.                                   *)
THEOREM Refinement ==
    ASSUME KeepRoom
    PROVE  Spec => Implements
<1> USE FlagAssumption DEF IsZero, ZeroFlag
<1>1. Init => Sticky!Init
  BY DEF Init, Sticky!Init
<1>2. Inv /\ [Next]_vars => [Sticky!Next]_<<refs, IsZero(x), winners>>
  <2> SUFFICES ASSUME Inv, [Next]_vars
               PROVE  Sticky!Next \/ UNCHANGED <<refs, IsZero(x), winners>>
    OBVIOUS
  <2>0. Inv'
    BY NextKeepsInv
  <2>1. /\ x \in 0 .. 4 * PendingFlag - 1 /\ refs \in Nat /\ winners \in Nat
        /\ x' \in 0 .. 4 * PendingFlag - 1
    BY <2>0 DEF Inv, TypeOK, Word
  <2>2. ASSUME NEW t \in Threads, Increment(t)
        PROVE  Sticky!Next \/ UNCHANGED <<refs, IsZero(x), winners>>
    <3>1. x' = x + 1 /\ winners' = winners /\ (IsZero(x') <=> IsZero(x))
      BY <2>1, <2>2 DEF Increment, Add1, Inv, Room, Count, IsPending, Word
    <3>2. refs' = IF IsZero(x) THEN refs ELSE refs + 1
      BY <2>2 DEF Increment
    <3> QED BY <3>1, <3>2 DEF Sticky!Next, Sticky!Acquire
  <2>3. ASSUME NEW t \in Threads, DecrementSub(t)
        PROVE  Sticky!Next
    <3>1. ~IsZero(x) /\ ~IsZero(x') /\ winners' = winners /\ refs > 0 /\ refs' = refs - 1
      BY <2>1, <2>3 DEF DecrementSub, Sub1, Inv, CountExact
    <3> QED BY <3>1 DEF Sticky!Next, Sticky!Release
  <2>4. ASSUME NEW t \in Threads, DecrementCas(t) \/ LoadHelp(t)
        PROVE  Sticky!Next \/ UNCHANGED <<refs, IsZero(x), winners>>
    <3>1. CASE x = 0
      <4>1. refs = 0 /\ winners = 0 /\ refs' = refs /\ IsZero(x') /\ winners' \in {0, 1}
        BY <2>1, <2>4, <3>1 DEF DecrementCas, LoadHelp, Inv, CountExact
      <4>2. ~IsZero(x)
        BY <3>1
      <4> QED BY <4>1, <4>2 DEF Sticky!Next, Sticky!Die
    <3>2. CASE x # 0
      BY <2>4, <3>2 DEF DecrementCas, LoadHelp
    <3> QED BY <3>1, <3>2
  <2>5. ASSUME NEW t \in Threads, DecrementExchange(t)
        PROVE  Sticky!Next \/ UNCHANGED <<refs, IsZero(x), winners>>
    <3>1. IsZero(x) /\ IsZero(x') /\ refs' = refs
      BY <2>1, <2>5 DEF DecrementExchange, Inv, OneWinner
    <3>2. winners' = 1 /\ winners \in {0, 1}
      BY <2>1, <2>5, <3>1 DEF DecrementExchange, Inv, OneWinner
    <3> QED BY <3>1, <3>2 DEF Sticky!Next, Sticky!Win
  <2>6. ASSUME NEW t \in Threads, Load(t)
        PROVE  UNCHANGED <<refs, IsZero(x), winners>>
    BY <2>6 DEF Load
  <2>7. CASE UNCHANGED vars
    BY <2>7 DEF vars
  <2> QED BY <2>2, <2>3, <2>4, <2>5, <2>6, <2>7 DEF Next
<1> QED BY <1>1, <1>2, Invariance, PTL DEF Spec, Implements, Sticky!Spec
=============================================================================
