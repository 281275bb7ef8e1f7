-------------------------- MODULE WaitFreeCounter --------------------------
(***************************************************************************)
(* details::WaitFreeCounter of godby/AtomicSharedPointer.h, the strong     *)
(* count of a control block: one word x whose two top bits are flags.      *)
(* Every step of a call is one atomic operation on x.  A reference may be  *)
(* dropped by another thread than the one that took it (a SharedPtr can be *)
(* moved), so references are counted, not attributed.                      *)
(***************************************************************************)
EXTENDS Integers

CONSTANTS Threads,
          PendingFlag,    \* zero_pending_flag: the second highest bit
          MaxCalls,       \* bound: calls of increment
          KeepRoom        \* are failed increments too few to reach the flags?

ASSUME FlagAssumption == PendingFlag \in Nat \ {0, 1}
ASSUME RoomAssumption == MaxCalls \in Nat /\ KeepRoom \in BOOLEAN

VARIABLES x,          \* the word
          pc,         \* each thread's program counter
          refs,       \* how many references are held
          winners,    \* how many calls of decrement returned true
          calls       \* calls of increment so far

vars == <<x, pc, refs, winners, calls>>

ZeroFlag == 2 * PendingFlag
Word == 4 * PendingFlag
Steps == {"idle", "cas", "exchange", "help"}

(* The bit tests (val & zero_flag) and (val & zero_pending_flag).          *)
IsZero(v) == v >= ZeroFlag
IsPending(v) == IF IsZero(v) THEN v - ZeroFlag >= PendingFlag
                             ELSE v >= PendingFlag
(* The failed increments a dead word still counts.                         *)
Count(v) == v - (IF IsZero(v) THEN ZeroFlag ELSE 0)
              - (IF IsPending(v) THEN PendingFlag ELSE 0)

Add1(v) == IF v + 1 = Word THEN 0 ELSE v + 1
Sub1(v) == IF v = 0 THEN Word - 1 ELSE v - 1

Goto(t, step) == pc' = [pc EXCEPT ![t] = step]

(* A counter starts at 1: the reference of the SharedPtr that makes the    *)
(* control block.                                                          *)
Init ==
    /\ x = 1
    /\ pc = [t \in Threads |-> "idle"]
    /\ refs = 1
    /\ winners = 0
    /\ calls = 0

-----------------------------------------------------------------------------
(* Mutant: the increment never fails.                                      *)
IncrementAlways(t) ==
    /\ pc[t] = "idle"
    /\ calls < MaxCalls
    /\ (KeepRoom \/ ~IsZero(x)) => Count(x) < PendingFlag - 1
    /\ x' = Add1(x)
    /\ refs' = refs + 1
    /\ calls' = calls + 1
    /\ UNCHANGED <<pc, winners>>

(* increment(): fetch_add adds whatever the word is; the answer is false   *)
(* when the zero flag was set.  Users keep to max_value() references.      *)
Increment(t) ==
    /\ pc[t] = "idle"
    /\ calls < MaxCalls
    /\ (KeepRoom \/ ~IsZero(x)) => Count(x) < PendingFlag - 1
    /\ x' = Add1(x)
    /\ refs' = IF IsZero(x) THEN refs ELSE refs + 1
    /\ calls' = calls + 1
    /\ UNCHANGED <<pc, winners>>

(* decrement(): fetch_sub; false unless this was the last reference.       *)
DecrementSub(t) ==
    /\ pc[t] = "idle"
    /\ refs > 0
    /\ x' = Sub1(x)
    /\ refs' = refs - 1
    /\ Goto(t, IF x = 1 THEN "cas" ELSE "idle")
    /\ UNCHANGED <<winners, calls>>

(* Mutant: the zero flag is stored whatever the word is by now.            *)
DecrementStore(t) ==
    /\ pc[t] = "cas"
    /\ x' = ZeroFlag
    /\ winners' = winners + 1
    /\ Goto(t, "idle")
    /\ UNCHANGED <<refs, calls>>

(* Mutant: a failed CAS gives up, whatever it found.                       *)
DecrementCasOnly(t) ==
    /\ pc[t] = "cas"
    /\ x' = IF x = 0 THEN ZeroFlag ELSE x
    /\ winners' = IF x = 0 THEN winners + 1 ELSE winners
    /\ Goto(t, "idle")
    /\ UNCHANGED <<refs, calls>>

(* decrement(): compare_exchange_strong(0, zero_flag); when it fails       *)
(* because a load() has set the flags, go and claim the pending flag.      *)
DecrementCas(t) ==
    /\ pc[t] = "cas"
    /\ IF x = 0
         THEN /\ x' = ZeroFlag
              /\ winners' = winners + 1
              /\ Goto(t, "idle")
         ELSE /\ Goto(t, IF IsPending(x) THEN "exchange" ELSE "idle")
              /\ UNCHANGED <<x, winners>>
    /\ UNCHANGED <<refs, calls>>

(* Mutant: the exchange is not asked what it replaced.                     *)
DecrementExchangeBlind(t) ==
    /\ pc[t] = "exchange"
    /\ x' = ZeroFlag
    /\ winners' = winners + 1
    /\ Goto(t, "idle")
    /\ UNCHANGED <<refs, calls>>

(* decrement(): exchange(zero_flag); true when it took the pending flag.   *)
DecrementExchange(t) ==
    /\ pc[t] = "exchange"
    /\ x' = ZeroFlag
    /\ winners' = IF IsPending(x) THEN winners + 1 ELSE winners
    /\ Goto(t, "idle")
    /\ UNCHANGED <<refs, calls>>

-----------------------------------------------------------------------------
(* load(): a word other than 0 is the answer.                              *)
Load(t) ==
    /\ pc[t] = "idle"
    /\ x = 0
    /\ Goto(t, "help")
    /\ UNCHANGED <<x, refs, winners, calls>>

(* load(): having read 0, make it final before answering 0.                *)
LoadHelp(t) ==
    /\ pc[t] = "help"
    /\ x' = IF x = 0 THEN ZeroFlag + PendingFlag ELSE x
    /\ Goto(t, "idle")
    /\ UNCHANGED <<refs, winners, calls>>

Next ==
    \E t \in Threads : \/ Increment(t) \/ DecrementSub(t)
                       \/ DecrementCas(t) \/ DecrementExchange(t)
                       \/ Load(t) \/ LoadHelp(t)

Spec == Init /\ [][Next]_vars

(* A call is wait-free: a thread that has begun one finishes it.           *)
Fairness ==
    \A t \in Threads : WF_vars(DecrementCas(t) \/ DecrementExchange(t) \/ LoadHelp(t))

FairSpec == Spec /\ Fairness

-----------------------------------------------------------------------------
TypeOK ==
    /\ x \in 0 .. Word - 1
    /\ pc \in [Threads -> Steps]
    /\ refs \in Nat
    /\ winners \in Nat
    /\ calls \in Nat

(* Until the zero flag is set the word is the number of references, and    *)
(* it is set over none (no object is disposed of that somebody refers to). *)
CountExact ==
    /\ ~IsZero(x) => x = refs /\ winners = 0
    /\ IsZero(x) => refs = 0

(* One decrement is told that it reached zero, and none before the zero    *)
(* flag is set; as long as none was, some thread is still on its way to    *)
(* the answer, or there is a reference left whose owner will be.           *)
OneWinner ==
    /\ winners \in {0, 1}
    /\ winners = 1 <=> (IsZero(x) /\ ~IsPending(x))
    /\ x = 0 => \E t \in Threads : pc[t] = "cas"
    /\ IsPending(x) => \E t \in Threads : pc[t] \in {"cas", "exchange"}
    /\ \A t \in Threads : pc[t] = "exchange" => IsZero(x)

(* Below the flags there is room for the failed increments.                *)
Room == Count(x) < PendingFlag /\ (~IsZero(x) => x < PendingFlag)

(* The inductive invariant.                                                *)
Inv == TypeOK /\ CountExact /\ OneWinner /\ Room

(* The counter implements a counter that is stuck at zero.                 *)
Sticky == INSTANCE StickyCounter WITH dead <- IsZero(x)
Implements == Sticky!Spec

(* The last reference does not vanish unnoticed: one is taken again before *)
(* the count is final, or some decrement is told to clean up.              *)
LastOneCleansUp == (refs = 0) ~> (refs > 0 \/ winners = 1)
=============================================================================
