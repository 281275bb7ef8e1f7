------------------------------ MODULE Register ------------------------------
(***************************************************************************)
(* What an atomic cell promises its users: the writer's stores are         *)
(* numbered, a store takes effect at one instant, and a load returns the   *)
(* whole value the cell has at one instant of the call.                    *)
(***************************************************************************)
EXTENDS Integers

CONSTANTS Readers,    \* the threads that call load()
          Words       \* the pieces a value is made of

VARIABLES reg,        \* the number of the last store: the cell's value
          ret         \* each reader's answer, word by word, or Busy

Busy == [w \in Words |-> -1]
Whole(n) == [w \in Words |-> n]

Init ==
    /\ reg = 0
    /\ ret = [r \in Readers |-> Whole(0)]

Store ==
    /\ reg' = reg + 1
    /\ UNCHANGED ret

Call(r) ==
    /\ ret' = [ret EXCEPT ![r] = Busy]
    /\ UNCHANGED reg

Load(r) ==
    /\ ret[r] = Busy
    /\ ret' = [ret EXCEPT ![r] = Whole(reg)]
    /\ UNCHANGED reg

Next ==
    \/ Store
    \/ \E r \in Readers : Call(r) \/ Load(r)

Spec == Init /\ [][Next]_<<reg, ret>>
=============================================================================
