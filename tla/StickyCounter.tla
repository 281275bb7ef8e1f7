--------------------------- MODULE StickyCounter ---------------------------
(***************************************************************************)
(* What a reference counter promises the objects it counts for: references *)
(* come and go until the count is found to be zero, which is final; from   *)
(* then on no reference is given out, and exactly one of the threads that  *)
(* dropped references is told to clean up.                                 *)
(***************************************************************************)
EXTENDS Integers

VARIABLES refs,     \* how many references are held
          dead,     \* the count has been found to be zero
          winners   \* how many decrements were told to clean up

Init ==
    /\ refs = 1
    /\ dead = FALSE
    /\ winners = 0

Acquire ==
    /\ ~dead
    /\ refs' = refs + 1
    /\ UNCHANGED <<dead, winners>>

Release ==
    /\ refs > 0
    /\ refs' = refs - 1
    /\ UNCHANGED <<dead, winners>>

(* Found by the thread that is told so, or by another one.                 *)
Die ==
    /\ refs = 0
    /\ ~dead
    /\ dead' = TRUE
    /\ winners' \in {0, 1}
    /\ UNCHANGED refs

Win ==
    /\ dead
    /\ winners = 0
    /\ winners' = 1
    /\ UNCHANGED <<refs, dead>>

Next == Acquire \/ Release \/ Die \/ Win

Spec == Init /\ [][Next]_<<refs, dead, winners>>
=============================================================================
