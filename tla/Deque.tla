------------------------------- MODULE Deque -------------------------------
(***************************************************************************)
(* What a work-stealing queue promises, independently of any array or      *)
(* counter: one owner pushes and pops at the back, any number of thieves   *)
(* take from the front, and every operation takes effect at one instant    *)
(* between its call and its return.                                        *)
(*                                                                         *)
(* pop() answers "empty" only at an instant at which the deque is empty.   *)
(* steal() may fail for no reason (its comment says so).                   *)
(***************************************************************************)
EXTENDS Integers, Sequences

CONSTANTS Owner,      \* the thread that pushes and pops
          Thieves     \* the threads that steal

VARIABLES deque,      \* the items, oldest first
          pushes,     \* how many items were ever pushed: item n is the n-th
          ret         \* each thread's last answer: an item, Nothing, or Busy

dvars == <<deque, pushes, ret>>

Nothing == 0          \* std::nullopt: items are numbered from 1
Busy == -1            \* the call has not answered yet

Init ==
    /\ deque = <<>>
    /\ pushes = 0
    /\ ret = [p \in {Owner} \cup Thieves |-> Nothing]

Push ==
    /\ pushes' = pushes + 1
    /\ deque' = Append(deque, pushes + 1)
    /\ UNCHANGED ret

Call(p) ==
    /\ ret' = [ret EXCEPT ![p] = Busy]
    /\ UNCHANGED <<deque, pushes>>

PopBack ==
    /\ deque # <<>>
    /\ ret[Owner] = Busy
    /\ ret' = [ret EXCEPT ![Owner] = deque[Len(deque)]]
    /\ deque' = SubSeq(deque, 1, Len(deque) - 1)
    /\ UNCHANGED pushes

PopEmpty ==
    /\ deque = <<>>
    /\ ret[Owner] = Busy
    /\ ret' = [ret EXCEPT ![Owner] = Nothing]
    /\ UNCHANGED <<deque, pushes>>

StealFront(p) ==
    /\ deque # <<>>
    /\ ret[p] = Busy
    /\ ret' = [ret EXCEPT ![p] = Head(deque)]
    /\ deque' = Tail(deque)
    /\ UNCHANGED pushes

StealFail(p) ==
    /\ ret[p] = Busy
    /\ ret' = [ret EXCEPT ![p] = Nothing]
    /\ UNCHANGED <<deque, pushes>>

Next ==
    \/ Push
    \/ Call(Owner)
    \/ PopBack
    \/ PopEmpty
    \/ \E p \in Thieves : Call(p) \/ StealFront(p) \/ StealFail(p)

Spec == Init /\ [][Next]_dvars
=============================================================================
