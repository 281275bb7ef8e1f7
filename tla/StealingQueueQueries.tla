------------------------ MODULE StealingQueueQueries ------------------------
(***************************************************************************)
(* empty() and size() of godby/StealingQueue.h, asked by threads that are  *)
(* neither the owner nor a thief, while the queue works.  Both load        *)
(* M_bottom first and M_top after it.  Each observer asks once, at any     *)
(* time.                                                                   *)
(***************************************************************************)
EXTENDS StealingQueue

CONSTANT Observers      \* the threads that ask empty() or size()

VARIABLES obs,          \* each observer's program counter and loaded values
          first         \* history: how many items there were when M_bottom
                        \* was loaded

qvars == <<vars, obs, first>>

QInit ==
    /\ Init
    /\ obs = [p \in Observers |-> [pc |-> "idle", b |-> 0, t |-> 0]]
    /\ first = [p \in Observers |-> 0]

(* The items in the queue that no pop() has claimed.                       *)
held == IF bottom > top THEN bottom - top ELSE 0

LoadBottom(p) ==
    /\ obs[p].pc = "idle"
    /\ obs' = [obs EXCEPT ![p] = [pc |-> "top", b |-> bottom, t |-> 0]]
    /\ first' = [first EXCEPT ![p] = held]
    /\ UNCHANGED vars

(* Mutant: M_bottom is loaded again together with M_top.                   *)
LoadTopBottomAgain(p) ==
    /\ obs[p].pc = "top"
    /\ obs' = [obs EXCEPT ![p] = [pc |-> "done", b |-> bottom, t |-> top]]
    /\ UNCHANGED <<vars, first>>

LoadTop(p) ==
    /\ obs[p].pc = "top"
    /\ obs' = [obs EXCEPT ![p].pc = "done", ![p].t = top]
    /\ UNCHANGED <<vars, first>>

empty(p) == obs[p].b <= obs[p].t
size(p) == IF obs[p].b >= obs[p].t THEN obs[p].b - obs[p].t ELSE 0

QNext ==
    \/ Next /\ UNCHANGED <<obs, first>>
    \/ \E p \in Observers : LoadBottom(p) \/ LoadTop(p)

QSpec == QInit /\ [][QNext]_qvars /\ Fairness

-----------------------------------------------------------------------------
(* size() never promises more than the queue held when the call began, and *)
(* empty() answers false only if the queue held an item then: M_top is     *)
(* loaded after M_bottom and never moves back.                             *)
NeverOverstates ==
    \A p \in Observers :
        obs[p].pc = "done" =>
            /\ size(p) <= first[p]
            /\ ~empty(p) => first[p] > 0
=============================================================================
