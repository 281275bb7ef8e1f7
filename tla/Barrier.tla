------------------------------ MODULE Barrier ------------------------------
\* Barrier.h: wait() counts a thread in and spins until the counter is zero, and
\* release() spins until all have come and clears the counter.
EXTENDS Integers, FiniteSets

CONSTANT BrThreads

ASSUME BrAssumption == IsFiniteSet(BrThreads)

VARIABLES brCounter, brAt, brReleased

brVars == <<brCounter, brAt, brReleased>>

BrInit == brCounter = 0 /\ brAt = [t \in BrThreads |-> "new"] /\ brReleased = FALSE

BarrierEnter(t) == /\ brAt[t] = "new" /\ brCounter' = brCounter + 1
                   /\ brAt' = [brAt EXCEPT ![t] = "spin"] /\ UNCHANGED brReleased

BarrierLeave(t) == /\ brAt[t] = "spin" /\ brCounter = 0
                   /\ brAt' = [brAt EXCEPT ![t] = "left"]
                   /\ UNCHANGED <<brCounter, brReleased>>

\* As BarrierRelease, when release() takes itself off the counter.
BarrierReleaseSubtracts ==
    /\ brCounter = Cardinality(BrThreads) /\ ~brReleased
    /\ brCounter' = brCounter - 1 /\ brReleased' = TRUE /\ UNCHANGED brAt

BarrierRelease == /\ brCounter = Cardinality(BrThreads) /\ ~brReleased
                  /\ brCounter' = 0 /\ brReleased' = TRUE /\ UNCHANGED brAt

BrStep(t) == BarrierEnter(t) \/ BarrierLeave(t)
BrNext == BarrierRelease \/ \E t \in BrThreads : BrStep(t)

BrSpec == BrInit /\ [][BrNext]_brVars

----------------------------------------------------------------------------
\* No thread leaves before all have come; used once, as in the tests.
NoneLeavesEarly == (\E t \in BrThreads : brAt[t] = "left") =>
                     \A t \in BrThreads : brAt[t] # "new"

\* Reached again and again: if all have come, all have left.  (In a second round a
\* thread that has not seen the zero of the first one is not counted again, and
\* release() waits for it for ever.)
AllLeave == (\E t \in BrThreads : brAt[t] = "new") \/ \A t \in BrThreads : brAt[t] = "left"
=============================================================================
