----------------------------- MODULE MCLibrary -----------------------------
\* Seqlock and the smaller components of the library for TLC.  They share no state,
\* so a behaviour exercises one part, chosen at the start, and the others stay as
\* they are.
EXTENDS Seqlock, AtomicHashmap, SharedStorage, AtomicCell, AtomicOptional, Barrier,
        SignalTable, Numbers

VARIABLE part

mcVars == <<part, vars, ahVars, ssVars, acVars, aoVars, brVars, sgVars, nuVars>>

MCInit ==
    /\ part \in {"seqlock", "hashmap", "storage", "cell", "optional", "barrier",
                "signal", "numbers"}
    /\ Init /\ AhInit /\ SsInit /\ AcInit /\ AoInit /\ BrInit /\ SgInit /\ NuInit

SeqPart == part = "seqlock" /\ Next
           /\ UNCHANGED <<part, ahVars, ssVars, acVars, aoVars, brVars, sgVars, nuVars>>
AhPart == part = "hashmap" /\ AhNext
          /\ UNCHANGED <<part, vars, ssVars, acVars, aoVars, brVars, sgVars, nuVars>>
SsPart == part = "storage" /\ SsNext
          /\ UNCHANGED <<part, vars, ahVars, acVars, aoVars, brVars, sgVars, nuVars>>
AcPart == part = "cell" /\ AcNext
          /\ UNCHANGED <<part, vars, ahVars, ssVars, aoVars, brVars, sgVars, nuVars>>
AoPart == part = "optional" /\ AoNext
          /\ UNCHANGED <<part, vars, ahVars, ssVars, acVars, brVars, sgVars, nuVars>>
BrPart == part = "barrier" /\ BrNext
          /\ UNCHANGED <<part, vars, ahVars, ssVars, acVars, aoVars, sgVars, nuVars>>
SgPart == part = "signal" /\ SgNext
          /\ UNCHANGED <<part, vars, ahVars, ssVars, acVars, aoVars, brVars, nuVars>>

NuPart == part = "numbers" /\ NuNext
          /\ UNCHANGED <<part, vars, ahVars, ssVars, acVars, aoVars, brVars, sgVars>>

MCNext == SeqPart \/ AhPart \/ SsPart \/ AcPart \/ AoPart \/ BrPart \/ SgPart \/ NuPart

\* The fairness of Seqlock, and of the threads at a barrier and in the signal table.
MCFairness ==
    /\ WF_vars(part = "seqlock" /\ WriterNext /\ writer.pc # "idle")
    /\ \A r \in Readers :
         WF_vars(part = "seqlock" /\ ReaderNext(r) /\ reader[r].pc # "idle")
    /\ WF_brVars(part = "barrier" /\ BarrierRelease)
    /\ \A t \in BrThreads : WF_brVars(part = "barrier" /\ BrStep(t))
    /\ \A t \in SgThreads : WF_sgVars(part = "signal" /\ SgStep(t))

MCSpec == MCInit /\ [][MCNext]_mcVars /\ MCFairness

MCLevels == <<1, 1>>
MCKeys == {"plain", "reload"}
MCReload == [reload |-> 2]

----------------------------------------------------------------------------
\* The tables and cells of the library hold what was put in last, for every reader,
\* and free what they own once; each conjunct names the overlaps it excludes.
LibrarySafe ==
    /\ part = "hashmap" => CountsExact /\ OwnValue /\ LastSetFound
    /\ part = "storage" => ThreadsAgree /\ ReloadedInTime
    /\ part = "cell" => CellOwnsOne
    /\ part = "optional" => OptionalIsLastStore
    /\ part = "barrier" => NoneLeavesEarly
    /\ part = "signal" => ListsNameHandlers

\* Every load of a Seqlock returns once the writer rests, and nobody stays at a
\* barrier or in the spinlock of the signal table for ever.
LibraryLive == LoadReturns /\ []<>(AllLeave /\ LockReleased)
=============================================================================
