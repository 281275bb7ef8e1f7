----------------------------- MODULE MemoryPool -----------------------------
\* samples/contrib/MemoryPool.h: a lock-free stack of free slots.  The head is a
\* pair of a counter and a slot, changed by one compare-exchange; a thread that
\* finds the stack empty adds a block of slots under m_lock.
EXTENDS Integers, FiniteSets

CONSTANTS MpThreads, MpBlockSize,
          MpBlocks,  \* bound: blocks allocated
          MpCalls    \* bound: calls

ASSUME MpAssumption ==
    MpBlockSize \in Nat \ {0} /\ MpBlocks \in Nat /\ "free" \notin MpThreads

VARIABLES mpFree,    \* m_free
          mpNext,    \* next of every slot, 0 if null
          mpBlocks,  \* blocks allocated; the last slot is m_last_slot
          mpLock,    \* the thread in allocate_block(), "free" if none
          mpThread, mpUsed,  \* the slots the callers have
          mpCalls,
          mpMixed    \* history: a block was added while another call was under way

mpVars == <<mpFree, mpNext, mpBlocks, mpLock, mpThread, mpUsed, mpCalls, mpMixed>>

MpSlots == 1 .. MpBlocks * MpBlockSize
MpNull == [aba |-> 0, node |-> 0]
MpIdle == [at |-> "idle", orig |-> MpNull, next |-> 0, slot |-> 0]

MpInit == /\ mpFree = MpNull /\ mpNext = [s \in MpSlots |-> 0] /\ mpBlocks = 0
          /\ mpLock = "free" /\ mpThread = [t \in MpThreads |-> MpIdle]
          /\ mpUsed = {} /\ mpCalls = 0 /\ mpMixed = FALSE

MpGo(t, r) == mpThread' = [mpThread EXCEPT ![t] = r]

\* allocate() begins; a caller destroys an element and deallocate() begins.
MpAllocate(t) ==
    /\ mpThread[t].at = "idle" /\ mpCalls < MpCalls /\ mpCalls' = mpCalls + 1
    /\ MpGo(t, [MpIdle EXCEPT !.at = "look", !.orig = mpFree])
    /\ UNCHANGED <<mpFree, mpNext, mpBlocks, mpLock, mpUsed, mpMixed>>
MpDeallocate(t, s) ==
    /\ mpThread[t].at = "idle" /\ s \in mpUsed /\ mpCalls < MpCalls
    /\ mpCalls' = mpCalls + 1 /\ mpUsed' = mpUsed \ {s}
    /\ MpGo(t, [MpIdle EXCEPT !.at = "link", !.orig = mpFree, !.slot = s])
    /\ UNCHANGED <<mpFree, mpNext, mpBlocks, mpLock, mpMixed>>

\* allocate(): the head is empty, or the slot after it is read.
MpLook(t) ==
    LET me == mpThread[t]
    IN  /\ me.at = "look"
        /\ MpGo(t, IF me.orig.node = 0 THEN [MpIdle EXCEPT !.at = "grow"]
                   ELSE [me EXCEPT !.at = "pop", !.next = mpNext[me.orig.node]])
        /\ UNCHANGED <<mpFree, mpNext, mpBlocks, mpLock, mpUsed, mpCalls, mpMixed>>

\* deallocate(): the slot is linked to the head that was read.
MpLink(t) ==
    LET me == mpThread[t]
    IN  /\ me.at = "link"
        /\ mpNext' = [mpNext EXCEPT ![me.slot] = me.orig.node]
        /\ MpGo(t, [me EXCEPT !.at = "push"])
        /\ UNCHANGED <<mpFree, mpBlocks, mpLock, mpUsed, mpCalls, mpMixed>>

\* Both end in a compare-exchange of the head, and start again when it fails.
MpExchange(t) ==
    LET me == mpThread[t]
        done == mpFree = me.orig
        pop  == me.at = "pop"
    IN  /\ me.at \in {"pop", "push"}
        /\ mpFree' = IF done THEN [aba |-> me.orig.aba + 1,
                                   node |-> IF pop THEN me.next ELSE me.slot] ELSE mpFree
        /\ mpUsed' = IF done /\ pop THEN mpUsed \union {me.orig.node} ELSE mpUsed
        /\ MpGo(t, IF done THEN MpIdle
                   ELSE [me EXCEPT !.orig = mpFree, !.next = 0,
                                   !.at = IF pop THEN "look" ELSE "link"])
        /\ mpMixed' = (mpMixed \/ (done /\ mpLock # "free"))
        /\ UNCHANGED <<mpNext, mpBlocks, mpLock, mpCalls>>

\* allocate_block(): under m_lock, and only if the stack is still empty and the
\* last block is old enough; else allocate() returns null or looks again.
MpLockBlock(t) ==
    /\ mpThread[t].at = "grow" /\ mpLock = "free"
    /\ IF mpFree.node # 0
       THEN /\ MpGo(t, [MpIdle EXCEPT !.at = "look", !.orig = mpFree]) /\ UNCHANGED mpLock
       ELSE \/ /\ mpBlocks < MpBlocks
               /\ mpLock' = t /\ MpGo(t, [MpIdle EXCEPT !.at = "block"])
            \/ /\ mpBlocks > 0 /\ MpGo(t, MpIdle) /\ UNCHANGED mpLock
    /\ UNCHANGED <<mpFree, mpNext, mpBlocks, mpUsed, mpCalls, mpMixed>>

\* The slots are chained, the last slot of the block before is linked to them,
\* the last one to what is in the stack by now, ...
MpFillBlock(t) ==
    LET base == mpBlocks * MpBlockSize
    IN  /\ mpThread[t].at = "block"
        /\ mpNext' = [s \in MpSlots |->
             IF s = base + MpBlockSize THEN mpFree.node
             ELSE IF s >= base /\ s <= base + MpBlockSize THEN s + 1 ELSE mpNext[s]]
        /\ mpBlocks' = mpBlocks + 1
        /\ MpGo(t, [MpIdle EXCEPT !.at = "store"])
        /\ UNCHANGED <<mpFree, mpLock, mpUsed, mpCalls, mpMixed>>

\* ... and the head is overwritten, with a counter of zero.
MpStoreHead(t) ==
    /\ mpThread[t].at = "store"
    /\ mpFree' = [aba |-> 0, node |-> (mpBlocks - 1) * MpBlockSize + 1]
    /\ mpLock' = "free"
    /\ MpGo(t, [MpIdle EXCEPT !.at = "look", !.orig = mpFree'])
    /\ mpMixed' = (mpMixed \/ \E u \in MpThreads \ {t} : mpThread[u].orig.node # 0
                                                         \/ mpThread[u].slot # 0)
    /\ UNCHANGED <<mpNext, mpBlocks, mpUsed, mpCalls>>

MpNextStep ==
    /\ ~mpMixed
    /\ \E t \in MpThreads :
         \/ MpAllocate(t) \/ \E s \in MpSlots : MpDeallocate(t, s)
         \/ MpLook(t) \/ MpLink(t) \/ MpExchange(t) \/ MpLockBlock(t) \/ MpFillBlock(t)
         \/ MpStoreHead(t)

----------------------------------------------------------------------------
\* The slots of the stack, from the head, and the 0 that ends it; MpSlots bounds
\* the walk.
MpChain == LET at[k \in 0 .. Cardinality(MpSlots)] ==
                 IF k = 0 THEN mpFree.node
                 ELSE IF at[k - 1] = 0 THEN 0 ELSE mpNext[at[k - 1]]
           IN  {at[k] : k \in 0 .. Cardinality(MpSlots)}

\* Unless a block was added while another call was under way, every slot is in
\* exactly one place: in the stack, with a caller, or in a call that frees it; the
\* counter protects the compare-exchange although slots come back at any time.
SlotInOnePlace ==
    mpMixed \/ mpLock # "free" \/
      LET held == {mpThread[t].slot : t \in MpThreads} \ {0}
          stack == MpChain \ {0}
      IN  /\ 0 \in MpChain
          /\ stack \intersect mpUsed = {} /\ held \intersect (stack \union mpUsed) = {}
          /\ stack \union mpUsed \union held = 1 .. mpBlocks * MpBlockSize
=============================================================================
