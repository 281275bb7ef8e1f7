--------------------------- MODULE PoolAllocator ---------------------------
\* pool_allocator of samples/io_service.h: a lock-free free list of chunks whose
\* head carries a tag, refilled a block at a time under M_block_allocating.  A
\* chunk in use holds the object in the bytes of its M_next, so a thread that
\* reads M_next of a chunk allocated meanwhile reads PaJunk.
EXTENDS Integers, FiniteSets

CONSTANTS PaThreads,    \* the threads that allocate and deallocate
          PaBlockSize,  \* chunks of a block
          PaBlocks,     \* bound: number of blocks
          PaOps         \* bound: number of completed changes of the head

ASSUME PaAssumption == PaBlockSize \in Nat \ {0} /\ PaBlocks \in Nat \ {0}

VARIABLES paHead,        \* M_allocator_head: M_ptr and M_tag
          paNext,        \* M_next of every chunk
          paBlocks,      \* number of blocks in M_allocated_blocks
          paAllocating,  \* M_block_allocating
          paOwned,       \* the chunks each thread holds
          paThread       \* step, head loaded, chunk and successor of a thread

paVars == <<paHead, paNext, paBlocks, paAllocating, paOwned, paThread>>

PaNull == 0
PaJunk == -1
PaChunks == 1 .. PaBlockSize * PaBlocks
PaBlock(b) == (b - 1) * PaBlockSize + 1 .. b * PaBlockSize
PaIdle == [at |-> "idle", head |-> [ptr |-> PaNull, tag |-> 0],
           chunk |-> PaNull, next |-> PaNull]

\* Mutant: the tag is not compared.
SamePointer(h) == paHead.ptr = h.ptr

\* compare_exchange of M_allocator_head finds pointer and tag unchanged.
SameHead(h) == paHead = h

PaGo(t, r) == paThread' = [paThread EXCEPT ![t] = r]

\* The chunks of block b linked to each other, the last one to p.
Linked(b, p) ==
    [c \in PaChunks |-> IF c \notin PaBlock(b) THEN paNext[c]
                        ELSE IF c = b * PaBlockSize THEN p ELSE c + 1]

\* The constructor: one block on the list, tag 1.
PaInit ==
    /\ paHead = [ptr |-> 1, tag |-> 1] /\ paBlocks = 1 /\ paAllocating = FALSE
    /\ paNext = [c \in PaChunks |-> IF c < PaBlockSize THEN c + 1 ELSE PaNull]
    /\ paOwned = [t \in PaThreads |-> {}]
    /\ paThread = [t \in PaThreads |-> PaIdle]

\* allocate(): the head is loaded.
AllocateLoad(t) ==
    /\ paThread[t].at \in {"idle", "reload"} /\ paHead.tag < PaOps
    /\ PaGo(t, [PaIdle EXCEPT !.at = IF paHead.ptr = PaNull THEN "refill"
                                     ELSE "next",
                              !.head = paHead])
    /\ UNCHANGED <<paHead, paNext, paBlocks, paAllocating, paOwned>>

\* allocate(): M_next of the chunk at the head that was loaded.
AllocateNext(t) ==
    /\ paThread[t].at = "next"
    /\ PaGo(t, [paThread[t] EXCEPT !.at = "take",
                                   !.next = paNext[paThread[t].head.ptr]])
    /\ UNCHANGED <<paHead, paNext, paBlocks, paAllocating, paOwned>>

\* allocate(): compare_exchange of pointer and tag; on failure the loop goes on
\* with the head found.  The new object overwrites M_next.
AllocateTake(t) ==
    LET me == paThread[t]
    IN  /\ me.at = "take"
        /\ IF SameHead(me.head)
           THEN /\ paHead' = [ptr |-> me.next, tag |-> me.head.tag + 1]
                /\ paOwned' = [paOwned EXCEPT ![t] = @ \cup {me.head.ptr}]
                /\ paNext' = [paNext EXCEPT ![me.head.ptr] = PaJunk]
                /\ PaGo(t, PaIdle)
           ELSE /\ PaGo(t, [PaIdle EXCEPT
                              !.at = IF paHead.ptr = PaNull THEN "refill"
                                     ELSE "next",
                              !.head = paHead])
                /\ UNCHANGED <<paHead, paOwned, paNext>>
        /\ UNCHANGED <<paBlocks, paAllocating>>

\* allocate_block(): whoever sets M_block_allocating makes the block; the others
\* return and load the head again.
BlockBegin(t) ==
    /\ paThread[t].at = "refill"
    /\ IF paAllocating
       THEN PaGo(t, [PaIdle EXCEPT !.at = "reload"]) /\ UNCHANGED paBlocks
       ELSE /\ paBlocks < PaBlocks
            /\ paBlocks' = paBlocks + 1
            /\ PaGo(t, [PaIdle EXCEPT !.at = "link", !.head = paHead,
                                      !.chunk = paBlocks + 1])
    /\ paAllocating' = TRUE
    /\ UNCHANGED <<paHead, paNext, paOwned>>

\* allocate_block(): the last chunk is linked to the head loaded before, and the
\* head is exchanged if it is still that one.
BlockLink(t) ==
    LET me == paThread[t]
    IN  /\ me.at = "link"
        /\ paNext' = Linked(me.chunk, me.head.ptr)
        /\ IF SameHead(me.head)
           THEN /\ paHead' = [ptr |-> (me.chunk - 1) * PaBlockSize + 1,
                              tag |-> me.head.tag + 1]
                /\ PaGo(t, [PaIdle EXCEPT !.at = "linked"])
           ELSE PaGo(t, [me EXCEPT !.head = paHead]) /\ UNCHANGED paHead
        /\ UNCHANGED <<paBlocks, paAllocating, paOwned>>

\* allocate_block(): M_block_allocating.store(false).
BlockEnd(t) ==
    /\ paThread[t].at = "linked"
    /\ paAllocating' = FALSE
    /\ PaGo(t, [PaIdle EXCEPT !.at = "reload"])
    /\ UNCHANGED <<paHead, paNext, paBlocks, paOwned>>

\* deallocate(): the object is destroyed and the head loaded.
DeallocateLoad(t, c) ==
    /\ paThread[t].at = "idle" /\ c \in paOwned[t] /\ paHead.tag < PaOps
    /\ paOwned' = [paOwned EXCEPT ![t] = @ \ {c}]
    /\ PaGo(t, [PaIdle EXCEPT !.at = "put", !.head = paHead, !.chunk = c])
    /\ UNCHANGED <<paHead, paNext, paBlocks, paAllocating>>

\* deallocate(): M_next is written, and the head exchanged.
DeallocatePut(t) ==
    LET me == paThread[t]
    IN  /\ me.at = "put"
        /\ paNext' = [paNext EXCEPT ![me.chunk] = me.head.ptr]
        /\ IF SameHead(me.head)
           THEN /\ paHead' = [ptr |-> me.chunk, tag |-> me.head.tag + 1]
                /\ PaGo(t, PaIdle)
           ELSE PaGo(t, [me EXCEPT !.head = paHead]) /\ UNCHANGED paHead
        /\ UNCHANGED <<paBlocks, paAllocating, paOwned>>

PaNextStep ==
    \E t \in PaThreads :
        \/ AllocateLoad(t) \/ AllocateNext(t) \/ AllocateTake(t)
        \/ BlockBegin(t) \/ BlockLink(t) \/ BlockEnd(t)
        \/ DeallocatePut(t)
        \/ \E c \in PaChunks : DeallocateLoad(t, c)

PaSpec == PaInit /\ [][PaNextStep]_paVars

----------------------------------------------------------------------------
\* The chunks on the free list: the first n links from the head.
ListPrefix(n) ==
    LET at[k \in 0 .. n] ==
            IF k = 0 THEN paHead.ptr
            ELSE IF at[k - 1] \in PaChunks THEN paNext[at[k - 1]] ELSE PaNull
    IN  {at[k] : k \in 0 .. n} \ {PaNull}

FreeChunks == ListPrefix(Cardinality(PaChunks))

\* The chunks a thread is about to put on the list.
Carried(t) ==
    CASE paThread[t].at = "put" -> {paThread[t].chunk}
      [] paThread[t].at = "link" -> PaBlock(paThread[t].chunk)
      [] OTHER -> {}

\* Every chunk of every block is in exactly one place: on the free list, held
\* by one thread, or carried by one thread that is putting it on the list.  The
\* tag is what makes it so: a stale head is never exchanged, although M_next
\* was read from a chunk that may have been allocated and freed since.
EachChunkInOnePlace ==
    /\ FreeChunks \subseteq PaChunks
    /\ \A t \in PaThreads :
          /\ (paOwned[t] \cup Carried(t)) \cap FreeChunks = {}
          /\ paOwned[t] \cap Carried(t) = {}
          /\ \A u \in PaThreads \ {t} :
                (paOwned[t] \cup Carried(t)) \cap
                (paOwned[u] \cup Carried(u)) = {}
    /\ FreeChunks \cup UNION {paOwned[t] \cup Carried(t) : t \in PaThreads}
         = 1 .. paBlocks * PaBlockSize
=============================================================================
