------------------------------- MODULE DynMem -------------------------------
(***************************************************************************)
(* The heap of the firmware (os_dmem.c): one pool of blocks, each behind a *)
(* header, in a circular doubly linked list that ends with a trailer which *)
(* is never free.  OS_GetMem searches from dm_search_ptr on (next fit) and *)
(* splits what is too long; OS_FreeMem merges with both neighbours.  Both  *)
(* run with interrupts off, so that no two calls overlap, and a search     *)
(* that did not end would stop the whole chip.                             *)
(***************************************************************************)
EXTENDS Integers, FiniteSetsExt

CONSTANTS
    WORD,               \* sizeof(UNSIGNED)
    DM_OVERHEAD,        \* bytes of a block header
    dm_min_allocation,  \* smallest payload
    dm_pool_size,       \* bytes of the pool
    MaxRequest          \* bound: largest size that is asked for

ASSUME HeapConstants ==
    /\ WORD \in Nat \ {0} /\ MaxRequest \in Nat
    /\ DM_OVERHEAD \in Nat \ {0} /\ DM_OVERHEAD % WORD = 0
    /\ dm_min_allocation \in Nat \ {0} /\ dm_min_allocation % WORD = 0
    /\ dm_pool_size \in Nat \ {0} /\ dm_pool_size % WORD = 0
    /\ dm_pool_size >= 2 * DM_OVERHEAD + dm_min_allocation

Trailer == dm_pool_size - DM_OVERHEAD
Header == {a \in 0..Trailer : a % WORD = 0}

VARIABLES
    dm_next,        \* header -> next header
    dm_previous,    \* header -> previous header
    dm_memory_free, \* the headers of free blocks
    dm_search_ptr,  \* where the next search starts
    dm_available,   \* free bytes
    pc,             \* "idle", or "search" inside OS_GetMem
    size,           \* size searched for, rounded (0 when idle)
    memory_ptr      \* block looked at (0 when idle)

list == <<dm_next, dm_previous>>
call == <<pc, size, memory_ptr>>
vars == <<list, dm_memory_free, dm_search_ptr, dm_available, call>>

\* The blocks are the headers that are linked.
Blocks == DOMAIN dm_next

\* Bytes between the header h and the next one.
FreeSize(h) == dm_next[h] - h - DM_OVERHEAD

\* OS_Create_Memory_Pool: one block and the trailer.
Init ==
    /\ dm_next = [h \in {0, Trailer} |-> IF h = 0 THEN Trailer ELSE 0]
    /\ dm_previous = [h \in {0, Trailer} |-> IF h = 0 THEN Trailer ELSE 0]
    /\ dm_memory_free = {0} /\ dm_search_ptr = 0
    /\ dm_available = dm_pool_size - 2 * DM_OVERHEAD
    /\ pc = "idle" /\ size = 0 /\ memory_ptr = 0
-----------------------------------------------------------------------------
(* OS_GetMem. *)

RoundedSize(n) == IF n < dm_min_allocation THEN dm_min_allocation
                  ELSE ((n + WORD - 1) \div WORD) * WORD

GetMem(n) ==
    /\ pc = "idle"
    /\ pc' = "search" /\ size' = RoundedSize(n)
    /\ memory_ptr' = dm_search_ptr
    /\ UNCHANGED <<list, dm_memory_free, dm_search_ptr, dm_available>>

Fits(h) == h \in dm_memory_free /\ FreeSize(h) >= size

Returns == pc' = "idle" /\ size' = 0 /\ memory_ptr' = 0

\* Faulty variant: the search does not notice that it is back at its start.
SearchOn_NoStop ==
    /\ pc = "search" /\ ~Fits(memory_ptr)
    /\ memory_ptr' = dm_next[memory_ptr]
    /\ UNCHANGED <<list, dm_memory_free, dm_search_ptr, dm_available, pc, size>>

SearchOn ==
    /\ pc = "search" /\ ~Fits(memory_ptr)
    /\ dm_next[memory_ptr] # dm_search_ptr
    /\ memory_ptr' = dm_next[memory_ptr]
    /\ UNCHANGED <<list, dm_memory_free, dm_search_ptr, dm_available, pc, size>>

\* Faulty variant: the search gives up at the end of the pool.
NoMemory_AtTrailer ==
    /\ pc = "search" /\ ~Fits(memory_ptr)
    /\ dm_next[memory_ptr] \in {dm_search_ptr, 0}
    /\ Returns
    /\ UNCHANGED <<list, dm_memory_free, dm_search_ptr, dm_available>>

\* Back at the start: NULL.
NoMemory ==
    /\ pc = "search" /\ ~Fits(memory_ptr)
    /\ dm_next[memory_ptr] = dm_search_ptr
    /\ Returns
    /\ UNCHANGED <<list, dm_memory_free, dm_search_ptr, dm_available>>

\* The search pointer leaves a block that is given out.
LeaveTaken == dm_search_ptr' = IF dm_search_ptr = memory_ptr
                               THEN dm_next'[memory_ptr] ELSE dm_search_ptr

\* Faulty variant: a rest without room for a header is split off.
Splits_TooSmall == FreeSize(memory_ptr) >= size + DM_OVERHEAD

Splits == FreeSize(memory_ptr) >= size + DM_OVERHEAD + dm_min_allocation

\* The block is too long: the rest becomes a free block behind it.
TakePart ==
    /\ pc = "search" /\ Fits(memory_ptr) /\ Splits
    /\ LET new == memory_ptr + size + DM_OVERHEAD
           behind == dm_next[memory_ptr]
       IN  /\ dm_next' = [h \in Blocks \union {new} |->
                            CASE h = new -> behind
                              [] h = memory_ptr -> new
                              [] OTHER -> dm_next[h]]
           /\ dm_previous' = [h \in Blocks \union {new} |->
                                CASE h = new -> memory_ptr
                                  [] h = behind -> new
                                  [] OTHER -> dm_previous[h]]
           /\ dm_memory_free' = (dm_memory_free \ {memory_ptr}) \union {new}
    /\ dm_available' = dm_available - size - DM_OVERHEAD
    /\ LeaveTaken /\ Returns

TakeWhole ==
    /\ pc = "search" /\ Fits(memory_ptr) /\ ~Splits
    /\ UNCHANGED list
    /\ dm_memory_free' = dm_memory_free \ {memory_ptr}
    /\ dm_available' = dm_available - FreeSize(memory_ptr)
    /\ LeaveTaken /\ Returns
-----------------------------------------------------------------------------
(* OS_FreeMem on a block that was given out, and its two merges. *)

\* The list without block h, which becomes part of the one before it.
WithoutBlock(next, previous, h) ==
    LET rest == (DOMAIN next) \ {h} IN
    [next |-> [g \in rest |-> IF g = previous[h] THEN next[h] ELSE next[g]],
     previous |-> [g \in rest |-> IF g = next[h] THEN previous[h]
                                  ELSE previous[g]]]

\* Faulty variant: a merge leaves the search pointer alone.
SearchAfterFree_Kept(start, before, behind) == dm_search_ptr

\* Every merge moves the search pointer to the merged block.
SearchAfterFree(start, before, behind) ==
    IF before \/ behind THEN start ELSE dm_search_ptr

\* Faulty variant: only the neighbour behind is looked at.
MergesBefore_Never(h) == FALSE

MergesBefore(h) == dm_previous[h] \in dm_memory_free
MergesBehind(h) == dm_next[h] \in dm_memory_free

\* Faulty variant: the header won by a merge is not counted.
Regained_NoHeader(h) == FreeSize(h)

\* Bytes that become available: the payload, and a header for every merge.
Regained(h) ==
    FreeSize(h) + (IF MergesBefore(h) THEN DM_OVERHEAD ELSE 0)
                + (IF MergesBehind(h) THEN DM_OVERHEAD ELSE 0)

FreeMem(h) ==
    /\ pc = "idle" /\ h \in Blocks \ (dm_memory_free \union {Trailer})
    /\ LET before == MergesBefore(h)
           behind == MergesBehind(h)
           start == IF before THEN dm_previous[h] ELSE h
           l0 == [next |-> dm_next, previous |-> dm_previous]
           l1 == IF before THEN WithoutBlock(l0.next, l0.previous, h) ELSE l0
           l2 == IF behind THEN WithoutBlock(l1.next, l1.previous, l1.next[start])
                 ELSE l1
       IN  /\ dm_next' = l2.next /\ dm_previous' = l2.previous
           /\ dm_memory_free' = (dm_memory_free \union {h}) \intersect DOMAIN l2.next
           /\ dm_search_ptr' = SearchAfterFree(start, before, behind)
    /\ dm_available' = dm_available + Regained(h)
    /\ UNCHANGED call
-----------------------------------------------------------------------------
Search == SearchOn \/ NoMemory \/ TakePart \/ TakeWhole

Next ==
    \/ \E n \in 0..MaxRequest : GetMem(n)
    \/ Search
    \/ \E h \in Blocks : FreeMem(h)

Spec == Init /\ [][Next]_vars

\* Interrupts are off: the search goes on.
FairSpec == Spec /\ WF_vars(Search)
-----------------------------------------------------------------------------
(* Properties. *)

\* The list and the search use headers of the pool, aligned to words, and
\* the pointers of the pool are linked blocks at every moment.
TypeOK ==
    /\ Blocks \subseteq Header
    /\ dm_next \in [Blocks -> Blocks] /\ dm_previous \in [Blocks -> Blocks]
    /\ dm_memory_free \subseteq Blocks /\ dm_search_ptr \in Blocks
    /\ dm_available \in Int
    /\ pc \in {"idle", "search"} /\ size \in 0..(dm_pool_size + MaxRequest)
    /\ memory_ptr \in Blocks

\* After any sequence of calls the list is the pool: it runs through all
\* blocks in the order of their addresses and back, the two directions
\* agree, between two headers there is room for the smallest block, and free
\* memory is never cut in two: long requests do not fail while their bytes
\* are free side by side.
ListIsThePool ==
    /\ {0, Trailer} \subseteq Blocks /\ Trailer \notin dm_memory_free
    /\ \A h \in Blocks :
         /\ dm_previous[dm_next[h]] = h /\ dm_next[dm_previous[h]] = h
         /\ IF h = Trailer THEN dm_next[h] = 0
            ELSE /\ FreeSize(h) >= dm_min_allocation
                 /\ \A g \in Blocks : ~(h < g /\ g < dm_next[h])
         /\ h \in dm_memory_free => dm_next[h] \notin dm_memory_free

\* The byte count kept by both calls is the sum over the free blocks,
\* whatever was split and merged before.
AvailableIsExact ==
    dm_available = MapThenSumSet(FreeSize, dm_memory_free)

\* A search ends; it would otherwise run for ever with interrupts off.
SearchEnds == pc = "search" ~> pc = "idle"

\* The heap implements the memory pool its callers rely on.
Abstract ==
    INSTANCE MemoryPool WITH
        Pool <- Trailer, Overhead <- DM_OVERHEAD, MinAlloc <- dm_min_allocation,
        Requests <- {RoundedSize(n) : n \in 0..MaxRequest},
        held <- {<<h, dm_next[h]>> : h \in Blocks \ (dm_memory_free \union {Trailer})},
        pending <- size

\* Memory given out is nobody else's and long enough, and an allocation fails
\* only if no stretch of free bytes is long enough: MemoryPool's behaviour.
ImplementsMemoryPool == Abstract!Spec
=============================================================================
