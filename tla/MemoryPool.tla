----------------------------- MODULE MemoryPool -----------------------------
(***************************************************************************)
(* What the callers of OSMMalloc and OSMFree rely on: an allocation gives  *)
(* out a stretch of the pool that nobody holds, long enough and without    *)
(* much waste; it fails only if no stretch is long enough; and nothing but *)
(* a release takes memory away.  How blocks are found, split and merged is *)
(* left to DynMem.                                                         *)
(***************************************************************************)
EXTENDS Integers

CONSTANTS
    Pool,      \* bytes of the pool that can be given out, headers included
    Overhead,  \* bytes each block takes for its header
    MinAlloc,  \* smallest payload of a block
    Requests   \* sizes that are asked for, rounded

VARIABLES
    held,    \* blocks given out: <<first byte, first byte behind it>>
    pending  \* size of the request in progress, 0 if none

Disjoint(a, b, c, d) == b <= c \/ d <= a

\* Nobody holds a byte of a..b-1.
Unused(a, b) == \A h \in held : Disjoint(a, b, h[1], h[2])

Init == held = {} /\ pending = 0

Ask(n) == pending = 0 /\ pending' = n /\ UNCHANGED held

Grant(a, b) ==
    /\ pending # 0 /\ 0 <= a /\ b <= Pool
    /\ b - a - Overhead >= pending                       \* long enough
    /\ b - a - Overhead < pending + Overhead + MinAlloc  \* no waste
    /\ Unused(a, b)
    /\ held' = held \union {<<a, b>>} /\ pending' = 0

Refuse ==
    /\ pending # 0
    /\ \A a \in 0..Pool : a + pending + Overhead <= Pool
                            => ~Unused(a, a + pending + Overhead)
    /\ pending' = 0 /\ UNCHANGED held

Release(h) == pending = 0 /\ held' = held \ {h} /\ UNCHANGED pending

Next ==
    \/ \E n \in Requests : Ask(n)
    \/ \E a, b \in 0..Pool : Grant(a, b)
    \/ Refuse
    \/ \E h \in held : Release(h)

Spec == Init /\ [][Next]_<<held, pending>>
=============================================================================
