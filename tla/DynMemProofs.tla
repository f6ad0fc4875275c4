---------------------------- MODULE DynMemProofs ----------------------------
(***************************************************************************)
(* The heap keeps its list, and implements MemoryPool, for every pool,     *)
(* header and word size.                                                   *)
(***************************************************************************)
EXTENDS DynMem, SetSums, TLAPS

\* A list of headers that is the whole pool, in both directions.
InOrder(next, h) ==
    /\ next[h] - h - DM_OVERHEAD >= dm_min_allocation
    /\ \A g \in DOMAIN next : ~(h < g /\ g < next[h])

Links(next, previous) ==
    /\ DOMAIN next \subseteq Header /\ {0, Trailer} \subseteq DOMAIN next
    /\ next \in [DOMAIN next -> DOMAIN next]
    /\ previous \in [DOMAIN next -> DOMAIN next]
    /\ \A h \in DOMAIN next : previous[next[h]] = h /\ next[previous[h]] = h
    /\ next[Trailer] = 0
    /\ \A h \in DOMAIN next \ {Trailer} : InOrder(next, h)

\* Every byte before the trailer is in a block.
Covers(next) == \A a \in 0..(Trailer - 1) :
                    \E h \in DOMAIN next : h <= a /\ a < next[h]

\* No two free blocks are neighbours.
Merged == \A h \in dm_memory_free : dm_next[h] \notin dm_memory_free

Pointers ==
    /\ dm_memory_free \subseteq Blocks \ {Trailer}
    /\ dm_search_ptr \in Blocks /\ memory_ptr \in Blocks
    /\ dm_available \in Int /\ size \in 0..(dm_pool_size + MaxRequest)

CallOK ==
    \/ pc = "idle" /\ size = 0 /\ memory_ptr = 0
    \/ pc = "search" /\ size >= dm_min_allocation /\ size % WORD = 0

\* The blocks from the search pointer up to the one that is looked at.
Passed(h) ==
    IF dm_search_ptr <= memory_ptr
    THEN dm_search_ptr <= h /\ h < memory_ptr
    ELSE dm_search_ptr <= h \/ h < memory_ptr

Searched == pc = "search" => \A h \in Blocks : Passed(h) => ~Fits(h)

HeapInv ==
    /\ Links(dm_next, dm_previous) /\ Covers(dm_next)
    /\ Merged /\ Pointers /\ CallOK /\ Searched
-----------------------------------------------------------------------------
(* Arithmetic. *)

\* Sums and differences of aligned addresses are aligned.
LEMMA Aligned ==
    ASSUME NEW w \in Nat \ {0}, NEW x \in Int, NEW y \in Int,
           x % w = 0, y % w = 0
    PROVE  (x + y) % w = 0 /\ (x - y) % w = 0
<1>1. PICK i \in Int : x = w * i
  BY SMT
<1>2. PICK j \in Int : y = w * j
  BY SMT
<1>3. x + y = w * (i + j) /\ x - y = w * (i - j)
  BY <1>1, <1>2, SMT
<1>4. \A k \in Int : (w * k) % w = 0
  BY SMT
<1> QED
  BY <1>3, <1>4, SMT

\* Division with remainder.
LEMMA DivMod ==
    ASSUME NEW w \in Nat \ {0}, NEW y \in Nat
    PROVE  /\ y \div w \in Nat /\ y % w \in 0..(w - 1)
           /\ y = w * (y \div w) + (y % w)
<1>1. y % w \in 0..(w - 1)
  BY SMT
<1>2. y = w * (y \div w) + (y % w)
  BY SMT
<1>3. y \div w \in Nat
  BY SMT
<1> QED
  BY <1>1, <1>2, <1>3

\* Rounding up to words adds less than a word.
LEMMA RoundUp ==
    ASSUME NEW w \in Nat \ {0}, NEW x \in Nat, NEW r, r = ((x + w - 1) \div w) * w
    PROVE  r \in Nat /\ r % w = 0 /\ x <= r /\ r < x + w
<1> DEFINE y == x + w - 1
           q == y \div w
<1>1. y \in Nat
  OBVIOUS
<1>2. q \in Nat /\ y = w * q + (y % w) /\ y % w \in 0..(w - 1)
  <2> HIDE DEF y
  <2> QED
    BY <1>1, DivMod
<1>3. r = w * q
  <2> HIDE DEF q
  <2>1. r = q * w
    BY DEF q
  <2> QED
    BY <1>2, <2>1
<1>4. (w * q) % w = 0
  <2>1. \A k \in Int : (w * k) % w = 0
    BY SMT
  <2>2. q \in Int
    BY <1>2
  <2> HIDE DEF q
  <2> QED
    BY <2>1, <2>2
<1>5. r \in Nat
  BY <1>2, <1>3, SMT
<1> HIDE DEF q
<1> QED
  BY <1>2, <1>3, <1>4, <1>5, SMT

LEMMA TrailerFacts ==
    /\ Trailer \in Nat /\ 0 < Trailer
    /\ Trailer >= DM_OVERHEAD + dm_min_allocation
    /\ 0 \in Header /\ Trailer \in Header
<1>1. Trailer \in Nat /\ Trailer >= DM_OVERHEAD + dm_min_allocation
  BY HeapConstants DEF Trailer
<1>2. Trailer % WORD = 0
  <2>1. WORD \in Nat \ {0} /\ dm_pool_size \in Int /\ DM_OVERHEAD \in Int
        /\ dm_pool_size % WORD = 0 /\ DM_OVERHEAD % WORD = 0
    BY HeapConstants
  <2>2. (dm_pool_size - DM_OVERHEAD) % WORD = 0
    BY <2>1, Aligned
  <2> QED
    BY <2>2 DEF Trailer
<1>3. 0 % WORD = 0
  BY HeapConstants
<1> QED
  BY <1>1, <1>2, <1>3, HeapConstants DEF Header

\* A request is rounded to words, at least to the smallest block.
LEMMA RoundedFacts ==
    ASSUME NEW n \in 0..MaxRequest
    PROVE  /\ RoundedSize(n) \in 0..(dm_pool_size + MaxRequest)
           /\ RoundedSize(n) >= dm_min_allocation
           /\ RoundedSize(n) % WORD = 0
<1>1. CASE n < dm_min_allocation
  BY <1>1, HeapConstants DEF RoundedSize
<1>2. CASE ~(n < dm_min_allocation)
  <2> DEFINE r == ((n + WORD - 1) \div WORD) * WORD
  <2>1. r \in Nat /\ r % WORD = 0 /\ n <= r /\ r < n + WORD
    <3>1. WORD \in Nat \ {0} /\ n \in Nat
      BY HeapConstants
    <3> QED
      BY <3>1, RoundUp
  <2>2. RoundedSize(n) = r
    BY <1>2 DEF RoundedSize
  <2>3. WORD <= dm_pool_size
    BY HeapConstants, SMT
  <2> HIDE DEF r
  <2> QED
    BY <1>2, <2>1, <2>2, <2>3, HeapConstants
<1> QED
  BY <1>1, <1>2
-----------------------------------------------------------------------------
(* Lists of headers. *)

\* Where a list leads, and that blocks do not overlap.
LEMMA LinkFacts ==
    ASSUME NEW next, NEW previous, Links(next, previous)
    PROVE  /\ \A h \in DOMAIN next : h \in 0..Trailer /\ h \in Int
           /\ \A h \in DOMAIN next : next[h] \in DOMAIN next /\ previous[h] \in DOMAIN next
           /\ \A h \in DOMAIN next \ {Trailer} :
                /\ next[h] >= h + DM_OVERHEAD + dm_min_allocation
                /\ next[h] > h
                /\ \A g \in DOMAIN next : g <= h \/ next[h] <= g
           /\ \A h \in DOMAIN next \ {0} : previous[h] # Trailer
           /\ previous[0] = Trailer
<1>1. \A h \in DOMAIN next : h \in 0..Trailer /\ h \in Int
  BY TrailerFacts DEF Links, Header
<1>2. \A h \in DOMAIN next : next[h] \in DOMAIN next /\ previous[h] \in DOMAIN next
  BY DEF Links
<1>3. ASSUME NEW h \in DOMAIN next \ {Trailer}
      PROVE  /\ next[h] >= h + DM_OVERHEAD + dm_min_allocation
             /\ next[h] > h
             /\ \A g \in DOMAIN next : g <= h \/ next[h] <= g
  <2>1. InOrder(next, h)
    BY DEF Links
  <2>2. h \in Int /\ next[h] \in Int
    BY <1>1, <1>2
  <2>3. next[h] >= h + DM_OVERHEAD + dm_min_allocation /\ next[h] > h
    BY <2>1, <2>2, HeapConstants DEF InOrder
  <2>4. ASSUME NEW g \in DOMAIN next PROVE g <= h \/ next[h] <= g
    BY <2>1, <2>2, <1>1 DEF InOrder
  <2> QED
    BY <2>3, <2>4
<1>4. \A h \in DOMAIN next \ {0} : previous[h] # Trailer
  BY <1>2 DEF Links
<1>5. previous[0] = Trailer
  BY DEF Links
<1> QED
  BY <1>1, <1>2, <1>3, <1>4, <1>5

\* A header inside a block makes two of it.
LEMMA Insertion ==
    ASSUME NEW next, NEW previous, Links(next, previous), Covers(next),
           NEW m \in DOMAIN next \ {Trailer}, NEW new \in Header,
           new - m - DM_OVERHEAD >= dm_min_allocation,
           next[m] - new - DM_OVERHEAD >= dm_min_allocation,
           NEW next2, NEW previous2,
           next2 = [h \in DOMAIN next \union {new} |->
                      CASE h = new -> next[m] [] h = m -> new [] OTHER -> next[h]],
           previous2 = [h \in DOMAIN next \union {new} |->
                      CASE h = new -> m [] h = next[m] -> new [] OTHER -> previous[h]]
    PROVE  /\ Links(next2, previous2) /\ Covers(next2)
           /\ new \notin DOMAIN next /\ m < new /\ new < next[m]
<1> DEFINE D == DOMAIN next
<1>1. /\ \A h \in D : h \in 0..Trailer /\ h \in Int
      /\ \A h \in D : next[h] \in D /\ previous[h] \in D
      /\ \A h \in D \ {Trailer} :
           next[h] > h /\ \A g \in D : g <= h \/ next[h] <= g
  BY LinkFacts
<1>2. new \in Int /\ m < new /\ new < next[m] /\ new # Trailer
  BY <1>1, HeapConstants, TrailerFacts DEF Header
<1>3. new \notin D
  BY <1>1, <1>2
<1>4. DOMAIN next2 = D \union {new} /\ D \subseteq Header
  BY DEF Links
<1>5. /\ next2[new] = next[m] /\ next2[m] = new
      /\ \A h \in D \ {m} : next2[h] = next[h]
  BY <1>3
<1>6. /\ previous2[new] = m /\ previous2[next[m]] = new
      /\ \A h \in D \ {next[m]} : previous2[h] = previous[h]
  BY <1>1, <1>2, <1>3
<1>7. \A h \in D : previous[next[h]] = h /\ next[previous[h]] = h
  BY DEF Links
<1>8. \A h \in D \union {new} :
        /\ next2[h] \in D \union {new} /\ previous2[h] \in D \union {new}
        /\ previous2[next2[h]] = h /\ next2[previous2[h]] = h
  <2>1. ASSUME NEW h \in D, h # m
        PROVE  next2[h] \in D /\ next2[h] # next[m] /\ previous2[next2[h]] = h
    BY <2>1, <1>1, <1>5, <1>6, <1>7
  <2>2. ASSUME NEW h \in D, h # next[m]
        PROVE  previous2[h] \in D /\ previous2[h] # m /\ next2[previous2[h]] = h
    BY <2>2, <1>1, <1>5, <1>6, <1>7
  <2> QED
    BY <2>1, <2>2, <1>1, <1>5, <1>6
<1>9. next2[Trailer] = 0
  BY <1>5, TrailerFacts DEF Links
<1>10. ASSUME NEW h \in (D \union {new}) \ {Trailer}
       PROVE  InOrder(next2, h)
  <2>1. CASE h = new
    BY <2>1, <1>1, <1>2, <1>4, <1>5 DEF InOrder
  <2>2. CASE h = m
    BY <2>2, <1>1, <1>2, <1>4, <1>5 DEF InOrder
  <2>3. CASE h # new /\ h # m
    <3>1. h \in D \ {Trailer} /\ next2[h] = next[h] /\ InOrder(next, h)
      BY <2>3, <1>5 DEF Links
    <3>2. ~(h < new /\ new < next[h])
      <4>1. h \in Int /\ m \in Int /\ next[h] \in Int /\ next[m] \in Int
        BY <3>1, <1>1
      <4>2. m <= h \/ next[h] <= m
        BY <3>1, <1>1
      <4>3. h <= m \/ next[m] <= h
        BY <3>1, <1>1
      <4> QED
        BY <2>3, <4>1, <4>2, <4>3, <1>2
    <3> QED
      BY <3>1, <3>2, <1>4 DEF InOrder
  <2> QED
    BY <2>1, <2>2, <2>3
<1>11. Links(next2, previous2)
  <2>1. next2 \in [D \union {new} -> D \union {new}]
        /\ previous2 \in [D \union {new} -> D \union {new}]
    BY <1>8
  <2> QED
    <3>1. DOMAIN next2 \subseteq Header /\ {0, Trailer} \subseteq DOMAIN next2
      BY <1>4 DEF Links
    <3>2. /\ next2 \in [DOMAIN next2 -> DOMAIN next2]
          /\ previous2 \in [DOMAIN next2 -> DOMAIN next2]
      BY <2>1, <1>4
    <3>3. \A h \in DOMAIN next2 : previous2[next2[h]] = h /\ next2[previous2[h]] = h
      BY <1>4, <1>8
    <3>4. \A h \in DOMAIN next2 \ {Trailer} : InOrder(next2, h)
      BY <1>4, <1>10
    <3> QED
      BY <3>1, <3>2, <3>3, <3>4, <1>9 DEF Links
<1>12. Covers(next2)
  <2> SUFFICES ASSUME NEW a \in 0..(Trailer - 1)
               PROVE  \E h \in D \union {new} : h <= a /\ a < next2[h]
    BY <1>4 DEF Covers
  <2>1. PICK h \in D : h <= a /\ a < next[h]
    BY DEF Covers
  <2>2. CASE h # m
    BY <2>1, <2>2, <1>5
  <2>3. CASE h = m
    BY <2>1, <2>3, <1>1, <1>2, <1>5, TrailerFacts
  <2> QED
    BY <2>2, <2>3
<1> QED
  BY <1>2, <1>3, <1>11, <1>12

\* A block that is not the first can be joined to the one before it.
LEMMA Removal ==
    ASSUME NEW next, NEW previous, Links(next, previous), Covers(next),
           NEW m \in DOMAIN next \ {0, Trailer},
           NEW l, l = WithoutBlock(next, previous, m)
    PROVE  /\ Links(l.next, l.previous) /\ Covers(l.next)
           /\ DOMAIN l.next = DOMAIN next \ {m}
           /\ previous[m] \in DOMAIN next \ {m, Trailer}
           /\ l.next[previous[m]] = next[m]
           /\ \A g \in DOMAIN next \ {m, previous[m]} : l.next[g] = next[g]
<1> DEFINE D == DOMAIN next
           E == D \ {m}
           p == previous[m]
           n == next[m]
<1>1. /\ \A h \in D : h \in 0..Trailer /\ h \in Int
      /\ \A h \in D : next[h] \in D /\ previous[h] \in D
      /\ \A h \in D \ {Trailer} :
           /\ next[h] >= h + DM_OVERHEAD + dm_min_allocation /\ next[h] > h
           /\ \A g \in D : g <= h \/ next[h] <= g
      /\ \A h \in D \ {0} : previous[h] # Trailer
  BY LinkFacts
<1>2. \A h \in D : previous[next[h]] = h /\ next[previous[h]] = h
  BY DEF Links
<1>3. p \in E /\ n \in E /\ p # Trailer /\ next[p] = m /\ p < m /\ m < n
  BY <1>1, <1>2
<1>4. /\ l.next = [g \in E |-> IF g = p THEN n ELSE next[g]]
      /\ l.previous = [g \in E |-> IF g = n THEN p ELSE previous[g]]
  BY DEF WithoutBlock
<1>5. DOMAIN l.next = E /\ E \subseteq Header
  BY <1>4 DEF Links
<1>6. l.next[p] = n /\ \A g \in E \ {p} : l.next[g] = next[g]
  BY <1>3, <1>4
<1>7. l.previous[n] = p /\ \A g \in E \ {n} : l.previous[g] = previous[g]
  BY <1>3, <1>4
<1>8. \A h \in E : /\ l.next[h] \in E /\ l.previous[h] \in E
                   /\ l.previous[l.next[h]] = h /\ l.next[l.previous[h]] = h
  <2>1. ASSUME NEW h \in E, h # p
        PROVE  next[h] \in E /\ next[h] # n /\ l.previous[l.next[h]] = h
    <3>1. next[h] \in D /\ previous[next[h]] = h
      BY <1>1, <1>2
    <3>2. next[h] # m
      BY <2>1, <3>1
    <3>3. next[h] # n
      BY <3>1, <1>2
    <3>4. l.next[h] = next[h]
      BY <2>1, <1>6
    <3> QED
      BY <3>1, <3>2, <3>3, <3>4, <1>7
  <2>2. ASSUME NEW h \in E, h # n
        PROVE  previous[h] \in E /\ previous[h] # p /\ l.next[l.previous[h]] = h
    <3>1. previous[h] \in D /\ next[previous[h]] = h
      BY <1>1, <1>2
    <3>2. previous[h] # m
      BY <2>2, <3>1
    <3>3. previous[h] # p
      BY <3>1, <1>3
    <3>4. l.previous[h] = previous[h]
      BY <2>2, <1>7
    <3> QED
      BY <3>1, <3>2, <3>3, <3>4, <1>6
  <2> QED
    BY <2>1, <2>2, <1>3, <1>6, <1>7
<1>9. l.next[Trailer] = 0 /\ {0, Trailer} \subseteq E
  BY <1>3, <1>6 DEF Links
<1>10. ASSUME NEW h \in E \ {Trailer}
       PROVE  InOrder(l.next, h)
  <2>1. CASE h = p
    <3>1. ASSUME NEW g \in E PROVE g <= p \/ n <= g
      <4>1. g <= p \/ m <= g
        BY <1>1, <1>3
      <4>2. g <= m \/ n <= g
        BY <1>1
      <4>3. g \in Int /\ p \in Int /\ m \in Int /\ n \in Int /\ g # m
        BY <1>1, <1>3
      <4> QED
        BY <4>1, <4>2, <4>3
    <3>2. n - p - DM_OVERHEAD >= dm_min_allocation
      BY <1>1, <1>3, HeapConstants
    <3> QED
      BY <2>1, <3>1, <3>2, <1>1, <1>3, <1>5, <1>6 DEF InOrder
  <2>2. CASE h # p
    BY <2>2, <1>5, <1>6 DEF InOrder, Links
  <2> QED
    BY <2>1, <2>2
<1>11. Links(l.next, l.previous)
  <2>1. l.next \in [E -> E] /\ l.previous \in [E -> E]
    BY <1>4, <1>8
  <2> QED
    BY <2>1, <1>5, <1>8, <1>9, <1>10 DEF Links
<1>12. Covers(l.next)
  <2> SUFFICES ASSUME NEW a \in 0..(Trailer - 1)
               PROVE  \E h \in E : h <= a /\ a < l.next[h]
    BY <1>5 DEF Covers
  <2>1. PICK h \in D : h <= a /\ a < next[h]
    BY DEF Covers
  <2>2. CASE h # m /\ h # p
    BY <2>1, <2>2, <1>6
  <2>3. CASE h = m \/ h = p
    BY <2>1, <2>3, <1>1, <1>3, <1>6, TrailerFacts
  <2> QED
    BY <2>2, <2>3
<1> QED
  BY <1>3, <1>5, <1>6, <1>11, <1>12
-----------------------------------------------------------------------------
(* The invariant. *)

\* What the invariant says of the list the heap keeps.
LEMMA HeapFacts ==
    ASSUME HeapInv
    PROVE  /\ \A h \in Blocks : h \in 0..Trailer /\ h \in Int
           /\ \A h \in Blocks : dm_next[h] \in Blocks /\ dm_previous[h] \in Blocks
           /\ \A h \in Blocks : /\ dm_previous[dm_next[h]] = h
                                /\ dm_next[dm_previous[h]] = h
           /\ \A h \in Blocks \ {Trailer} :
                /\ dm_next[h] >= h + DM_OVERHEAD + dm_min_allocation
                /\ dm_next[h] > h
                /\ \A g \in Blocks : g <= h \/ dm_next[h] <= g
           /\ \A h \in Blocks \ {0} : dm_previous[h] # Trailer
           /\ dm_previous[0] = Trailer /\ dm_next[Trailer] = 0
           /\ 0 \in Blocks /\ Trailer \in Blocks
           /\ dm_memory_free \subseteq Blocks \ {Trailer}
           /\ dm_search_ptr \in Blocks /\ memory_ptr \in Blocks
           /\ dm_available \in Int /\ size \in Nat
<1>1. Links(dm_next, dm_previous) /\ Pointers
  BY DEF HeapInv
<1>2. /\ \A h \in Blocks : /\ dm_previous[dm_next[h]] = h
                           /\ dm_next[dm_previous[h]] = h
      /\ dm_next[Trailer] = 0 /\ 0 \in Blocks /\ Trailer \in Blocks
  BY <1>1 DEF Links, Blocks
<1> QED
  BY <1>1, <1>2, LinkFacts DEF Pointers, Blocks

\* The pool as it is created.
LEMMA InitInv == Init => HeapInv
<1> SUFFICES ASSUME Init PROVE HeapInv
  OBVIOUS
<1>1. /\ DOMAIN dm_next = {0, Trailer} /\ DOMAIN dm_previous = {0, Trailer}
      /\ dm_next[0] = Trailer /\ dm_next[Trailer] = 0
      /\ dm_previous[0] = Trailer /\ dm_previous[Trailer] = 0
  BY TrailerFacts DEF Init
<1>2. /\ dm_next \in [{0, Trailer} -> {0, Trailer}]
      /\ dm_previous \in [{0, Trailer} -> {0, Trailer}]
  BY TrailerFacts DEF Init
<1>3. InOrder(dm_next, 0)
  BY <1>1, TrailerFacts, HeapConstants DEF InOrder
<1>4. Links(dm_next, dm_previous)
  BY <1>1, <1>2, <1>3, TrailerFacts DEF Links
<1>5. Covers(dm_next)
  BY <1>1, TrailerFacts DEF Covers
<1>6. Merged /\ Pointers /\ CallOK /\ Searched
  BY <1>1, TrailerFacts, HeapConstants
     DEF Init, Merged, Pointers, CallOK, Searched, Blocks
<1> QED
  BY <1>4, <1>5, <1>6 DEF HeapInv

\* A search starts at the search pointer.
LEMMA GetMemInv ==
    ASSUME HeapInv, NEW n \in 0..MaxRequest, GetMem(n)
    PROVE  HeapInv'
<1>1. /\ Links(dm_next, dm_previous)' /\ Covers(dm_next)' /\ Merged'
  BY DEF HeapInv, GetMem, list, Merged
<1>2. Pointers' /\ CallOK'
  BY RoundedFacts DEF HeapInv, GetMem, list, Pointers, CallOK, Blocks
<1>3. Searched'
  BY HeapFacts DEF GetMem, list, Searched, Passed, Blocks
<1> QED
  BY <1>1, <1>2, <1>3 DEF HeapInv

\* A block that does not fit is added to the ones that were passed.
LEMMA SearchOnInv ==
    ASSUME HeapInv, SearchOn
    PROVE  HeapInv'
<1>1. /\ Links(dm_next, dm_previous)' /\ Covers(dm_next)' /\ Merged'
  BY DEF HeapInv, SearchOn, list, Merged
<1>2. Pointers' /\ CallOK'
  BY HeapFacts DEF HeapInv, SearchOn, list, Pointers, CallOK, Blocks
<1>3. Searched'
  <2> SUFFICES ASSUME NEW h \in Blocks, Passed(h)'
               PROVE  ~Fits(h)
    BY DEF SearchOn, list, Searched, Blocks, Fits, FreeSize
  <2>1. pc = "search" /\ ~Fits(memory_ptr) /\ dm_search_ptr' = dm_search_ptr
        /\ memory_ptr' = dm_next[memory_ptr] /\ dm_next[memory_ptr] # dm_search_ptr
    BY DEF SearchOn
  <2>2. h = memory_ptr \/ Passed(h)
    <3>1. h \in 0..Trailer /\ memory_ptr \in 0..Trailer /\ dm_search_ptr \in 0..Trailer
          /\ dm_next[memory_ptr] \in 0..Trailer
      BY HeapFacts
    <3>2. CASE memory_ptr = Trailer
      <4>1. dm_next[memory_ptr] = 0
        BY <3>2, HeapFacts
      <4> QED
        BY <2>1, <3>1, <3>2, <4>1, TrailerFacts DEF Passed
    <3>3. CASE memory_ptr # Trailer
      <4>1. /\ dm_next[memory_ptr] > memory_ptr
            /\ h <= memory_ptr \/ dm_next[memory_ptr] <= h
            /\ dm_search_ptr <= memory_ptr \/ dm_next[memory_ptr] <= dm_search_ptr
        BY <3>3, HeapFacts
      <4> QED
        BY <2>1, <3>1, <4>1, TrailerFacts DEF Passed
    <3> QED
      BY <3>2, <3>3
  <2> QED
    BY <2>1, <2>2 DEF HeapInv, Searched
<1> QED
  BY <1>1, <1>2, <1>3 DEF HeapInv

\* When the search is back at its start, no block fits.
LEMMA NothingFits ==
    ASSUME HeapInv, NoMemory, NEW h \in Blocks
    PROVE  ~Fits(h)
<1>1. pc = "search" /\ ~Fits(memory_ptr) /\ dm_next[memory_ptr] = dm_search_ptr
  BY DEF NoMemory
<1>2. h = memory_ptr \/ Passed(h)
  <2>1. h \in 0..Trailer /\ memory_ptr \in 0..Trailer /\ dm_search_ptr \in 0..Trailer
    BY HeapFacts
  <2>2. CASE memory_ptr = Trailer
    <3>1. dm_search_ptr = 0
      BY <1>1, <2>2, HeapFacts
    <3> QED
      BY <2>1, <2>2, <3>1, TrailerFacts DEF Passed
  <2>3. CASE memory_ptr # Trailer
    <3>1. /\ dm_search_ptr > memory_ptr
          /\ h <= memory_ptr \/ dm_search_ptr <= h
      BY <1>1, <2>3, HeapFacts
    <3> QED
      BY <2>1, <3>1, TrailerFacts DEF Passed
  <2> QED
    BY <2>2, <2>3
<1> QED
  BY <1>1, <1>2 DEF HeapInv, Searched

\* A refused call leaves the heap alone.
LEMMA NoMemoryInv ==
    ASSUME HeapInv, NoMemory
    PROVE  HeapInv'
<1>1. /\ Links(dm_next, dm_previous)' /\ Covers(dm_next)' /\ Merged'
  BY DEF HeapInv, NoMemory, list, Merged
<1>2. Pointers' /\ CallOK' /\ Searched'
  BY HeapFacts, HeapConstants
     DEF HeapInv, NoMemory, Returns, list, Pointers, CallOK, Searched, Blocks
<1> QED
  BY <1>1, <1>2 DEF HeapInv

\* A block is split and its first part given out.
LEMMA TakePartInv ==
    ASSUME HeapInv, TakePart
    PROVE  /\ HeapInv'
           /\ LET new == memory_ptr + size + DM_OVERHEAD IN
              /\ memory_ptr \in dm_memory_free /\ new \notin Blocks
              /\ memory_ptr < new /\ new < dm_next[memory_ptr]
              /\ Blocks' = Blocks \union {new} /\ dm_next'[memory_ptr] = new
              /\ \A h \in Blocks \ {memory_ptr} : dm_next'[h] = dm_next[h]
<1> DEFINE new == memory_ptr + size + DM_OVERHEAD
<1>1. /\ pc = "search" /\ memory_ptr \in dm_memory_free
      /\ FreeSize(memory_ptr) >= size + DM_OVERHEAD + dm_min_allocation
  BY DEF TakePart, Fits, Splits
<1>2. memory_ptr \in Blocks \ {Trailer} /\ size \in Nat /\ size >= dm_min_allocation
      /\ size % WORD = 0
  BY <1>1, HeapFacts DEF HeapInv, CallOK
<1>3. /\ memory_ptr \in 0..Trailer /\ dm_next[memory_ptr] \in 0..Trailer
      /\ memory_ptr % WORD = 0
  BY <1>2, HeapFacts DEF HeapInv, Links, Header, Blocks
<1>4. new - memory_ptr - DM_OVERHEAD >= dm_min_allocation
      /\ dm_next[memory_ptr] - new - DM_OVERHEAD >= dm_min_allocation
  BY <1>1, <1>2, <1>3, HeapConstants, TrailerFacts DEF FreeSize
<1>5. new \in Header
  <2>1. new % WORD = 0
    <3>1. memory_ptr \in Int /\ size \in Int /\ DM_OVERHEAD \in Int
          /\ WORD \in Nat \ {0} /\ DM_OVERHEAD % WORD = 0
          /\ memory_ptr % WORD = 0 /\ size % WORD = 0
      BY <1>2, <1>3, HeapConstants, TrailerFacts
    <3>2. (memory_ptr + size) % WORD = 0
      BY <3>1, Aligned
    <3>3. memory_ptr + size \in Int
      BY <3>1
    <3> QED
      BY <3>1, <3>2, <3>3, Aligned
  <2>2. new \in 0..Trailer
    BY <1>2, <1>3, <1>4, HeapConstants, TrailerFacts
  <2> QED
    BY <2>1, <2>2 DEF Header
<1>6. /\ dm_next' = [h \in DOMAIN dm_next \union {new} |->
                       CASE h = new -> dm_next[memory_ptr]
                         [] h = memory_ptr -> new [] OTHER -> dm_next[h]]
      /\ dm_previous' = [h \in DOMAIN dm_next \union {new} |->
                       CASE h = new -> memory_ptr
                         [] h = dm_next[memory_ptr] -> new [] OTHER -> dm_previous[h]]
  BY DEF TakePart, Blocks
<1>7. memory_ptr \in DOMAIN dm_next \ {Trailer}
  BY <1>2 DEF Blocks
<1> HIDE DEF new
<1>8. /\ Links(dm_next', dm_previous') /\ Covers(dm_next')
      /\ new \notin DOMAIN dm_next /\ memory_ptr < new /\ new < dm_next[memory_ptr]
  BY <1>4, <1>5, <1>6, <1>7, Insertion DEF HeapInv
<1>9. /\ Blocks' = Blocks \union {new} /\ new \notin Blocks
      /\ dm_next'[memory_ptr] = new /\ dm_next'[new] = dm_next[memory_ptr]
      /\ \A h \in Blocks \ {memory_ptr} : dm_next'[h] = dm_next[h]
  BY <1>6, <1>7, <1>8 DEF Blocks
<1>10. dm_memory_free' = (dm_memory_free \ {memory_ptr}) \union {new}
       /\ dm_available' = dm_available - size - DM_OVERHEAD
       /\ pc' = "idle" /\ size' = 0 /\ memory_ptr' = 0
  BY DEF TakePart, Returns, new
<1>11. Merged'
  <2> SUFFICES ASSUME NEW h \in dm_memory_free'
               PROVE  dm_next'[h] \notin dm_memory_free'
    BY DEF Merged
  <2>1. CASE h = new
    <3>1. dm_next[memory_ptr] \notin dm_memory_free /\ dm_next[memory_ptr] \in Blocks
      BY <1>1, <1>2, HeapFacts DEF HeapInv, Merged
    <3> QED
      BY <2>1, <3>1, <1>9, <1>10
  <2>2. CASE h # new
    <3>1. h \in dm_memory_free /\ h # memory_ptr /\ h \in Blocks
      BY <2>2, <1>10, HeapFacts
    <3>2. dm_next[h] \notin dm_memory_free /\ dm_next[h] \in Blocks
      BY <3>1, HeapFacts DEF HeapInv, Merged
    <3> QED
      BY <3>1, <3>2, <1>9, <1>10
  <2> QED
    BY <2>1, <2>2
<1>12. Pointers'
  <2>1. dm_memory_free' \subseteq Blocks' \ {Trailer}
    BY <1>9, <1>10, HeapFacts
  <2>2. dm_search_ptr' \in Blocks'
    BY <1>9, HeapFacts DEF TakePart, LeaveTaken
  <2>3. memory_ptr' \in Blocks' /\ dm_available' \in Int
        /\ size' \in 0..(dm_pool_size + MaxRequest)
    BY <1>2, <1>9, <1>10, HeapFacts, HeapConstants
  <2> QED
    BY <2>1, <2>2, <2>3 DEF Pointers
<1>13. CallOK' /\ Searched'
  BY <1>10 DEF CallOK, Searched
<1> QED
  BY <1>1, <1>8, <1>9, <1>11, <1>12, <1>13 DEF HeapInv, new

\* A block is given out as it is.
LEMMA TakeWholeInv ==
    ASSUME HeapInv, TakeWhole
    PROVE  HeapInv'
<1>1. Links(dm_next, dm_previous)' /\ Covers(dm_next)' /\ Merged'
  BY DEF HeapInv, TakeWhole, list, Merged
<1>2. Pointers'
  <2>1. FreeSize(memory_ptr) \in Int
    BY HeapFacts, HeapConstants DEF FreeSize
  <2>2. dm_next' = dm_next /\ Blocks' = Blocks
    BY DEF TakeWhole, list, Blocks
  <2>3. dm_search_ptr' \in Blocks
    BY <2>2, HeapFacts DEF TakeWhole, LeaveTaken
  <2>4. dm_available' \in Int
    BY <2>1, HeapFacts DEF TakeWhole
  <2> QED
    BY <2>2, <2>3, <2>4, HeapFacts, HeapConstants DEF TakeWhole, Returns, Pointers
<1>3. CallOK' /\ Searched'
  BY DEF TakeWhole, Returns, CallOK, Searched
<1> QED
  BY <1>1, <1>2, <1>3 DEF HeapInv

\* A release joins a block with its free neighbours: what becomes of the list.
LEMMA FreeMemList ==
    ASSUME HeapInv, NEW h \in Blocks, FreeMem(h),
           NEW start, start = (IF MergesBefore(h) THEN dm_previous[h] ELSE h)
    PROVE  /\ Links(dm_next', dm_previous') /\ Covers(dm_next')
           /\ start \in Blocks' \ {Trailer} /\ start \in dm_memory_free \union {h}
           /\ dm_next'[start] = IF MergesBehind(h) THEN dm_next[dm_next[h]] ELSE dm_next[h]
           /\ \A g \in Blocks' \ {start} : dm_next'[g] = dm_next[g]
           /\ Blocks' = Blocks \ ((IF MergesBefore(h) THEN {h} ELSE {})
                                    \union (IF MergesBehind(h) THEN {dm_next[h]} ELSE {}))
<1> DEFINE before == MergesBefore(h)
           behind == MergesBehind(h)
           l0 == [next |-> dm_next, previous |-> dm_previous]
           l1 == IF before THEN WithoutBlock(l0.next, l0.previous, h) ELSE l0
           l2 == IF behind THEN WithoutBlock(l1.next, l1.previous, l1.next[start]) ELSE l1
           n == dm_next[h]
<1>1. /\ h \in Blocks \ (dm_memory_free \union {Trailer})
      /\ dm_next' = l2.next /\ dm_previous' = l2.previous
  BY DEF FreeMem
<1>2. h # Trailer /\ n \in Blocks /\ n # h /\ n # 0
  BY <1>1, HeapFacts
<1>3. before => h # 0 /\ dm_previous[h] \in dm_memory_free
  BY HeapFacts DEF MergesBefore
<1>4. behind => n \in dm_memory_free /\ n # Trailer
  BY HeapFacts DEF MergesBehind
<1> HIDE DEF before, behind
<1>5. /\ Links(l1.next, l1.previous) /\ Covers(l1.next)
      /\ DOMAIN l1.next = Blocks \ (IF before THEN {h} ELSE {})
      /\ start \in DOMAIN l1.next \ {Trailer} /\ l1.next[start] = n
      /\ \A g \in DOMAIN l1.next \ {start} : l1.next[g] = dm_next[g]
  <2>1. Links(dm_next, dm_previous) /\ Covers(dm_next)
    BY DEF HeapInv
  <2>2. CASE before
    <3>1. start = dm_previous[h] /\ l1 = WithoutBlock(dm_next, dm_previous, h)
      BY <2>2 DEF before
    <3>2. h \in DOMAIN dm_next \ {0, Trailer}
      BY <2>2, <1>2, <1>3 DEF Blocks
    <3> HIDE DEF l1
    <3> QED
      BY <2>1, <2>2, <3>1, <3>2, Removal DEF Blocks
  <2>3. CASE ~before
    BY <2>1, <2>3, <1>2 DEF before, Blocks
  <2> QED
    BY <2>2, <2>3
<1> HIDE DEF l1
<1>6. n \in DOMAIN l1.next /\ l1.previous[n] = start
  BY <1>2, <1>5 DEF Links
<1>7. /\ Links(l2.next, l2.previous) /\ Covers(l2.next)
      /\ DOMAIN l2.next = (DOMAIN l1.next) \ (IF behind THEN {n} ELSE {})
      /\ start \in DOMAIN l2.next \ {Trailer}
      /\ l2.next[start] = IF behind THEN dm_next[n] ELSE n
      /\ \A g \in DOMAIN l2.next \ {start} : l2.next[g] = l1.next[g]
  <2>1. CASE behind
    <3>1. l2 = WithoutBlock(l1.next, l1.previous, n)
      BY <2>1, <1>5
    <3>2. n \in DOMAIN l1.next \ {0, Trailer}
      BY <2>1, <1>2, <1>4, <1>6
    <3> HIDE DEF l2, n
    <3>3. /\ Links(l2.next, l2.previous) /\ Covers(l2.next)
          /\ DOMAIN l2.next = DOMAIN l1.next \ {n}
          /\ start \in DOMAIN l1.next \ {n, Trailer}
          /\ l2.next[start] = l1.next[n]
          /\ \A g \in DOMAIN l1.next \ {n, start} : l2.next[g] = l1.next[g]
      BY <3>1, <3>2, <1>5, <1>6, Removal
    <3>4. l1.next[n] = dm_next[n]
      BY <3>2, <3>3, <1>5
    <3> QED
      BY <2>1, <3>3, <3>4
  <2>2. CASE ~behind
    BY <2>2, <1>5
  <2> QED
    BY <2>1, <2>2
<1> HIDE DEF l2
<1>8. start \in dm_memory_free \union {h}
  BY <1>3 DEF before
<1>9. Blocks' = DOMAIN l2.next
  BY <1>1 DEF Blocks
<1> QED
  BY <1>1, <1>5, <1>7, <1>8, <1>9 DEF before, behind

\* A release keeps the invariant.
LEMMA FreeMemInv ==
    ASSUME HeapInv, NEW h \in Blocks, FreeMem(h)
    PROVE  HeapInv'
<1> DEFINE before == MergesBefore(h)
           behind == MergesBehind(h)
           start == IF before THEN dm_previous[h] ELSE h
           n == dm_next[h]
<1>1. /\ Links(dm_next', dm_previous') /\ Covers(dm_next')
      /\ start \in Blocks' \ {Trailer} /\ start \in dm_memory_free \union {h}
      /\ dm_next'[start] = IF behind THEN dm_next[n] ELSE n
      /\ \A g \in Blocks' \ {start} : dm_next'[g] = dm_next[g]
      /\ Blocks' = Blocks \ ((IF before THEN {h} ELSE {})
                               \union (IF behind THEN {n} ELSE {}))
  BY FreeMemList
<1>2. /\ pc = "idle" /\ h \in Blocks \ (dm_memory_free \union {Trailer})
      /\ dm_memory_free' = (dm_memory_free \union {h}) \intersect Blocks'
      /\ dm_search_ptr' = (IF before \/ behind THEN start ELSE dm_search_ptr)
      /\ dm_available' = dm_available + Regained(h)
      /\ pc' = pc /\ size' = size /\ memory_ptr' = memory_ptr
  BY DEF FreeMem, SearchAfterFree, call, Blocks
<1>3. n \in Blocks /\ n > h /\ h \in Int /\ n \in Int
  BY <1>2, HeapFacts
<1>4. Merged'
  <2> SUFFICES ASSUME NEW g \in dm_memory_free'
               PROVE  dm_next'[g] \notin dm_memory_free \union {h}
    BY <1>2 DEF Merged
  <2>1. g \in Blocks' /\ g \in dm_memory_free \union {h}
    BY <1>2
  <2>2. CASE g = start /\ behind
    <3>1. n \in dm_memory_free /\ n # Trailer
      BY <2>2, HeapFacts DEF MergesBehind
    <3>2. dm_next[n] \notin dm_memory_free /\ dm_next[n] > n
      BY <3>1, HeapFacts DEF HeapInv, Merged
    <3>3. dm_next[n] \in Int
      BY <1>3, HeapFacts
    <3> QED
      BY <2>2, <3>2, <3>3, <1>1, <1>3
  <2>3. CASE g = start /\ ~behind
    <3>1. n \notin dm_memory_free
      BY <2>3 DEF MergesBehind
    <3> QED
      BY <2>3, <3>1, <1>1, <1>3
  <2>4. CASE g # start
    <3>1. g \in dm_memory_free
      <4>1. CASE before
        BY <4>1, <1>1, <2>1
      <4>2. CASE ~before
        BY <4>2, <2>1, <2>4
      <4> QED
        BY <4>1, <4>2
    <3>2. dm_next'[g] = dm_next[g] /\ dm_next[g] \notin dm_memory_free
      BY <2>1, <2>4, <3>1, <1>1 DEF HeapInv, Merged
    <3>3. dm_next[g] # h
      <4> SUFFICES ASSUME dm_next[g] = h PROVE FALSE
        OBVIOUS
      <4>1. dm_previous[h] = g
        BY <3>1, HeapFacts
      <4> QED
        BY <2>4, <3>1, <4>1 DEF MergesBefore
    <3> QED
      BY <3>2, <3>3
  <2> QED
    BY <2>2, <2>3, <2>4
<1>5. Pointers'
  <2>1. dm_memory_free' \subseteq Blocks' \ {Trailer}
    BY <1>2, HeapFacts
  <2>2. dm_search_ptr' \in Blocks'
    BY <1>1, <1>2, HeapFacts
  <2>3. memory_ptr' \in Blocks' /\ size' \in 0..(dm_pool_size + MaxRequest)
    BY <1>1, <1>2 DEF HeapInv, CallOK, Links, Pointers, Blocks
  <2>4. dm_available' \in Int
    BY <1>2, <1>3, HeapFacts, HeapConstants DEF Regained, FreeSize
  <2> QED
    BY <2>1, <2>2, <2>3, <2>4 DEF Pointers
<1>6. CallOK' /\ Searched'
  BY <1>2 DEF HeapInv, CallOK, Searched
<1> QED
  BY <1>1, <1>4, <1>5, <1>6 DEF HeapInv

\* Every step keeps the invariant.
LEMMA NextInv == HeapInv /\ [Next]_vars => HeapInv'
<1> SUFFICES ASSUME HeapInv, [Next]_vars PROVE HeapInv'
  OBVIOUS
<1>1. ASSUME NEW n \in 0..MaxRequest, GetMem(n) PROVE HeapInv'
  BY <1>1, GetMemInv
<1>2. CASE SearchOn
  BY <1>2, SearchOnInv
<1>3. CASE NoMemory
  BY <1>3, NoMemoryInv
<1>4. CASE TakePart
  BY <1>4, TakePartInv
<1>5. CASE TakeWhole
  BY <1>5, TakeWholeInv
<1>6. ASSUME NEW h \in Blocks, FreeMem(h) PROVE HeapInv'
  BY <1>6, FreeMemInv
<1>7. CASE UNCHANGED vars
  BY <1>7 DEF vars, list, call, HeapInv, Merged, Pointers, CallOK, Searched,
              Passed, Fits, FreeSize, Blocks
<1> QED
  BY <1>1, <1>2, <1>3, <1>4, <1>5, <1>6, <1>7 DEF Next, Search

LEMMA HeapInvariant == Spec => []HeapInv
  BY InitInv, NextInv, PTL DEF Spec
-----------------------------------------------------------------------------
(* The count of free bytes. *)

\* The bytes of every block of a list.
Sizes(next) ==
    [h \in Header |-> IF h \in DOMAIN next THEN next[h] - h - DM_OVERHEAD ELSE 0]

Counted == dm_available = Total(Sizes(dm_next), Header, dm_memory_free)

\* The headers of the pool are finitely many.
LEMMA FiniteHeader == IsFiniteSet(Header)
<1>1. IsFiniteSet(0..Trailer)
  BY FS_Interval, TrailerFacts
<1>2. Header \in SUBSET (0..Trailer)
  BY DEF Header
<1> QED
  BY <1>1, <1>2, FS_Subset

LEMMA SizesAre ==
    ASSUME NEW next, NEW previous, Links(next, previous)
    PROVE  /\ Sizes(next) \in [Header -> Int]
           /\ \A h \in DOMAIN next : Sizes(next)[h] = next[h] - h - DM_OVERHEAD
<1>1. \A h \in DOMAIN next : next[h] \in Int /\ h \in Int /\ h \in Header
  BY TrailerFacts DEF Links, Header
<1> QED
  BY <1>1, HeapConstants DEF Sizes, Header

\* The sum that AvailableIsExact names is this total.
LEMMA FreeBytes ==
    ASSUME HeapInv
    PROVE  MapThenSumSet(FreeSize, dm_memory_free)
             = Total(Sizes(dm_next), Header, dm_memory_free)
<1> DEFINE S == dm_memory_free
           f == Sizes(dm_next)
           Solves(g) == g = [s \in SUBSET S |-> IF s = {} THEN 0
                                ELSE FreeSize(Any(s)) + g[s \ {Any(s)}]]
           iter == CHOOSE g : Solves(g)
<1>1. MapThenSumSet(FreeSize, S) = iter[S]
  BY DEF MapThenSumSet, MapThenFoldSet, Any
<1>2. ASSUME NEW g PROVE Solves(g) <=> IsSum(g, f, S)
  <2>1. ASSUME NEW s \in SUBSET S, s # {}
        PROVE  FreeSize(Any(s)) = f[Any(s)]
    <3>1. Any(s) \in S
      BY <2>1, AnyIs
    <3>2. Any(s) \in Header /\ Any(s) \in DOMAIN dm_next
      BY <3>1 DEF HeapInv, Links, Pointers, Blocks
    <3> QED
      BY <3>2 DEF Sizes, FreeSize
  <2> HIDE DEF f
  <2>2. [s \in SUBSET S |-> IF s = {} THEN 0 ELSE FreeSize(Any(s)) + g[s \ {Any(s)}]]
          = [s \in SUBSET S |-> IF s = {} THEN 0 ELSE f[Any(s)] + g[s \ {Any(s)}]]
    BY <2>1
  <2> QED
    BY <2>2 DEF IsSum
<1>3. f \in [Header -> Int]
  BY SizesAre DEF HeapInv
<1>4. S \in SUBSET Header
  BY DEF HeapInv, Links, Pointers, Blocks
<1> HIDE DEF Solves, f
<1>5. Solves(iter)
  BY <1>2, <1>3, <1>4, TotalOfPart, FiniteHeader
<1>6. iter[S] = Total(f, Header, S)
  <2> HIDE DEF iter
  <2> QED
    BY <1>2, <1>3, <1>4, <1>5, TotalOfPart, FiniteHeader
<1> QED
  BY <1>1, <1>6 DEF f

\* What the steps use of the sizes before and after.
LEMMA StepSizes ==
    ASSUME HeapInv, HeapInv', NEW f, f = Sizes(dm_next), NEW g, g = Sizes(dm_next')
    PROVE  /\ f \in [Header -> Int] /\ g \in [Header -> Int]
           /\ dm_memory_free \in SUBSET Header /\ dm_memory_free' \in SUBSET Header
           /\ \A h \in Blocks : f[h] = dm_next[h] - h - DM_OVERHEAD
           /\ \A h \in Blocks' : g[h] = dm_next'[h] - h - DM_OVERHEAD
<1>1. Links(dm_next, dm_previous) /\ Links(dm_next', dm_previous')
  BY DEF HeapInv
<1>2. dm_memory_free \in SUBSET Header /\ dm_memory_free' \in SUBSET Header
  BY DEF HeapInv, Links, Pointers, Blocks
<1> QED
  BY <1>1, <1>2, SizesAre DEF Blocks

LEMMA InitCounted == Init => Counted
<1> SUFFICES ASSUME Init PROVE Counted
  OBVIOUS
<1>1. HeapInv /\ dm_memory_free = {} \union {0} /\ 0 \in DOMAIN dm_next
      /\ dm_next[0] = Trailer /\ dm_available = dm_pool_size - 2 * DM_OVERHEAD
  BY InitInv, TrailerFacts DEF Init
<1> DEFINE f == Sizes(dm_next)
<1>2. f \in [Header -> Int] /\ f[0] = Trailer - 0 - DM_OVERHEAD
  BY <1>1, SizesAre DEF HeapInv
<1> HIDE DEF f
<1>3. {} \in SUBSET Header /\ 0 \notin {} /\ 0 \in Header
  BY TrailerFacts
<1>4. Total(f, Header, {} \union {0}) = f[0] + Total(f, Header, {})
  BY <1>2, <1>3, FiniteHeader, TotalAdd
<1>5. Total(f, Header, {}) = 0
  BY <1>2, FiniteHeader, TotalEmpty
<1>6. dm_available = f[0] + 0
  BY <1>1, <1>2, HeapConstants DEF Trailer
<1> QED
  BY <1>1, <1>4, <1>5, <1>6 DEF Counted, f

\* A block is exchanged for the rest behind it.
LEMMA TakePartCounted ==
    ASSUME HeapInv, Counted, TakePart
    PROVE  Counted'
<1> DEFINE new == memory_ptr + size + DM_OVERHEAD
<1>1. HeapInv' /\ memory_ptr \in dm_memory_free /\ new \notin Blocks
      /\ Blocks' = Blocks \union {new}
      /\ \A h \in Blocks \ {memory_ptr} : dm_next'[h] = dm_next[h]
  BY TakePartInv
<1>2. dm_memory_free' = (dm_memory_free \ {memory_ptr}) \union {new}
      /\ dm_next'[new] = dm_next[memory_ptr]
      /\ dm_available' = dm_available - size - DM_OVERHEAD
  <2>1. dm_next' = [b \in Blocks \union {new} |->
                      CASE b = new -> dm_next[memory_ptr]
                        [] b = memory_ptr -> new [] OTHER -> dm_next[b]]
    BY DEF TakePart
  <2>2. dm_memory_free' = (dm_memory_free \ {memory_ptr}) \union {new}
        /\ dm_available' = dm_available - size - DM_OVERHEAD
    BY DEF TakePart
  <2>3. new # memory_ptr
    BY <1>1, HeapFacts
  <2> HIDE DEF new
  <2>4. dm_next'[new] = dm_next[memory_ptr]
    BY <2>1, <2>3
  <2> QED
    BY <2>2, <2>4
<1>3. dm_memory_free \subseteq Blocks /\ memory_ptr \in Int /\ size \in Int
      /\ dm_next[memory_ptr] \in Int /\ DM_OVERHEAD \in Int /\ dm_available \in Int
  BY HeapFacts, HeapConstants
<1>4. new = memory_ptr + size + DM_OVERHEAD
  OBVIOUS
<1> HIDE DEF new
<1>5. PICK f, g : f = Sizes(dm_next) /\ g = Sizes(dm_next')
  OBVIOUS
<1>6. /\ f \in [Header -> Int] /\ g \in [Header -> Int]
      /\ dm_memory_free \in SUBSET Header /\ dm_memory_free' \in SUBSET Header
      /\ \A h \in Blocks : f[h] = dm_next[h] - h - DM_OVERHEAD
      /\ \A h \in Blocks' : g[h] = dm_next'[h] - h - DM_OVERHEAD
  BY <1>1, <1>5, StepSizes
<1>7. dm_memory_free \ {memory_ptr} = dm_memory_free' \ {new} /\ new \in dm_memory_free'
  BY <1>1, <1>2, <1>3
<1>8. \A z \in dm_memory_free \ {memory_ptr} : f[z] = g[z]
  BY <1>1, <1>3, <1>6
<1>9. Total(g, Header, dm_memory_free')
        = Total(f, Header, dm_memory_free) - f[memory_ptr] + g[new]
  BY <1>1, <1>6, <1>7, <1>8, FiniteHeader, TotalReplace
<1>10. f[memory_ptr] = dm_next[memory_ptr] - memory_ptr - DM_OVERHEAD
       /\ g[new] = dm_next[memory_ptr] - new - DM_OVERHEAD
  BY <1>1, <1>2, <1>3, <1>6
<1>11. dm_available' = dm_available - f[memory_ptr] + g[new]
  BY <1>2, <1>3, <1>4, <1>10
<1> QED
  BY <1>5, <1>9, <1>11 DEF Counted

LEMMA TakeWholeCounted ==
    ASSUME HeapInv, Counted, TakeWhole
    PROVE  Counted'
<1>1. HeapInv' /\ memory_ptr \in dm_memory_free
  BY TakeWholeInv DEF TakeWhole, Fits
<1>2. dm_memory_free' = dm_memory_free \ {memory_ptr} /\ dm_next' = dm_next
      /\ dm_available' = dm_available - (dm_next[memory_ptr] - memory_ptr - DM_OVERHEAD)
  BY DEF TakeWhole, list, FreeSize
<1>3. PICK f, g : f = Sizes(dm_next) /\ g = Sizes(dm_next')
  OBVIOUS
<1>4. f \in [Header -> Int] /\ dm_memory_free \in SUBSET Header
      /\ dm_memory_free' \in SUBSET Header
      /\ f[memory_ptr] = dm_next[memory_ptr] - memory_ptr - DM_OVERHEAD
  BY <1>1, <1>3, StepSizes, HeapFacts
<1>5. Total(f, Header, dm_memory_free)
        = f[memory_ptr] + Total(f, Header, dm_memory_free')
  BY <1>1, <1>2, <1>4, FiniteHeader, TotalRemove
<1>6. Total(f, Header, dm_memory_free') \in Int /\ f[memory_ptr] \in Int
  BY <1>1, <1>4, FiniteHeader, TotalType
<1>7. dm_available' = Total(f, Header, dm_memory_free')
  BY <1>2, <1>3, <1>4, <1>5, <1>6 DEF Counted
<1> QED
  BY <1>2, <1>3, <1>7 DEF Counted

\* A block is added, alone or in the place of the neighbours it is merged with.
LEMMA FreeMemCounted ==
    ASSUME HeapInv, Counted, NEW h \in Blocks, FreeMem(h)
    PROVE  Counted'
<1> DEFINE before == MergesBefore(h)
           behind == MergesBehind(h)
           n == dm_next[h]
           p == dm_previous[h]
           free == dm_memory_free
           free1 == dm_memory_free'
           start == IF before THEN p ELSE h
<1>1. /\ HeapInv'
      /\ start \in Blocks'
      /\ dm_next'[start] = IF behind THEN dm_next[n] ELSE n
      /\ \A b \in Blocks' \ {start} : dm_next'[b] = dm_next[b]
      /\ Blocks' = Blocks \ ((IF before THEN {h} ELSE {})
                               \union (IF behind THEN {n} ELSE {}))
  BY FreeMemList, FreeMemInv
<1>2. /\ h \in Blocks \ (free \union {Trailer})
      /\ free1 = (free \union {h}) \intersect Blocks'
      /\ dm_available' = dm_available + (n - h - DM_OVERHEAD)
                           + (IF before THEN DM_OVERHEAD ELSE 0)
                           + (IF behind THEN DM_OVERHEAD ELSE 0)
  BY HeapFacts, HeapConstants DEF FreeMem, Regained, FreeSize, Blocks
<1>3. /\ (before <=> p \in free) /\ (behind <=> n \in free)
      /\ p \in Blocks /\ n \in Blocks /\ dm_next[p] = h /\ n # h
      /\ free \subseteq Blocks /\ h \in Int /\ n \in Int /\ p \in Int /\ dm_next[n] \in Int
      /\ DM_OVERHEAD \in Int /\ dm_available \in Int
  BY <1>2, HeapFacts, HeapConstants DEF MergesBefore, MergesBehind
<1>4. before => p # n /\ p # h
  BY <1>2, <1>3, HeapFacts
<1>5. PICK f, g : f = Sizes(dm_next) /\ g = Sizes(dm_next')
  OBVIOUS
<1>6. /\ f \in [Header -> Int] /\ g \in [Header -> Int]
      /\ free \in SUBSET Header /\ free1 \in SUBSET Header
      /\ \A b \in Blocks : f[b] = dm_next[b] - b - DM_OVERHEAD
      /\ \A b \in Blocks' : g[b] = dm_next'[b] - b - DM_OVERHEAD
  BY <1>1, <1>5, StepSizes
<1>7. \A b \in Blocks' \ {start} : b \in Blocks /\ f[b] = g[b]
  BY <1>1, <1>6
<1>8. dm_available = Total(f, Header, free)
  BY <1>5 DEF Counted
<1>9. SUFFICES dm_available' = Total(g, Header, free1)
  BY <1>5 DEF Counted
<1>10. h \in Header
  BY <1>2 DEF HeapInv, Links, Blocks
<1> HIDE DEF before, behind, n, p, free, free1
<1>11. CASE ~before /\ ~behind
  <2>1. free1 = free \union {h} /\ h \notin free /\ g[h] = n - h - DM_OVERHEAD
    BY <1>1, <1>2, <1>3, <1>6, <1>11
  <2>2. \A b \in free : f[b] = g[b]
    BY <1>1, <1>2, <1>3, <1>7, <1>11
  <2>3. Total(g, Header, free1) = g[h] + Total(g, Header, free)
    BY <1>6, <1>10, <2>1, FiniteHeader, TotalAdd
  <2>4. Total(g, Header, free) = Total(f, Header, free)
    BY <1>6, <2>2, FiniteHeader, TotalSame
  <2> QED
    BY <1>2, <1>3, <1>8, <1>11, <2>1, <2>3, <2>4
<1>12. CASE before /\ ~behind
  <2>1. free1 = free /\ p \in free /\ p \in free1 /\ free \ {p} = free1 \ {p}
    BY <1>1, <1>2, <1>3, <1>12
  <2>2. \A b \in free \ {p} : f[b] = g[b]
    BY <1>1, <1>2, <1>3, <1>7, <1>12
  <2>3. Total(g, Header, free1) = Total(f, Header, free) - f[p] + g[p]
    BY <1>6, <2>1, <2>2, FiniteHeader, TotalReplace
  <2>4. f[p] = h - p - DM_OVERHEAD /\ g[p] = n - p - DM_OVERHEAD
    BY <1>1, <1>3, <1>6, <1>12
  <2> QED
    BY <1>2, <1>3, <1>8, <1>12, <2>3, <2>4
<1>13. CASE ~before /\ behind
  <2>1. /\ free1 = (free \ {n}) \union {h} /\ n \in free /\ h \in free1
        /\ free \ {n} = free1 \ {h}
    BY <1>1, <1>2, <1>3, <1>13
  <2>2. \A b \in free \ {n} : f[b] = g[b]
    BY <1>1, <1>2, <1>3, <1>7, <1>13
  <2>3. Total(g, Header, free1) = Total(f, Header, free) - f[n] + g[h]
    BY <1>6, <2>1, <2>2, FiniteHeader, TotalReplace
  <2>4. f[n] = dm_next[n] - n - DM_OVERHEAD /\ g[h] = dm_next[n] - h - DM_OVERHEAD
    BY <1>1, <1>3, <1>6, <1>13
  <2> QED
    BY <1>2, <1>3, <1>8, <1>13, <2>3, <2>4
<1>14. CASE before /\ behind
  <2>1. /\ free1 = free \ {n} /\ n \in free /\ p \in free1 /\ free1 \ {p} = free1 \ {p}
    BY <1>1, <1>2, <1>3, <1>4, <1>14
  <2>2. \A b \in free1 \ {p} : f[b] = g[b]
    BY <1>1, <1>2, <1>3, <1>7, <1>14
  <2>3. Total(f, Header, free) = f[n] + Total(f, Header, free1)
    BY <1>6, <2>1, FiniteHeader, TotalRemove
  <2>4. Total(g, Header, free1) = Total(f, Header, free1) - f[p] + g[p]
    BY <1>6, <2>1, <2>2, FiniteHeader, TotalReplace
  <2>5. /\ f[n] = dm_next[n] - n - DM_OVERHEAD /\ f[p] = h - p - DM_OVERHEAD
        /\ g[p] = dm_next[n] - p - DM_OVERHEAD
    BY <1>1, <1>3, <1>6, <1>14
  <2>6. Total(f, Header, free1) \in Int
    BY <1>6, FiniteHeader, TotalType
  <2> QED
    BY <1>2, <1>3, <1>8, <1>14, <2>3, <2>4, <2>5, <2>6
<1> QED
  BY <1>11, <1>12, <1>13, <1>14

LEMMA CountedStep == HeapInv /\ Counted /\ [Next]_vars => Counted'
<1> SUFFICES ASSUME HeapInv, Counted, [Next]_vars PROVE Counted'
  OBVIOUS
<1>1. CASE UNCHANGED <<dm_next, dm_memory_free, dm_available>>
  BY <1>1 DEF Counted
<1>2. CASE (\E n \in 0..MaxRequest : GetMem(n)) \/ SearchOn \/ NoMemory \/ UNCHANGED vars
  BY <1>1, <1>2 DEF GetMem, SearchOn, NoMemory, vars, list
<1>3. CASE TakePart
  BY <1>3, TakePartCounted
<1>4. CASE TakeWhole
  BY <1>4, TakeWholeCounted
<1>5. ASSUME NEW h \in Blocks, FreeMem(h) PROVE Counted'
  BY <1>5, FreeMemCounted
<1> QED
  BY <1>2, <1>3, <1>4, <1>5 DEF Next, Search

LEMMA CountInvariant == Spec => [](HeapInv /\ Counted)
<1>1. Init => HeapInv /\ Counted
  BY InitInv, InitCounted
<1>2. HeapInv /\ Counted /\ [Next]_vars => HeapInv' /\ Counted'
  BY NextInv, CountedStep
<1> QED
  BY <1>1, <1>2, PTL DEF Spec
-----------------------------------------------------------------------------
(* The refinement. *)

\* A free block is nobody's.
LEMMA FreeIsUnused ==
    ASSUME HeapInv, NEW m \in dm_memory_free, NEW b \in Int, b <= dm_next[m]
    PROVE  Abstract!Unused(m, b)
<1> SUFFICES ASSUME NEW h \in Blocks \ (dm_memory_free \union {Trailer})
             PROVE  b <= h \/ dm_next[h] <= m
  BY DEF Abstract!Unused, Abstract!Disjoint
<1>1. m \in Blocks \ {Trailer} /\ m # h
  BY HeapFacts
<1>2. m <= h \/ dm_next[h] <= m
  BY <1>1, HeapFacts
<1>3. h <= m \/ dm_next[m] <= h
  BY <1>1, HeapFacts
<1>4. m \in Int /\ h \in Int /\ dm_next[m] \in Int /\ dm_next[h] \in Int
  BY <1>1, HeapFacts
<1> QED
  BY <1>1, <1>2, <1>3, <1>4

\* If no block fits, no stretch of unused bytes is long enough: it would lie
\* in one block, because free blocks are merged.
LEMMA BytesInUse ==
    ASSUME HeapInv, NoMemory,
           NEW a \in 0..Trailer, a + size + DM_OVERHEAD <= Trailer,
           Abstract!Unused(a, a + size + DM_OVERHEAD)
    PROVE  FALSE
<1> DEFINE b == a + size + DM_OVERHEAD
<1>1. a \in Int /\ b \in Int /\ a < b /\ b <= Trailer /\ a \in 0..(Trailer - 1) /\ size \in Nat
  BY HeapFacts, HeapConstants, TrailerFacts
<1>2. ASSUME NEW h \in Blocks \ (dm_memory_free \union {Trailer})
      PROVE  b <= h \/ dm_next[h] <= a
  <2>1. \A x \in {<<g, dm_next[g]>> : g \in Blocks \ (dm_memory_free \union {Trailer})} :
            b <= x[1] \/ x[2] <= a
    BY DEF Abstract!Unused, Abstract!Disjoint
  <2>2. <<h, dm_next[h]>>
          \in {<<g, dm_next[g]>> : g \in Blocks \ (dm_memory_free \union {Trailer})}
    OBVIOUS
  <2> HIDE DEF b
  <2> QED
    BY <2>1, <2>2
<1> HIDE DEF b
<1>3. PICK h \in Blocks : h <= a /\ a < dm_next[h]
  BY <1>1 DEF HeapInv, Covers, Blocks
<1>4. h \in Int /\ dm_next[h] \in Int /\ dm_next[h] \in Blocks /\ h # Trailer
  BY <1>1, <1>3, HeapFacts, TrailerFacts
<1>5. h \in dm_memory_free
  BY <1>1, <1>2, <1>3, <1>4
<1>6. FreeSize(h) < size
  <2>1. ~(FreeSize(h) >= size)
    BY <1>5, NothingFits DEF Fits
  <2> QED
    BY <2>1, <1>1, <1>4, HeapConstants DEF FreeSize
<1>7. dm_next[h] < b
  BY <1>1, <1>3, <1>4, <1>6, HeapConstants DEF FreeSize, b
<1>8. dm_next[h] # Trailer /\ dm_next[h] \notin dm_memory_free
  BY <1>1, <1>4, <1>5, <1>7, TrailerFacts DEF HeapInv, Merged
<1>9. b <= dm_next[h] \/ dm_next[dm_next[h]] <= a
  BY <1>2, <1>4, <1>8
<1>10. dm_next[dm_next[h]] > dm_next[h] /\ dm_next[dm_next[h]] \in Int
  BY <1>4, <1>8, HeapFacts
<1> QED
  BY <1>1, <1>3, <1>4, <1>7, <1>9, <1>10
-----------------------------------------------------------------------------
(* The theorems. *)

\* All pointers of os_dmem.c stay on headers of the pool that are aligned to
\* words, whatever is allocated and released.
THEOREM TypeCorrect == Spec => []TypeOK
<1>1. HeapInv => TypeOK
  <2> SUFFICES ASSUME HeapInv PROVE TypeOK
    OBVIOUS
  <2>1. Links(dm_next, dm_previous) /\ Pointers /\ CallOK
    BY DEF HeapInv
  <2>2. pc \in {"idle", "search"}
    BY <2>1 DEF CallOK
  <2> QED
    BY <2>1, <2>2 DEF TypeOK, Links, Pointers, Blocks
<1> QED
  BY <1>1, HeapInvariant, PTL

\* After any sequence of OS_GetMem and OS_FreeMem the linked list runs through
\* the whole pool in both directions, and free neighbours are merged.
THEOREM ListTheorem == Spec => []ListIsThePool
<1>1. HeapInv => ListIsThePool
  <2> SUFFICES ASSUME HeapInv PROVE ListIsThePool
    OBVIOUS
  <2>1. Links(dm_next, dm_previous) /\ Pointers /\ Merged
    BY DEF HeapInv
  <2> QED
    BY <2>1 DEF ListIsThePool, Links, InOrder, Pointers, Merged, FreeSize, Blocks
<1> QED
  BY <1>1, HeapInvariant, PTL

\* dm_available is the sum of the payloads of the free blocks after any
\* sequence of splits and merges: no call of OS_GetMem or OS_FreeMem loses or
\* invents a byte, headers won and spent included.
THEOREM AvailableTheorem == Spec => []AvailableIsExact
<1>1. HeapInv /\ Counted => AvailableIsExact
  BY FreeBytes DEF Counted, AvailableIsExact
<1> QED
  BY <1>1, CountInvariant, PTL

\* The heap of os_dmem.c implements MemoryPool: memory that is given out
\* belongs to nobody else and is long enough, OSMMalloc fails only if no
\* stretch of unused bytes is long enough, and only OSMFree takes memory away.
THEOREM Refinement == Spec => ImplementsMemoryPool
<1> DEFINE Held == {<<h, dm_next[h]>> : h \in Blocks \ (dm_memory_free \union {Trailer})}
<1>1. Init => Abstract!Init
  BY TrailerFacts DEF Init, Abstract!Init, Blocks
<1>2. HeapInv /\ [Next]_vars => [Abstract!Next]_<<Held, size>>
  <2> SUFFICES ASSUME HeapInv, [Next]_vars
               PROVE  Abstract!Next \/ (Held' = Held /\ size' = size)
    OBVIOUS
  <2>1. ASSUME NEW n \in 0..MaxRequest, GetMem(n)
        PROVE  Abstract!Next
    <3>1. Held' = Held /\ size = 0 /\ size' = RoundedSize(n)
      BY <2>1 DEF GetMem, list, Blocks, HeapInv, CallOK
    <3> QED
      BY <3>1 DEF Abstract!Next, Abstract!Ask
  <2>2. CASE SearchOn
    BY <2>2 DEF SearchOn, list, Blocks
  <2>3. CASE NoMemory
    <3>1. Held' = Held /\ size # 0 /\ size' = 0
      BY <2>3, HeapFacts, HeapConstants
         DEF NoMemory, Returns, list, Blocks, HeapInv, CallOK
    <3>2. ASSUME NEW a \in 0..Trailer, a + size + DM_OVERHEAD <= Trailer,
                 Abstract!Unused(a, a + size + DM_OVERHEAD)
          PROVE  FALSE
      BY <2>3, <3>2, BytesInUse
    <3> QED
      BY <3>1, <3>2 DEF Abstract!Next, Abstract!Refuse
  <2>4. CASE TakePart
    <3> DEFINE new == memory_ptr + size + DM_OVERHEAD
    <3>1. /\ memory_ptr \in dm_memory_free /\ new \notin Blocks
          /\ memory_ptr < new /\ new < dm_next[memory_ptr]
          /\ Blocks' = Blocks \union {new} /\ dm_next'[memory_ptr] = new
          /\ \A h \in Blocks \ {memory_ptr} : dm_next'[h] = dm_next[h]
      BY <2>4, TakePartInv
    <3>2. dm_memory_free' = (dm_memory_free \ {memory_ptr}) \union {new}
          /\ size' = 0
      BY <2>4 DEF TakePart, Returns
    <3>3. memory_ptr \in Blocks \ {Trailer} /\ memory_ptr \in 0..Trailer
          /\ dm_next[memory_ptr] \in 0..Trailer /\ new \in Int
          /\ size \in Nat /\ size # 0
      BY <2>4, <3>1, HeapFacts, HeapConstants, TrailerFacts DEF HeapInv, CallOK, TakePart
    <3> HIDE DEF new
    <3>4. Held' = Held \union {<<memory_ptr, new>>}
      BY <3>1, <3>2, <3>3, HeapFacts
    <3>5. new - memory_ptr - DM_OVERHEAD = size
      BY <3>3, HeapConstants, TrailerFacts DEF new
    <3>6. Abstract!Unused(memory_ptr, new)
      BY <3>1, <3>3, FreeIsUnused
    <3>7. new \in 0..Trailer
      BY <3>1, <3>3, TrailerFacts
    <3>8. Abstract!Grant(memory_ptr, new)
      BY <3>2, <3>3, <3>4, <3>5, <3>6, <3>7, HeapConstants, TrailerFacts
         DEF Abstract!Grant
    <3> QED
      BY <3>3, <3>7, <3>8 DEF Abstract!Next, Abstract!Grant
  <2>5. CASE TakeWhole
    <3> DEFINE n == dm_next[memory_ptr]
    <3>1. /\ memory_ptr \in dm_memory_free /\ FreeSize(memory_ptr) >= size
          /\ ~(FreeSize(memory_ptr) >= size + DM_OVERHEAD + dm_min_allocation)
          /\ dm_next' = dm_next /\ Blocks' = Blocks
          /\ dm_memory_free' = dm_memory_free \ {memory_ptr} /\ size' = 0
      BY <2>5 DEF TakeWhole, Fits, Splits, Returns, list, Blocks
    <3>2. memory_ptr \in Blocks \ {Trailer} /\ memory_ptr \in 0..Trailer
          /\ n \in 0..Trailer /\ memory_ptr < n /\ size \in Nat /\ size # 0
      BY <2>5, <3>1, HeapFacts, HeapConstants, TrailerFacts DEF HeapInv, CallOK, TakeWhole
    <3>3. Held' = Held \union {<<memory_ptr, n>>}
      BY <3>1, <3>2
    <3>4. Abstract!Unused(memory_ptr, n)
      BY <3>1, <3>2, FreeIsUnused
    <3>5. /\ n - memory_ptr - DM_OVERHEAD >= size
          /\ n - memory_ptr - DM_OVERHEAD < size + DM_OVERHEAD + dm_min_allocation
      BY <3>1, <3>2, HeapConstants, TrailerFacts DEF FreeSize
    <3> HIDE DEF n, Held
    <3>6. size' = 0 /\ 0 <= memory_ptr /\ n <= Trailer
      BY <3>1, <3>2, TrailerFacts
    <3> USE DEF Held
    <3>7. Abstract!Grant(memory_ptr, n)
      BY <3>2, <3>3, <3>4, <3>5, <3>6 DEF Abstract!Grant
    <3> QED
      BY <3>2, <3>7 DEF Abstract!Next, Abstract!Grant
  <2>6. ASSUME NEW h \in Blocks, FreeMem(h)
        PROVE  Abstract!Next
    <3> DEFINE start == IF MergesBefore(h) THEN dm_previous[h] ELSE h
    <3>1. /\ start \in Blocks' /\ start \in dm_memory_free \union {h}
          /\ \A g \in Blocks' \ {start} : dm_next'[g] = dm_next[g]
          /\ Blocks' = Blocks \ ((IF MergesBefore(h) THEN {h} ELSE {})
                                   \union (IF MergesBehind(h) THEN {dm_next[h]} ELSE {}))
      BY <2>6, FreeMemList
    <3>2. /\ h \in Blocks \ (dm_memory_free \union {Trailer}) /\ size = 0 /\ size' = 0
          /\ dm_memory_free' = (dm_memory_free \union {h}) \intersect Blocks'
      BY <2>6 DEF FreeMem, call, HeapInv, CallOK, Blocks
    <3>3. MergesBehind(h) => dm_next[h] \in dm_memory_free
      BY DEF MergesBehind
    <3> HIDE DEF start
    <3>4. Blocks' \ (dm_memory_free' \union {Trailer})
            = (Blocks \ (dm_memory_free \union {Trailer})) \ {h}
      BY <3>1, <3>2, <3>3
    <3>5. \A g \in Blocks' \ (dm_memory_free' \union {Trailer}) : dm_next'[g] = dm_next[g]
      BY <3>1, <3>2
    <3>6. Held' = Held \ {<<h, dm_next[h]>>} /\ <<h, dm_next[h]>> \in Held
      BY <3>2, <3>4, <3>5
    <3> QED
      BY <3>2, <3>6 DEF Abstract!Next, Abstract!Release
  <2>7. CASE UNCHANGED vars
    BY <2>7 DEF vars, list, call, Blocks
  <2> QED
    BY <2>1, <2>2, <2>3, <2>4, <2>5, <2>6, <2>7 DEF Next, Search
<1> QED
  BY <1>1, <1>2, HeapInvariant, PTL DEF Spec, ImplementsMemoryPool, Abstract!Spec
=============================================================================
