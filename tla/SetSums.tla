------------------------------ MODULE SetSums ------------------------------
(***************************************************************************)
(* Sums over finite sets: that the recursive definition has a solution,    *)
(* and how the sum changes with the set and with the terms.                *)
(***************************************************************************)
EXTENDS Integers, FiniteSets, FiniteSetTheorems, TLAPS

\* The element a sum takes first.
Any(s) == CHOOSE x \in s : TRUE

\* sum is the function that adds up the terms f over each set of U.
IsSum(sum, f, U) ==
    sum = [s \in SUBSET U |-> IF s = {} THEN 0 ELSE f[Any(s)] + sum[s \ {Any(s)}]]

SumOf(f, U) == CHOOSE sum : IsSum(sum, f, U)

Total(f, U, S) == SumOf(f, U)[S]
-----------------------------------------------------------------------------
\* Among sets of a finite set there is one that no other is a part of.
LEMMA SmallestSet ==
    ASSUME NEW U, IsFiniteSet(U), NEW B, \A t \in B : t \in SUBSET U, B # {}
    PROVE  \E s \in B : \A t \in B : t \subseteq s => t = s
<1>1. IsWellFoundedOn(StrictSubsetOrdering(U), SUBSET U)
  BY FS_StrictSubsetOrderingWellFounded, FS_FiniteSubsetsOfFinite
<1>2. PICK s \in B : \A t \in B : ~(<<t, s>> \in StrictSubsetOrdering(U))
  BY <1>1, WFMin, Zenon
<1>3. ASSUME NEW t \in B, t \subseteq s, t # s
      PROVE  <<t, s>> \in StrictSubsetOrdering(U)
  BY <1>3 DEF StrictSubsetOrdering
<1>4. \A t \in B : t \subseteq s => t = s
  BY <1>2, <1>3, Zenon
<1> QED
  BY <1>4

LEMMA AnyIs == \A s : s # {} => Any(s) \in s
BY DEF Any

\* A relation that holds all sums.
Sums(f, U, Q) ==
    /\ <<{}, 0>> \in Q
    /\ \A s \in SUBSET U, v \in Int :
         s # {} /\ <<s \ {Any(s)}, v>> \in Q => <<s, f[Any(s)] + v>> \in Q

\* The recursion has a solution: the least such relation is a function.
LEMMA SumExists ==
    ASSUME NEW U, IsFiniteSet(U), NEW f \in [U -> Int]
    PROVE  \E sum \in [SUBSET U -> Int] : IsSum(sum, f, U)
<1> DEFINE Pairs == (SUBSET U) \X Int
           R == {p \in Pairs : \A Q \in SUBSET Pairs : Sums(f, U, Q) => p \in Q}
           One(s) == \E v \in Int : <<s, v>> \in R /\ \A w \in Int : <<s, w>> \in R => w = v
<1>1. \A s \in SUBSET U : s # {} => Any(s) \in s /\ f[Any(s)] \in Int /\ s \ {Any(s)} \in SUBSET U
  BY AnyIs
<1>2. Sums(f, U, R)
  <2>1. <<{}, 0>> \in R
    <3>1. <<{}, 0>> \in Pairs
      OBVIOUS
    <3> QED
      BY <3>1 DEF Sums
  <2>2. ASSUME NEW s \in SUBSET U, NEW v \in Int, s # {}, <<s \ {Any(s)}, v>> \in R
        PROVE  <<s, f[Any(s)] + v>> \in R
    <3>1. <<s, f[Any(s)] + v>> \in Pairs
      BY <1>1, <2>2
    <3>2. ASSUME NEW Q \in SUBSET Pairs, Sums(f, U, Q) PROVE <<s, f[Any(s)] + v>> \in Q
      <4>1. <<s \ {Any(s)}, v>> \in Q
        BY <2>2, <3>2
      <4> QED
        BY <2>2, <3>2, <4>1 DEF Sums
    <3> QED
      BY <3>1, <3>2
  <2> HIDE DEF R
  <2> QED
    BY <2>1, <2>2 DEF Sums
\* What a pair is not needed for can be left out of the least relation.
<1>3. ASSUME NEW p \in R, Sums(f, U, R \ {p}) PROVE FALSE
  BY <1>3
<1>4. ASSUME NEW s \in SUBSET U, NEW v \in Int, <<s, v>> \in R,
             s = {} => v = 0,
             s # {} => \A u \in Int : <<s \ {Any(s)}, u>> \in R => v = f[Any(s)] + u
      PROVE  \A w \in Int : <<s, w>> \in R => w = v
  <2> SUFFICES ASSUME NEW w \in Int, <<s, w>> \in R, w # v PROVE FALSE
    OBVIOUS
  <2> DEFINE p == <<s, w>>
  <2> HIDE DEF R
  <2>1. <<{}, 0>> \in R \ {p}
    BY <1>2, <1>4 DEF Sums
  <2>2. ASSUME NEW t \in SUBSET U, NEW u \in Int, t # {}, <<t \ {Any(t)}, u>> \in R \ {p}
        PROVE  <<t, f[Any(t)] + u>> \in R \ {p}
    <3>1. <<t, f[Any(t)] + u>> \in R
      BY <1>2, <2>2 DEF Sums
    <3>2. CASE t = s
      <4>1. f[Any(t)] + u = v
        BY <3>2, <2>2, <1>4
      <4> QED
        BY <3>1, <4>1
    <3>3. CASE t # s
      BY <3>1, <3>3
    <3> QED
      BY <3>2, <3>3
  <2>3. Sums(f, U, R \ {p})
    BY <2>1, <2>2 DEF Sums
  <2> QED
    BY <2>3, <1>3
<1> HIDE DEF R
<1>5. ASSUME NEW s \in SUBSET U, \A t \in SUBSET U : t \subseteq s /\ t # s => One(t)
      PROVE  One(s)
  <2>1. CASE s = {}
    <3>1. <<s, 0>> \in R
      BY <1>2, <2>1 DEF Sums
    <3>2. \A w \in Int : <<s, w>> \in R => w = 0
      BY <2>1, <3>1, <1>4
    <3> QED
      BY <3>1, <3>2
  <2>2. CASE s # {}
    <3>1. One(s \ {Any(s)})
      BY <2>2, <1>1, <1>5
    <3>2. PICK v \in Int : /\ <<s \ {Any(s)}, v>> \in R
                           /\ \A w \in Int : <<s \ {Any(s)}, w>> \in R => w = v
      BY <3>1
    <3>3. PICK x \in Int : x = f[Any(s)] + v
      BY <1>1, <2>2
    <3>4. <<s, x>> \in R
      BY <1>2, <2>2, <3>2, <3>3 DEF Sums
    <3>5. \A u \in Int : <<s \ {Any(s)}, u>> \in R => x = f[Any(s)] + u
      BY <3>2, <3>3
    <3>6. \A w \in Int : <<s, w>> \in R => w = x
      BY <2>2, <3>4, <3>5, <1>4
    <3> QED
      BY <3>4, <3>6
  <2> QED
    BY <2>1, <2>2
<1>6. \A s \in SUBSET U : One(s)
  <2> DEFINE B == {s \in SUBSET U : ~One(s)}
  <2> SUFFICES ASSUME B # {} PROVE FALSE
    OBVIOUS
  <2> HIDE DEF One
  <2>1. \A t \in B : t \in SUBSET U
    OBVIOUS
  <2>2. PICK s \in B : \A t \in B : t \subseteq s => t = s
    <3> HIDE DEF B
    <3> QED
      BY <2>1, SmallestSet
  <2>3. \A t \in SUBSET U : t \subseteq s /\ t # s => One(t)
    BY <2>2
  <2> QED
    BY <2>2, <2>3, <1>5
<1> DEFINE sum == [s \in SUBSET U |-> CHOOSE v \in Int : <<s, v>> \in R]
<1>7. ASSUME NEW s \in SUBSET U
      PROVE  /\ sum[s] \in Int /\ <<s, sum[s]>> \in R
             /\ \A w \in Int : <<s, w>> \in R => w = sum[s]
  BY <1>6
<1>8. sum \in [SUBSET U -> Int]
  BY <1>7
<1>9. sum[{}] = 0
  BY <1>2, <1>7 DEF Sums
<1>10. ASSUME NEW s \in SUBSET U, s # {}
       PROVE  sum[s] = f[Any(s)] + sum[s \ {Any(s)}]
  <2>1. s \ {Any(s)} \in SUBSET U /\ f[Any(s)] \in Int
    BY <1>1, <1>10
  <2>2. sum[s \ {Any(s)}] \in Int /\ <<s \ {Any(s)}, sum[s \ {Any(s)}]>> \in R
    BY <2>1, <1>7
  <2> HIDE DEF sum
  <2>3. <<s, f[Any(s)] + sum[s \ {Any(s)}]>> \in R
    BY <1>2, <1>10, <2>2 DEF Sums
  <2>4. f[Any(s)] + sum[s \ {Any(s)}] \in Int
    BY <2>1, <2>2
  <2> QED
    BY <1>7, <2>3, <2>4
<1> HIDE DEF sum
<1>11. IsSum(sum, f, U)
  BY <1>8, <1>9, <1>10 DEF IsSum
<1> QED
  BY <1>8, <1>11

\* Every solution adds up the same.
LEMMA SumUnique ==
    ASSUME NEW U, IsFiniteSet(U), NEW f, NEW g, NEW V \in SUBSET U,
           NEW a, IsSum(a, f, U), NEW b, IsSum(b, g, V),
           \A x \in V : f[x] = g[x]
    PROVE  \A s \in SUBSET V : a[s] = b[s]
<1> DEFINE B == {s \in SUBSET V : a[s] # b[s]}
<1>1. SUFFICES ASSUME B # {} PROVE FALSE
  OBVIOUS
<1>2. \A t \in B : t \in SUBSET U
  OBVIOUS
<1>3. PICK s \in B : \A t \in B : t \subseteq s => t = s
  <2> HIDE DEF B
  <2> QED
    BY <1>1, <1>2, SmallestSet
<1>4. s \in SUBSET V /\ s \in SUBSET U /\ a[s] # b[s]
  BY <1>3
<1>5. CASE s = {}
  BY <1>4, <1>5 DEF IsSum
<1>6. CASE s # {}
  <2>1. Any(s) \in s
    BY <1>6, AnyIs
  <2>2. a[s \ {Any(s)}] = b[s \ {Any(s)}]
    BY <1>3, <1>4, <2>1
  <2>3. a[s] = f[Any(s)] + a[s \ {Any(s)}]
    BY <1>4, <1>6 DEF IsSum
  <2>4. b[s] = g[Any(s)] + b[s \ {Any(s)}]
    BY <1>4, <1>6 DEF IsSum
  <2>5. f[Any(s)] = g[Any(s)]
    BY <1>4, <2>1
  <2> QED
    BY <1>4, <2>2, <2>3, <2>4, <2>5
<1> QED
  BY <1>5, <1>6

LEMMA SumOfIs ==
    ASSUME NEW U, IsFiniteSet(U), NEW f \in [U -> Int]
    PROVE  SumOf(f, U) \in [SUBSET U -> Int] /\ IsSum(SumOf(f, U), f, U)
<1>1. PICK a \in [SUBSET U -> Int] : IsSum(a, f, U)
  BY SumExists
<1> DEFINE b == SumOf(f, U)
<1>2. IsSum(b, f, U)
  BY <1>1 DEF SumOf
<1> HIDE DEF b
<1>3. U \in SUBSET U /\ \A x \in U : f[x] = f[x]
  OBVIOUS
<1>4. \A s \in SUBSET U : a[s] = b[s]
  BY <1>1, <1>2, <1>3, SumUnique
<1>5. b \in [SUBSET U -> Int]
  BY <1>1, <1>2, <1>4 DEF IsSum
<1> QED
  BY <1>2, <1>5 DEF b

\* The laws of the total: nothing adds up to 0, an element counts once, and
\* only the terms of the set matter.
LEMMA TotalEmpty ==
    ASSUME NEW U, IsFiniteSet(U), NEW f \in [U -> Int]
    PROVE  Total(f, U, {}) = 0
<1> DEFINE sum == SumOf(f, U)
<1>1. IsSum(sum, f, U)
  BY SumOfIs
<1> HIDE DEF sum
<1>2. sum[{}] = 0
  BY <1>1 DEF IsSum
<1> QED
  BY <1>2 DEF Total, sum

LEMMA TotalType ==
    ASSUME NEW U, IsFiniteSet(U), NEW f \in [U -> Int], NEW S \in SUBSET U
    PROVE  Total(f, U, S) \in Int
<1>1. SumOf(f, U) \in [SUBSET U -> Int]
  BY SumOfIs
<1> QED
  BY <1>1 DEF Total

LEMMA TotalRemove ==
    ASSUME NEW U, IsFiniteSet(U), NEW f \in [U -> Int], NEW S \in SUBSET U, NEW x \in S
    PROVE  Total(f, U, S) = f[x] + Total(f, U, S \ {x})
<1> DEFINE sum == SumOf(f, U)
<1>1. IsSum(sum, f, U) /\ sum \in [SUBSET U -> Int]
  BY SumOfIs
<1> HIDE DEF sum
<1> DEFINE B == {s \in SUBSET U : \E y \in s : sum[s] # f[y] + sum[s \ {y}]}
<1>2. B = {} => sum[S] = f[x] + sum[S \ {x}]
  OBVIOUS
<1>3. ASSUME B # {} PROVE FALSE
  <2>1. \A t \in B : t \in SUBSET U
    OBVIOUS
  <2>2. PICK s \in B : \A t \in B : t \subseteq s => t = s
    <3> HIDE DEF B
    <3> QED
      BY <1>3, <2>1, SmallestSet
  <2>3. s \in SUBSET U
    OBVIOUS
  <2>4. PICK y \in s : sum[s] # f[y] + sum[s \ {y}]
    BY <2>2
  <2> DEFINE c == Any(s)
  <2>5. c \in s /\ sum[s] = f[c] + sum[s \ {c}]
    BY <1>1, <2>3, <2>4, AnyIs DEF IsSum
  <2> HIDE DEF c
  <2>6. y # c
    BY <2>4, <2>5
  <2>7. sum[s \ {c}] = f[y] + sum[(s \ {c}) \ {y}]
    <3>1. s \ {c} \notin B /\ y \in s \ {c}
      BY <2>2, <2>5, <2>6
    <3> QED
      BY <3>1
  <2>8. sum[s \ {y}] = f[c] + sum[(s \ {y}) \ {c}]
    <3>1. s \ {y} \notin B /\ c \in s \ {y}
      BY <2>2, <2>5, <2>6
    <3> QED
      BY <3>1
  <2>9. PICK r \in SUBSET U : r = (s \ {c}) \ {y} /\ r = (s \ {y}) \ {c}
    BY <2>3
  <2>10. f[c] \in Int /\ f[y] \in Int /\ sum[r] \in Int
    BY <1>1, <2>3, <2>5
  <2>11. sum[s \ {c}] = f[y] + sum[r] /\ sum[s \ {y}] = f[c] + sum[r]
    BY <2>7, <2>8, <2>9
  <2> HIDE DEF B
  <2> QED
    BY <2>4, <2>5, <2>10, <2>11
<1> QED
  BY <1>2, <1>3 DEF Total, sum

\* A sum over all sets of U is one over the sets of a part of U.
LEMMA SumRestricts ==
    ASSUME NEW U, NEW f, NEW V \in SUBSET U, NEW a, IsSum(a, f, U),
           NEW r, r = [s \in SUBSET V |-> a[s]]
    PROVE  IsSum(r, f, V)
<1>1. ASSUME NEW s \in SUBSET V
      PROVE  r[s] = IF s = {} THEN 0 ELSE f[Any(s)] + r[s \ {Any(s)}]
  <2>1. a[s] = IF s = {} THEN 0 ELSE f[Any(s)] + a[s \ {Any(s)}]
    BY DEF IsSum
  <2> QED
    BY <2>1
<1> QED
  BY <1>1 DEF IsSum

LEMMA TotalSame ==
    ASSUME NEW U, IsFiniteSet(U), NEW f \in [U -> Int], NEW g \in [U -> Int],
           NEW S \in SUBSET U, \A x \in S : f[x] = g[x]
    PROVE  Total(f, U, S) = Total(g, U, S)
<1> DEFINE a == SumOf(f, U)
           b == SumOf(g, U)
           r == [s \in SUBSET S |-> b[s]]
<1>1. IsSum(a, f, U)
  BY SumOfIs
<1>2. IsSum(b, g, U)
  BY SumOfIs
<1> HIDE DEF a, b
<1>3. r = [s \in SUBSET S |-> b[s]] /\ r[S] = b[S]
  OBVIOUS
<1> HIDE DEF r
<1>4. IsSum(r, g, S)
  BY <1>2, <1>3, SumRestricts
<1>5. \A s \in SUBSET S : a[s] = r[s]
  BY <1>1, <1>4, SumUnique
<1>6. a[S] = b[S]
  BY <1>3, <1>5
<1> QED
  BY <1>6 DEF Total, a, b

\* The recursion over a part of U has a solution, and each is the total.
LEMMA TotalOfPart ==
    ASSUME NEW U, IsFiniteSet(U), NEW f \in [U -> Int], NEW S \in SUBSET U
    PROVE  /\ \E sum : IsSum(sum, f, S)
           /\ \A sum : IsSum(sum, f, S) => sum[S] = Total(f, U, S)
<1> DEFINE a == SumOf(f, U)
<1>1. IsSum(a, f, U)
  BY SumOfIs
<1> HIDE DEF a
<1>2. PICK r : r = [s \in SUBSET S |-> a[s]]
  OBVIOUS
<1>3. IsSum(r, f, S)
  BY <1>1, <1>2, SumRestricts
<1>4. ASSUME NEW sum, IsSum(sum, f, S) PROVE sum[S] = a[S]
  <2>1. \A x \in S : f[x] = f[x]
    OBVIOUS
  <2> QED
    BY <1>1, <1>4, <2>1, SumUnique
<1> QED
  BY <1>3, <1>4 DEF Total, a

\* An element is added; one is exchanged for another.
LEMMA TotalAdd ==
    ASSUME NEW U, IsFiniteSet(U), NEW f \in [U -> Int],
           NEW S \in SUBSET U, NEW x \in U, x \notin S
    PROVE  Total(f, U, S \union {x}) = f[x] + Total(f, U, S)
<1>1. (S \union {x}) \ {x} = S /\ S \union {x} \in SUBSET U /\ x \in S \union {x}
  OBVIOUS
<1> QED
  BY <1>1, TotalRemove

LEMMA TotalReplace ==
    ASSUME NEW U, IsFiniteSet(U), NEW f \in [U -> Int], NEW g \in [U -> Int],
           NEW S \in SUBSET U, NEW x \in S, NEW T \in SUBSET U, NEW y \in T,
           S \ {x} = T \ {y}, \A z \in S \ {x} : f[z] = g[z]
    PROVE  Total(g, U, T) = Total(f, U, S) - f[x] + g[y]
<1> DEFINE R == S \ {x}
<1>1. R \in SUBSET U /\ f[x] \in Int /\ g[y] \in Int
  OBVIOUS
<1>2. Total(f, U, S) = f[x] + Total(f, U, R)
  BY TotalRemove
<1>3. Total(g, U, T) = g[y] + Total(g, U, R)
  BY TotalRemove
<1> HIDE DEF R
<1>4. Total(f, U, R) = Total(g, U, R) /\ Total(f, U, R) \in Int
  BY <1>1, TotalSame, TotalType DEF R
<1> QED
  BY <1>1, <1>2, <1>3, <1>4
=============================================================================
