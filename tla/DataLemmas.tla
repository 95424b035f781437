----------------------------- MODULE DataLemmas -----------------------------
(***************************************************************************)
(* Facts about numbers and sums that several proofs need.                  *)
(*                                                                         *)
(* The induction rules of the library take a predicate, which none of the  *)
(* provers can be given.  The ones here take the set of what satisfies it: *)
(* a set of naturals that is not empty has a least element, because their  *)
(* initial segments are well-founded.                                      *)
(***************************************************************************)
EXTENDS Integers, Sums, FiniteSetTheorems, TLAPS

\* The least element is the one with the smallest segment 0..n.
LEMMA LeastNatural ==
  ASSUME NEW S \in SUBSET Nat, S # {}
  PROVE  \E n \in S : \A m \in S : n <= m
<1> DEFINE below == {0..n : n \in S}
<1>1. below \subseteq FiniteSubsetsOf(Nat) /\ below # {}
  <2>1. \A n \in S : 0..n \in SUBSET Nat /\ IsFiniteSet(0..n)
    BY FS_Interval
  <2> QED
    BY <2>1 DEF FiniteSubsetsOf
<1>2. IsWellFoundedOn(StrictSubsetOrdering(Nat), FiniteSubsetsOf(Nat))
  BY FS_StrictSubsetOrderingWellFounded
<1>3. \E x \in below : \A y \in below : ~ (<<y, x>> \in StrictSubsetOrdering(Nat))
  <2> HIDE DEF below
  <2> QED
    BY <1>1, <1>2, WFMin
<1>4. PICK n \in S : \A m \in S : ~ (<<0..m, 0..n>> \in StrictSubsetOrdering(Nat))
  BY <1>3
<1>5. ASSUME NEW m \in S, m < n PROVE FALSE
  <2>1. 0..m \in SUBSET Nat /\ 0..n \in SUBSET Nat /\ 0..m \subseteq 0..n /\ n \in 0..n /\ n \notin 0..m
    BY <1>5
  <2>2. <<0..m, 0..n>> \in StrictSubsetOrdering(Nat)
    BY <2>1 DEF StrictSubsetOrdering
  <2> QED
    BY <1>4, <2>2
<1> QED
  BY <1>5

\* Induction on the naturals, for the set of what it is about.
LEMMA Induction ==
  ASSUME NEW S, 0 \in S, \A n \in Nat : n \in S => n + 1 \in S
  PROVE  Nat \subseteq S
<1> DEFINE bad == Nat \ S
<1>1. SUFFICES ASSUME bad # {} PROVE FALSE
  OBVIOUS
<1>2. PICK n \in bad : \A m \in bad : n <= m
  BY <1>1, LeastNatural
<1>3. n # 0 /\ n - 1 \in Nat /\ n - 1 \notin bad
  BY <1>2
<1> QED
  BY <1>2, <1>3

-----------------------------------------------------------------------------
(***************************************************************************)
(* Sums.  The fold is a function on the subsets of the domain, which adds    *)
(* the numbers one by one in an order of its own; what it comes to does not  *)
(* depend on the order.                                                      *)
(***************************************************************************)

First(S) == CHOOSE x \in S : TRUE

\* A function that adds the numbers up over some subsets of a set.
AddsUp(sum, f, subsets) ==
  sum = [s \in subsets |-> IF s = {} THEN 0 ELSE sum[s \ {First(s)}] + f[First(s)]]

UpTo(T, n) == {s \in SUBSET T : Cardinality(s) <= n}

LEMMA SumExists ==
  ASSUME NEW T, IsFiniteSet(T), NEW f
  PROVE  \E sum : AddsUp(sum, f, SUBSET T)
<1> DEFINE good == {n \in Nat : \E sum : AddsUp(sum, f, UpTo(T, n))}
<1>1. \A s \in SUBSET T : IsFiniteSet(s) /\ Cardinality(s) \in Nat /\ (Cardinality(s) = 0 <=> s = {})
  BY FS_Subset, FS_CardinalityType, FS_EmptySet
<1>2. 0 \in good
  <2>1. \A s \in UpTo(T, 0) : s = {}
    BY <1>1 DEF UpTo
  <2>2. AddsUp([s \in UpTo(T, 0) |-> 0], f, UpTo(T, 0))
    BY <2>1 DEF AddsUp
  <2> QED
    BY <2>2
<1>3. ASSUME NEW n \in Nat, n \in good PROVE n + 1 \in good
  <2>1. PICK sum : AddsUp(sum, f, UpTo(T, n))
    BY <1>3
  <2> DEFINE next == [s \in UpTo(T, n + 1) |-> IF s = {} THEN 0 ELSE sum[s \ {First(s)}] + f[First(s)]]
  <2>2. \A s \in UpTo(T, n + 1) : s # {} => s \ {First(s)} \in UpTo(T, n)
    <3> SUFFICES ASSUME NEW s \in UpTo(T, n + 1), s # {} PROVE s \ {First(s)} \in UpTo(T, n)
      OBVIOUS
    <3>1. First(s) \in s
      BY DEF First
    <3>2. Cardinality(s \ {First(s)}) = Cardinality(s) - 1
      BY <1>1, <3>1, FS_RemoveElement DEF UpTo
    <3> QED
      BY <1>1, <3>2 DEF UpTo
  <2>3. UpTo(T, n) \subseteq UpTo(T, n + 1)
    BY <1>1 DEF UpTo
  <2>4. \A s \in UpTo(T, n) : next[s] = sum[s]
    BY <2>1, <2>3 DEF AddsUp
  <2>5. AddsUp(next, f, UpTo(T, n + 1))
    BY <2>2, <2>3, <2>4 DEF AddsUp
  <2> HIDE DEF next
  <2> QED
    BY <2>5
<1>4. Nat \subseteq good
  <2> HIDE DEF good
  <2> QED
    BY <1>2, <1>3, Induction
<1>5. PICK sum : AddsUp(sum, f, UpTo(T, Cardinality(T)))
  BY <1>1, <1>4
<1>6. UpTo(T, Cardinality(T)) = SUBSET T
  BY FS_Subset DEF UpTo
<1> QED
  BY <1>5, <1>6

AgreeOn(f, g, U) == \A x \in U : f[x] = g[x]

\* Two that add up agree wherever both do.
LEMMA SumsAgree ==
  ASSUME NEW T, NEW U, NEW f, NEW g, NEW sum, NEW other, IsFiniteSet(T), U \subseteq T, AgreeOn(f, g, U),
         AddsUp(sum, f, SUBSET T), AddsUp(other, g, SUBSET U)
  PROVE  \A s \in SUBSET U : sum[s] = other[s]
<1> DEFINE good == {n \in Nat : \A s \in UpTo(U, n) : sum[s] = other[s]}
<1>1. \A s \in SUBSET U : IsFiniteSet(s) /\ Cardinality(s) \in Nat /\ (Cardinality(s) = 0 <=> s = {})
  BY FS_Subset, FS_CardinalityType, FS_EmptySet
<1>2. \A s \in SUBSET U : /\ s = {} => sum[s] = 0 /\ other[s] = 0
                          /\ s # {} => /\ sum[s] = sum[s \ {First(s)}] + f[First(s)]
                                       /\ other[s] = other[s \ {First(s)}] + g[First(s)]
  BY DEF AddsUp
<1>3. 0 \in good
  <2>1. ASSUME NEW s \in UpTo(U, 0) PROVE sum[s] = other[s]
    <3>1. s \in SUBSET U /\ s = {}
      BY <1>1 DEF UpTo
    <3> QED
      BY <1>2, <3>1
  <2> QED
    BY <2>1
<1>4. ASSUME NEW n \in Nat, n \in good PROVE n + 1 \in good
  <2> SUFFICES ASSUME NEW s \in UpTo(U, n + 1), s # {} PROVE sum[s] = other[s]
    <3>1. \A s \in UpTo(U, n + 1) : s = {} => sum[s] = other[s]
      BY <1>2 DEF UpTo
    <3> QED
      BY <3>1
  <2>1. First(s) \in s /\ s \in SUBSET U
    BY DEF First, UpTo
  <2>2. s \ {First(s)} \in UpTo(U, n)
    BY <1>1, <2>1, FS_RemoveElement DEF UpTo
  <2> QED
    BY <1>2, <1>4, <2>1, <2>2 DEF AgreeOn
<1>5. Nat \subseteq good
  <2> HIDE DEF good
  <2> QED
    BY <1>3, <1>4, Induction
<1> QED
  BY <1>1, <1>5 DEF UpTo

LEMMA TotalAddsUp ==
  ASSUME NEW f, IsFiniteSet(DOMAIN f)
  PROVE  \E sum : AddsUp(sum, f, SUBSET (DOMAIN f)) /\ Total(f) = sum[DOMAIN f]
<1> DEFINE sum == CHOOSE h : h = [s \in SUBSET (DOMAIN f) |->
                    IF s = {} THEN 0 ELSE h[s \ {First(s)}] + f[First(s)]]
<1>1. AddsUp(sum, f, SUBSET (DOMAIN f))
  <2>1. \E h : h = [s \in SUBSET (DOMAIN f) |-> IF s = {} THEN 0 ELSE h[s \ {First(s)}] + f[First(s)]]
    <3>1. PICK h : AddsUp(h, f, SUBSET (DOMAIN f))
      BY SumExists
    <3>2. h = [s \in SUBSET (DOMAIN f) |-> IF s = {} THEN 0 ELSE h[s \ {First(s)}] + f[First(s)]]
      BY <3>1 DEF AddsUp
    <3> HIDE DEF sum
    <3> QED
      BY <3>2
  <2> QED
    BY <2>1 DEF AddsUp
<1>2. Total(f) = sum[DOMAIN f]
  BY DEF Total, FoldSet, MapThenFoldSet, First
<1> QED
  BY <1>1, <1>2

\* Without its first element, in the order of the fold.
LEMMA TotalFirst ==
  ASSUME NEW f, IsFiniteSet(DOMAIN f), DOMAIN f # {}
  PROVE  Total(f) = Total([x \in DOMAIN f \ {First(DOMAIN f)} |-> f[x]]) + f[First(DOMAIN f)]
<1> DEFINE U == DOMAIN f \ {First(DOMAIN f)}
           g == [x \in U |-> f[x]]
<1>1. PICK sum : AddsUp(sum, f, SUBSET (DOMAIN f)) /\ Total(f) = sum[DOMAIN f]
  BY TotalAddsUp
<1>2. U \in SUBSET (DOMAIN f) /\ IsFiniteSet(U) /\ DOMAIN g = U /\ \A x \in U : f[x] = g[x]
  BY FS_Subset
<1> HIDE DEF g, U
<1>3. PICK other : AddsUp(other, g, SUBSET U) /\ Total(g) = other[U]
  BY <1>2, TotalAddsUp
<1>4. \A s \in SUBSET U : sum[s] = other[s]
  <2>1. AgreeOn(f, g, U)
    BY <1>2 DEF AgreeOn
  <2> QED
    BY <1>1, <1>2, <1>3, <2>1, SumsAgree
<1>5. sum[DOMAIN f] = sum[U] + f[First(DOMAIN f)]
  BY <1>1 DEF AddsUp, U
<1> QED
  BY <1>1, <1>3, <1>4, <1>5 DEF g, U

LEMMA TotalEmpty ==
  ASSUME NEW f, DOMAIN f = {}
  PROVE  Total(f) = 0
<1>1. IsFiniteSet(DOMAIN f)
  BY FS_EmptySet
<1> QED
  BY <1>1, TotalAddsUp DEF AddsUp

Numbers(f)    == IsFiniteSet(DOMAIN f) /\ f \in [DOMAIN f -> Nat]
Without(f, x) == [y \in DOMAIN f \ {x} |-> f[y]]

LEMMA WithoutNumbers ==
  ASSUME NEW f, Numbers(f), NEW x \in DOMAIN f
  PROVE  /\ Numbers(Without(f, x)) /\ DOMAIN Without(f, x) = DOMAIN f \ {x}
         /\ \A y \in DOMAIN f \ {x} : Without(f, x)[y] = f[y]
         /\ Cardinality(DOMAIN f) \in Nat /\ Cardinality(DOMAIN Without(f, x)) = Cardinality(DOMAIN f) - 1
         /\ f[x] \in Nat
<1>1. IsFiniteSet(DOMAIN f \ {x}) /\ Cardinality(DOMAIN f \ {x}) = Cardinality(DOMAIN f) - 1
  BY FS_RemoveElement DEF Numbers
<1>2. Cardinality(DOMAIN f) \in Nat
  BY FS_CardinalityType DEF Numbers
<1>3. DOMAIN Without(f, x) = DOMAIN f \ {x} /\ \A y \in DOMAIN f \ {x} : Without(f, x)[y] = f[y]
  BY DEF Without
<1>4. Without(f, x) \in [DOMAIN f \ {x} -> Nat] /\ f[x] \in Nat
  BY DEF Numbers, Without
<1> QED
  BY <1>1, <1>2, <1>3, <1>4 DEF Numbers

LEMMA TotalStep ==
  ASSUME NEW f, Numbers(f), DOMAIN f # {}
  PROVE  First(DOMAIN f) \in DOMAIN f /\ Total(f) = Total(Without(f, First(DOMAIN f))) + f[First(DOMAIN f)]
<1>1. First(DOMAIN f) \in DOMAIN f
  BY DEF First
<1>2. Total(f) = Total(Without(f, First(DOMAIN f))) + f[First(DOMAIN f)]
  BY TotalFirst DEF Numbers, Without
<1> QED
  BY <1>1, <1>2

LEMMA TotalIsNatural ==
  ASSUME NEW f, Numbers(f)
  PROVE  Total(f) \in Nat
<1> DEFINE good == {n \in Nat : \A g : Numbers(g) /\ Cardinality(DOMAIN g) = n => Total(g) \in Nat}
<1>1. \A g : Numbers(g) => Cardinality(DOMAIN g) \in Nat /\ (Cardinality(DOMAIN g) = 0 <=> DOMAIN g = {})
  BY FS_CardinalityType, FS_EmptySet DEF Numbers
<1>2. 0 \in good
  BY <1>1, TotalEmpty
<1>3. ASSUME NEW n \in Nat, n \in good PROVE n + 1 \in good
  <2> SUFFICES ASSUME NEW g, Numbers(g), Cardinality(DOMAIN g) = n + 1 PROVE Total(g) \in Nat
    OBVIOUS
  <2> DEFINE x == First(DOMAIN g)
  <2>1. x \in DOMAIN g /\ Total(g) = Total(Without(g, x)) + g[x]
    BY <1>1, TotalStep
  <2> HIDE DEF x
  <2>2. Numbers(Without(g, x)) /\ Cardinality(DOMAIN Without(g, x)) = n /\ g[x] \in Nat
    <3>1. /\ Numbers(Without(g, x)) /\ g[x] \in Nat
          /\ Cardinality(DOMAIN Without(g, x)) = Cardinality(DOMAIN g) - 1
      BY <2>1, WithoutNumbers
    <3> QED
      BY <3>1
  <2>3. Total(Without(g, x)) \in Nat
    BY <1>3, <2>2
  <2> QED
    BY <2>1, <2>2, <2>3
<1>4. Nat \subseteq good
  <2> HIDE DEF good
  <2> QED
    BY <1>2, <1>3, Induction
<1> QED
  BY <1>1, <1>4

\* The order does not matter.
LEMMA TotalWithout ==
  ASSUME NEW f, Numbers(f), NEW x \in DOMAIN f
  PROVE  Total(f) = Total(Without(f, x)) + f[x]
<1> DEFINE good == {n \in Nat : \A g : Numbers(g) /\ Cardinality(DOMAIN g) = n =>
                      \A y \in DOMAIN g : Total(g) = Total(Without(g, y)) + g[y]}
<1>1. \A g : Numbers(g) => Cardinality(DOMAIN g) \in Nat /\ (Cardinality(DOMAIN g) = 0 <=> DOMAIN g = {})
  BY FS_CardinalityType, FS_EmptySet DEF Numbers
<1>2. 0 \in good
  BY <1>1
<1>3. ASSUME NEW n \in Nat, n \in good PROVE n + 1 \in good
  <2> SUFFICES ASSUME NEW g, Numbers(g), Cardinality(DOMAIN g) = n + 1, NEW y \in DOMAIN g
               PROVE  Total(g) = Total(Without(g, y)) + g[y]
    OBVIOUS
  <2> DEFINE z == First(DOMAIN g)
             a == Without(g, z)
             b == Without(g, y)
  <2>1. z \in DOMAIN g /\ Total(g) = Total(a) + g[z]
    BY TotalStep
  <2> HIDE DEF z
  <2>2. Numbers(a) /\ DOMAIN a = DOMAIN g \ {z} /\ Cardinality(DOMAIN a) = n /\ g[z] \in Nat
    <3>1. /\ Numbers(a) /\ DOMAIN a = DOMAIN g \ {z} /\ g[z] \in Nat
          /\ Cardinality(DOMAIN a) = Cardinality(DOMAIN g) - 1
      BY <2>1, WithoutNumbers
    <3> HIDE DEF a
    <3> QED
      BY <3>1
  <2>3. Numbers(b) /\ DOMAIN b = DOMAIN g \ {y} /\ Cardinality(DOMAIN b) = n /\ g[y] \in Nat
    <3>1. /\ Numbers(b) /\ DOMAIN b = DOMAIN g \ {y} /\ g[y] \in Nat
          /\ Cardinality(DOMAIN b) = Cardinality(DOMAIN g) - 1
      BY WithoutNumbers
    <3> HIDE DEF b
    <3> QED
      BY <3>1
  <2>4. CASE y = z
    BY <2>1, <2>4
  <2>5. CASE y # z
    <3>1. a[y] = g[y] /\ b[z] = g[z]
      BY <2>1, <2>5, WithoutNumbers
    <3>2. Without(a, y) = Without(b, z)
      BY <2>2, <2>3 DEF Without
    <3> HIDE DEF a, b
    <3>3. Total(a) = Total(Without(a, y)) + g[y]
      BY <1>3, <2>2, <2>5, <3>1
    <3>4. Total(b) = Total(Without(b, z)) + g[z]
      BY <1>3, <2>1, <2>3, <2>5, <3>1
    <3>5. Total(Without(a, y)) \in Nat
      <4>1. Numbers(Without(a, y))
        BY <2>2, <2>5, WithoutNumbers
      <4> QED
        BY <4>1, TotalIsNatural
    <3> QED
      BY <2>1, <2>2, <2>3, <3>2, <3>3, <3>4, <3>5 DEF b
  <2> QED
    BY <2>4, <2>5
<1>4. Nat \subseteq good
  <2> HIDE DEF good
  <2> QED
    BY <1>2, <1>3, Induction
<1> QED
  BY <1>1, <1>4

\* One more number; and numbers that are replaced one by one.
LEMMA TotalAdds ==
  ASSUME NEW f, Numbers(f), NEW x, x \notin DOMAIN f, NEW n \in Nat,
         NEW g, DOMAIN g = DOMAIN f \cup {x}, g = [y \in DOMAIN f \cup {x} |-> IF y = x THEN n ELSE f[y]]
  PROVE  Numbers(g) /\ Total(g) = Total(f) + n
<1>1. Numbers(g)
  <2>1. IsFiniteSet(DOMAIN f \cup {x})
    BY FS_AddElement DEF Numbers
  <2> QED
    BY <2>1 DEF Numbers
<1>2. Without(g, x) = f /\ g[x] = n /\ x \in DOMAIN g
  BY DEF Without, Numbers
<1> QED
  BY <1>1, <1>2, TotalWithout

LEMMA TotalOf ==
  ASSUME NEW S, IsFiniteSet(S), NEW f \in [S -> Nat]
  PROVE  Numbers(f) /\ Total(f) \in Nat
<1>1. Numbers(f)
  BY DEF Numbers
<1> QED
  BY <1>1, TotalIsNatural

Adjoined(f, x, n) == [y \in DOMAIN f \cup {x} |-> IF y = x THEN n ELSE f[y]]

LEMMA TotalAdjoined ==
  ASSUME NEW f, Numbers(f), NEW x, x \notin DOMAIN f, NEW n \in Nat
  PROVE  Total(Adjoined(f, x, n)) = Total(f) + n
<1>1. PICK g : g = Adjoined(f, x, n)
  OBVIOUS
<1>2. DOMAIN g = DOMAIN f \cup {x} /\ g = [y \in DOMAIN f \cup {x} |-> IF y = x THEN n ELSE f[y]]
  BY <1>1 DEF Adjoined
<1> QED
  BY <1>1, <1>2, TotalAdds

\* One more number at the end of a list of them.
Appends(f, g, n, m) ==
  f \in [1..n -> Nat] /\ g \in [1..n + 1 -> Nat] /\ g[n + 1] = m /\ \A i \in 1..n : g[i] = f[i]

LEMMA TotalAppends ==
  ASSUME NEW n \in Nat, NEW f, NEW g, NEW m \in Nat, Appends(f, g, n, m)
  PROVE  Total(f) \in Nat /\ Total(g) = Total(f) + m
<1>0. f \in [1..n -> Nat] /\ g \in [1..n + 1 -> Nat] /\ g[n + 1] = m /\ \A i \in 1..n : g[i] = f[i]
  BY DEF Appends
<1>1. Numbers(f) /\ Total(f) \in Nat
  <2>1. IsFiniteSet(1..n)
    BY FS_Interval
  <2> QED
    BY <1>0, <2>1, TotalOf
<1>2. DOMAIN f = 1..n /\ 1..n + 1 = DOMAIN f \cup {n + 1} /\ n + 1 \notin DOMAIN f
  BY <1>0
<1>3. g = Adjoined(f, n + 1, m)
  <2>1. \A y \in 1..n + 1 : g[y] = IF y = n + 1 THEN m ELSE f[y]
    BY <1>0
  <2>2. g = [y \in 1..n + 1 |-> g[y]]
    BY <1>0
  <2> QED
    BY <1>2, <2>1, <2>2 DEF Adjoined
<1>4. Total(Adjoined(f, n + 1, m)) = Total(f) + m
  BY <1>1, <1>2, TotalAdjoined
<1> QED
  BY <1>1, <1>3, <1>4

\* The smallest and the largest of some numbers.
LEMMA SmallestOf ==
  ASSUME NEW low \in Int, NEW high \in Int, NEW S \in SUBSET (low..high), S # {}
  PROVE  Min(S) \in S /\ \A x \in S : Min(S) <= x
<1> DEFINE offsets == {x - low : x \in S}
<1>0. \A x \in S : x - low \in Nat
  OBVIOUS
<1>1. offsets \in SUBSET Nat /\ offsets # {}
  BY <1>0
<1>2. PICK n \in offsets : \A m \in offsets : n <= m
  <2> HIDE DEF offsets
  <2> QED
    BY <1>1, LeastNatural
<1>3. PICK x \in S : n = x - low
  OBVIOUS
<1>4. \A y \in S : x <= y
  <2> SUFFICES ASSUME NEW y \in S PROVE x <= y
    OBVIOUS
  <2>1. y - low \in offsets
    OBVIOUS
  <2>2. n <= y - low
    BY <1>2, <2>1
  <2>3. x \in Int /\ y \in Int
    OBVIOUS
  <2> HIDE DEF offsets
  <2> QED
    BY <1>3, <2>2, <2>3
<1>5. \E z \in S : \A y \in S : z <= y
  BY <1>3, <1>4
<1> QED
  BY <1>5 DEF Min

LEMMA LargestOf ==
  ASSUME NEW low \in Int, NEW high \in Int, NEW S \in SUBSET (low..high), S # {}
  PROVE  Max(S) \in S /\ \A x \in S : x <= Max(S)
<1> DEFINE offsets == {high - x : x \in S}
<1>0. \A x \in S : high - x \in Nat
  OBVIOUS
<1>1. offsets \in SUBSET Nat /\ offsets # {}
  BY <1>0
<1>2. PICK n \in offsets : \A m \in offsets : n <= m
  <2> HIDE DEF offsets
  <2> QED
    BY <1>1, LeastNatural
<1>3. PICK x \in S : n = high - x
  OBVIOUS
<1>4. \A y \in S : x >= y
  <2> SUFFICES ASSUME NEW y \in S PROVE x >= y
    OBVIOUS
  <2>1. high - y \in offsets
    OBVIOUS
  <2>2. n <= high - y
    BY <1>2, <2>1
  <2>3. x \in Int /\ y \in Int
    OBVIOUS
  <2> HIDE DEF offsets
  <2> QED
    BY <1>3, <2>2, <2>3
<1>5. \E z \in S : \A y \in S : z >= y
  BY <1>3, <1>4
<1>6. Max(S) \in S /\ \A y \in S : Max(S) >= y
  BY <1>5 DEF Max
<1> QED
  BY <1>6
=============================================================================
