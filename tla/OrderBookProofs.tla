-------------------------- MODULE OrderBookProofs --------------------------
(***************************************************************************)
(* The stored form of a book is sound for any number of orders, any prices *)
(* and sizes, and any sequence of adds (with the matching they cause),     *)
(* cancels, resizes, compactions and rebuilds: links, index, running sums  *)
(* and the best prices quoted agree.                                       *)
(*                                                                         *)
(* A level is linked when some walk w of n slots fits it (Shape): w lists  *)
(* the used slots once each, the links lead along w, the map finds each    *)
(* order, and the vacant slots are apart.  An operation changes w in one   *)
(* place.  The sum of the sizes is right because each operation takes or   *)
(* adds the size of one slot of the walk.  The loops of the code           *)
(* (match_against, compact, match_order, from_snapshot) are functions over *)
(* 0..n, and Recursion carries an invariant along them.  The book holds    *)
(* its index: each level holds just the orders of the index that have its  *)
(* side and price (Stored).  Matching leaves no level that crosses the     *)
(* taker unless it used the taker up (Swept), so the book never crosses    *)
(* (Uncrossed), and what BestFirst lists first is the top (FirstIsTop).    *)
(***************************************************************************)
EXTENDS OrderBook, TLAPS, FiniteSetTheorems, WellFoundedInduction

-----------------------------------------------------------------------------
(* Induction over numbers, with the property as a set.                     *)

\* A set of numbers has a least one.
LEMMA LeastNumber ==
  ASSUME NEW T, T \subseteq Nat, T # {}
  PROVE  \E m \in T : \A x \in T : m <= x
<1> DEFINE R == {ss \in Nat \X Nat : ss[1] < ss[2]}
<1>1. IsWellFoundedOn(R, Nat)
  BY NatLessThanWellFounded DEF OpToRel
<1>2. \E m \in T : \A y \in T : ~(<<y, m>> \in R)
  <2> HIDE DEF R
  <2>1. QED
    BY <1>1, WFMin
<1>3. PICK m \in T : \A y \in T : ~(<<y, m>> \in R)
  BY <1>2
<1>4. \A y \in T : ~(y < m)
  BY <1>3
<1>5. QED
  BY <1>4

\* A set of numbers with 0 and every successor is all of them.
LEMMA AllNumbers ==
  ASSUME NEW G, 0 \in G, \A n \in Nat : n \in G => n + 1 \in G
  PROVE  \A n \in Nat : n \in G
<1> SUFFICES ASSUME NEW k \in Nat, k \notin G PROVE FALSE
  OBVIOUS
<1>1. PICK T : T = {n \in Nat : n \notin G}
  OBVIOUS
<1>2. PICK m \in T : \A x \in T : m <= x
  BY <1>1, LeastNumber
<1>3. m \in Nat /\ m \notin G /\ m # 0
  BY <1>1, <1>2
<1>4. m - 1 \in Nat /\ m - 1 \notin T
  BY <1>2, <1>3
<1>5. m - 1 \in G
  BY <1>1, <1>4
<1>6. (m - 1) + 1 \in G
  BY <1>4, <1>5
<1>7. QED
  BY <1>3, <1>6

-----------------------------------------------------------------------------
(* The sum of the sizes in a set of slots, which AggregateExact folds over *)
(* the subsets of the set in an order that is not known.                   *)

\* The sizes in the slots S, summed as AggregateExact does.
SumIn(slab, S) == MapThenSumSet(LAMBDA sid : slab[sid].sz, S)

Sized(slab, S) == IsFiniteSet(S) /\ \A sid \in S : slab[sid].sz \in Nat

FirstOf(s) == CHOOSE x \in s : TRUE

SumRule(slab, f, s) == IF s = {} THEN 0 ELSE slab[FirstOf(s)].sz + f[s \ {FirstOf(s)}]

Sums(slab, S, f) == f = [s \in SUBSET S |-> SumRule(slab, f, s)]

\* The subsets of S with at most n members.
UpTo(S, n) == {s \in SUBSET S : Cardinality(s) <= n}

\* The sum is what the chosen solution of the recursion gives for the whole set.
LEMMA SumInIs ==
  ASSUME NEW slab, NEW S
  PROVE  SumIn(slab, S) = (CHOOSE f : Sums(slab, S, f))[S]
BY DEF SumIn, MapThenSumSet, MapThenFoldSet, Sums, SumRule, FirstOf

\* Taking the first member out of a subset leaves a smaller one.
LEMMA OneLess ==
  ASSUME NEW S, IsFiniteSet(S), NEW n \in Nat, NEW s \in UpTo(S, n + 1), s # {}
  PROVE  FirstOf(s) \in S /\ s \ {FirstOf(s)} \in UpTo(S, n)
<1>1. PICK x : x = FirstOf(s)
  OBVIOUS
<1>2. x \in s
  BY <1>1 DEF FirstOf
<1>3. s \in SUBSET S /\ Cardinality(s) <= n + 1
  BY DEF UpTo
<1>4. IsFiniteSet(s) /\ Cardinality(s) \in Nat
  BY <1>3, FS_Subset, FS_CardinalityType
<1>5. Cardinality(s \ {x}) = Cardinality(s) - 1
  BY <1>2, <1>4, FS_RemoveElement
<1>6. Cardinality(s \ {x}) <= n
  BY <1>3, <1>4, <1>5
<1>7. QED
  BY <1>1, <1>2, <1>3, <1>6 DEF UpTo

\* The only subset without members is the empty one.
LEMMA UpToZero ==
  ASSUME NEW S, IsFiniteSet(S), NEW s \in UpTo(S, 0)
  PROVE  s = {}
<1>1. IsFiniteSet(s) /\ Cardinality(s) <= 0
  BY FS_Subset DEF UpTo
<1>2. Cardinality(s) \in Nat
  BY <1>1, FS_CardinalityType
<1>3. QED
  BY <1>1, <1>2, FS_EmptySet

\* No subset of a finite set has more members than the set.
LEMMA UpToAll ==
  ASSUME NEW S, IsFiniteSet(S)
  PROVE  UpTo(S, Cardinality(S)) = SUBSET S
BY FS_Subset DEF UpTo

\* The recursion that defines the sum has a solution.
LEMMA SumExists ==
  ASSUME NEW slab, NEW S, IsFiniteSet(S)
  PROVE  \E f : Sums(slab, S, f)
<1>1. PICK G : G = {n \in Nat : \E f : f = [s \in UpTo(S, n) |-> SumRule(slab, f, s)]}
  OBVIOUS
<1>2. 0 \in G
  <2>1. PICK f : f = [s \in UpTo(S, 0) |-> 0]
    OBVIOUS
  <2>2. \A s \in UpTo(S, 0) : SumRule(slab, f, s) = 0
    BY UpToZero DEF SumRule
  <2>3. f = [s \in UpTo(S, 0) |-> SumRule(slab, f, s)]
    BY <2>1, <2>2
  <2>4. QED
    BY <1>1, <2>3
<1>3. ASSUME NEW n \in Nat, n \in G PROVE n + 1 \in G
  <2>1. PICK f : f = [s \in UpTo(S, n) |-> SumRule(slab, f, s)]
    BY <1>1, <1>3
  <2>2. PICK g : g = [s \in UpTo(S, n + 1) |-> SumRule(slab, f, s)]
    OBVIOUS
  <2>3. \A s \in UpTo(S, n) : s \in UpTo(S, n + 1)
    <3> SUFFICES ASSUME NEW s \in UpTo(S, n) PROVE s \in UpTo(S, n + 1)
      OBVIOUS
    <3>1. s \in SUBSET S /\ Cardinality(s) <= n
      BY DEF UpTo
    <3>2. Cardinality(s) \in Nat
      BY <3>1, FS_Subset, FS_CardinalityType
    <3>3. Cardinality(s) <= n + 1
      BY <3>1, <3>2
    <3>4. QED
      BY <3>1, <3>3 DEF UpTo
  <2>4. \A s \in UpTo(S, n) : g[s] = f[s]
    BY <2>1, <2>2, <2>3
  <2>5. ASSUME NEW s \in UpTo(S, n + 1) PROVE SumRule(slab, g, s) = SumRule(slab, f, s)
    <3>1. CASE s = {}
      BY <3>1 DEF SumRule
    <3>2. CASE s # {}
      <4>1. s \ {FirstOf(s)} \in UpTo(S, n)
        BY <3>2, OneLess
      <4>2. QED
        BY <2>4, <4>1 DEF SumRule
    <3>3. QED
      BY <3>1, <3>2
  <2>6. g = [s \in UpTo(S, n + 1) |-> SumRule(slab, g, s)]
    BY <2>2, <2>5
  <2>7. QED
    BY <1>1, <2>6
<1>4. Cardinality(S) \in G
  BY <1>2, <1>3, AllNumbers, FS_CardinalityType
<1>5. QED
  BY <1>1, <1>4, UpToAll DEF Sums

\* What is true of every subset of a finite set by taking one member after the other.
LEMMA SubsetInduction ==
  ASSUME NEW S, IsFiniteSet(S), NEW P, {} \in P,
         \A s \in SUBSET S : s # {} /\ s \ {FirstOf(s)} \in P => s \in P
  PROVE  \A s \in SUBSET S : s \in P
<1>1. PICK G : G = {n \in Nat : \A s \in UpTo(S, n) : s \in P}
  OBVIOUS
<1>2. 0 \in G
  <2>1. \A s \in UpTo(S, 0) : s \in P
    BY UpToZero
  <2>2. QED
    BY <1>1, <2>1
<1>3. ASSUME NEW n \in Nat, n \in G PROVE n + 1 \in G
  <2>1. ASSUME NEW s \in UpTo(S, n + 1) PROVE s \in P
    <3>1. CASE s = {}
      BY <3>1
    <3>2. CASE s # {}
      <4>1. s \ {FirstOf(s)} \in UpTo(S, n)
        BY <3>2, OneLess
      <4>2. s \ {FirstOf(s)} \in P
        BY <1>1, <1>3, <4>1
      <4>3. s \in SUBSET S
        BY DEF UpTo
      <4>4. QED
        BY <3>2, <4>2, <4>3
    <3>3. QED
      BY <3>1, <3>2
  <2>2. QED
    BY <1>1, <2>1
<1>4. Cardinality(S) \in G
  BY <1>2, <1>3, AllNumbers, FS_CardinalityType
<1>5. QED
  BY <1>1, <1>4, UpToAll

\* The recursion has one solution, on the subsets of any smaller set too.
LEMMA SumIsUnique ==
  ASSUME NEW slab, NEW S, NEW T \in SUBSET S, IsFiniteSet(T), NEW f, NEW g, Sums(slab, S, f), Sums(slab, T, g)
  PROVE  \A s \in SUBSET T : f[s] = g[s]
<1>1. PICK P : P = {s \in SUBSET T : f[s] = g[s]}
  OBVIOUS
<1>2. \A s \in SUBSET T : f[s] = SumRule(slab, f, s) /\ g[s] = SumRule(slab, g, s)
  <2>1. \A s \in SUBSET T : s \in SUBSET S
    OBVIOUS
  <2>2. QED
    BY <2>1 DEF Sums
<1>3. {} \in P
  <2>1. SumRule(slab, f, {}) = 0 /\ SumRule(slab, g, {}) = 0
    BY DEF SumRule
  <2>2. QED
    BY <1>1, <1>2, <2>1
<1>4. ASSUME NEW s \in SUBSET T, s # {}, s \ {FirstOf(s)} \in P PROVE s \in P
  <2>1. f[s \ {FirstOf(s)}] = g[s \ {FirstOf(s)}]
    BY <1>1, <1>4
  <2>2. SumRule(slab, f, s) = SumRule(slab, g, s)
    BY <2>1 DEF SumRule
  <2>3. QED
    BY <1>1, <1>2, <2>2
<1>5. QED
  BY <1>1, <1>3, <1>4, SubsetInduction

\* The sizes of no slots sum to 0.
LEMMA SumOfNone ==
  ASSUME NEW slab
  PROVE  SumIn(slab, {}) = 0
<1>1. PICK f : f = CHOOSE g : Sums(slab, {}, g)
  OBVIOUS
<1>2. Sums(slab, {}, f)
  BY <1>1, SumExists, FS_EmptySet
<1>3. f[{}] = SumRule(slab, f, {})
  BY <1>2 DEF Sums
<1>4. SumRule(slab, f, {}) = 0
  BY DEF SumRule
<1>5. QED
  BY <1>1, <1>3, <1>4, SumInIs

\* The fold takes out the first member and goes on with the others.
LEMMA SumOfFirst ==
  ASSUME NEW slab, NEW S, IsFiniteSet(S), S # {}
  PROVE  SumIn(slab, S) = slab[FirstOf(S)].sz + SumIn(slab, S \ {FirstOf(S)})
<1>1. PICK T : T = S \ {FirstOf(S)}
  OBVIOUS
<1>2. IsFiniteSet(T) /\ T \in SUBSET S
  BY <1>1, FS_Subset
<1>3. PICK f : f = CHOOSE h : Sums(slab, S, h)
  OBVIOUS
<1>4. PICK g : g = CHOOSE h : Sums(slab, T, h)
  OBVIOUS
<1>5. Sums(slab, S, f) /\ Sums(slab, T, g)
  BY <1>2, <1>3, <1>4, SumExists
<1>6. f[T] = g[T]
  BY <1>2, <1>5, SumIsUnique
<1>7. f[S] = SumRule(slab, f, S)
  BY <1>5 DEF Sums
<1>8. SumRule(slab, f, S) = slab[FirstOf(S)].sz + f[T]
  BY <1>1 DEF SumRule
<1>9. SumIn(slab, S) = f[S] /\ SumIn(slab, T) = g[T]
  BY <1>3, <1>4, SumInIs
<1>10. QED
  BY <1>1, <1>6, <1>7, <1>8, <1>9

\* The member that is taken first is a member.
LEMMA FirstIsIn ==
  ASSUME NEW s, s # {}
  PROVE  FirstOf(s) \in s
BY DEF FirstOf

\* The sum of finitely many sizes is a number.
LEMMA SumType ==
  ASSUME NEW slab, NEW S, Sized(slab, S)
  PROVE  SumIn(slab, S) \in Nat
<1>1. PICK P : P = {s \in SUBSET S : SumIn(slab, s) \in Nat}
  OBVIOUS
<1>2. {} \in P
  BY <1>1, SumOfNone
<1>3. ASSUME NEW s \in SUBSET S, s # {}, s \ {FirstOf(s)} \in P PROVE s \in P
  <2>1. IsFiniteSet(s)
    BY FS_Subset DEF Sized
  <2>2. slab[FirstOf(s)].sz \in Nat
    BY <1>3, FirstIsIn DEF Sized
  <2>3. SumIn(slab, s \ {FirstOf(s)}) \in Nat
    BY <1>1, <1>3
  <2>4. SumIn(slab, s) \in Nat
    BY <1>3, <2>1, <2>2, <2>3, SumOfFirst
  <2>5. QED
    BY <1>1, <2>4
<1>4. \A s \in SUBSET S : s \in P
  BY <1>2, <1>3, SubsetInduction DEF Sized
<1>5. QED
  BY <1>1, <1>4

\* ... but it may as well take out any other.
LEMMA SumOfAny ==
  ASSUME NEW slab, NEW S, Sized(slab, S), NEW x \in S
  PROVE  SumIn(slab, S) = slab[x].sz + SumIn(slab, S \ {x})
<1>1. PICK P : P = {s \in SUBSET S : \A y \in s : SumIn(slab, s) = slab[y].sz + SumIn(slab, s \ {y})}
  OBVIOUS
<1>2. {} \in P
  BY <1>1
<1>3. PICK G : G = {n \in Nat : \A s \in UpTo(S, n) : s \in P}
  OBVIOUS
<1>4. 0 \in G
  <2>1. \A s \in UpTo(S, 0) : s \in P
    BY <1>2, UpToZero DEF Sized
  <2>2. QED
    BY <1>3, <2>1
<1>5. ASSUME NEW n \in Nat, n \in G PROVE n + 1 \in G
  <2>1. ASSUME NEW s \in UpTo(S, n + 1), NEW y \in s
        PROVE  SumIn(slab, s) = slab[y].sz + SumIn(slab, s \ {y})
    <3>1. s \in SUBSET S /\ IsFiniteSet(s) /\ s # {}
      BY <2>1, FS_Subset DEF UpTo, Sized
    <3>2. PICK z : z = FirstOf(s)
      OBVIOUS
    <3>3. z \in s
      BY <3>1, <3>2, FirstIsIn
    <3>4. SumIn(slab, s) = slab[z].sz + SumIn(slab, s \ {z})
      BY <3>1, <3>2, SumOfFirst
    <3>5. CASE y = z
      BY <3>4, <3>5
    <3>6. CASE y # z
      <4>1. s \ {z} \in UpTo(S, n)
        BY <3>1, <3>2, OneLess DEF Sized
      <4>2. s \ {y} \in UpTo(S, n)
        <5>1. Cardinality(s) \in Nat /\ Cardinality(s) <= n + 1
          BY <3>1, FS_CardinalityType DEF UpTo
        <5>2. Cardinality(s \ {y}) = Cardinality(s) - 1
          BY <3>1, FS_RemoveElement
        <5>3. Cardinality(s \ {y}) <= n
          BY <5>1, <5>2
        <5>4. QED
          BY <3>1, <5>3 DEF UpTo
      <4>3. s \ {z} \in P /\ s \ {y} \in P
        BY <1>3, <1>5, <4>1, <4>2
      <4>4. y \in s \ {z} /\ z \in s \ {y} /\ (s \ {z}) \ {y} = (s \ {y}) \ {z}
        BY <3>3, <3>6
      <4>5. PICK rest : rest = SumIn(slab, (s \ {z}) \ {y})
        OBVIOUS
      <4>6. SumIn(slab, s \ {z}) = slab[y].sz + rest /\ SumIn(slab, s \ {y}) = slab[z].sz + rest
        BY <1>1, <4>3, <4>4, <4>5
      <4>7. slab[y].sz \in Nat /\ slab[z].sz \in Nat
        BY <3>1, <3>3 DEF Sized
      <4>8. rest \in Nat
        <5>1. (s \ {z}) \ {y} \in SUBSET S
          BY <3>1
        <5>2. IsFiniteSet((s \ {z}) \ {y})
          BY <5>1, FS_Subset DEF Sized
        <5>3. QED
          BY <4>5, <5>1, <5>2, SumType DEF Sized
      <4>9. QED
        BY <3>4, <4>6, <4>7, <4>8
    <3>7. QED
      BY <3>5, <3>6
  <2>2. \A s \in UpTo(S, n + 1) : s \in P
    <3> SUFFICES ASSUME NEW s \in UpTo(S, n + 1) PROVE s \in P
      OBVIOUS
    <3>1. s \in SUBSET S
      BY DEF UpTo
    <3>2. \A y \in s : SumIn(slab, s) = slab[y].sz + SumIn(slab, s \ {y})
      BY <2>1
    <3>3. QED
      BY <1>1, <3>1, <3>2
  <2>3. QED
    BY <1>3, <2>2
<1>6. Cardinality(S) \in G
  BY <1>4, <1>5, AllNumbers, FS_CardinalityType DEF Sized
<1>7. S \in P
  BY <1>3, <1>6, UpToAll DEF Sized
<1>8. QED
  BY <1>1, <1>7

\* The sum depends on the sizes only.
LEMMA SumOfSame ==
  ASSUME NEW slab, NEW other, NEW S, IsFiniteSet(S), \A sid \in S : slab[sid].sz = other[sid].sz
  PROVE  SumIn(slab, S) = SumIn(other, S)
<1>1. PICK P : P = {s \in SUBSET S : SumIn(slab, s) = SumIn(other, s)}
  OBVIOUS
<1>2. {} \in P
  BY <1>1, SumOfNone
<1>3. ASSUME NEW s \in SUBSET S, s # {}, s \ {FirstOf(s)} \in P PROVE s \in P
  <2>1. IsFiniteSet(s)
    BY FS_Subset
  <2>2. slab[FirstOf(s)].sz = other[FirstOf(s)].sz
    BY <1>3, FirstIsIn
  <2>3. SumIn(slab, s \ {FirstOf(s)}) = SumIn(other, s \ {FirstOf(s)})
    BY <1>1, <1>3
  <2>4. SumIn(slab, s) = SumIn(other, s)
    BY <1>3, <2>1, <2>2, <2>3, SumOfFirst
  <2>5. QED
    BY <1>1, <2>4
<1>4. \A s \in SUBSET S : s \in P
  BY <1>2, <1>3, SubsetInduction
<1>5. QED
  BY <1>1, <1>4


-----------------------------------------------------------------------------
(* Recursive functions over 0..n.                                          *)

\* What holds of 0 and of every next number holds of all up to n.
LEMMA UpwardsTo ==
  ASSUME NEW n \in Nat, NEW P, 0 \in P, \A i \in 1..n : i - 1 \in P => i \in P
  PROVE  \A i \in 0..n : i \in P
<1>1. PICK G : G = {m \in Nat : m <= n => m \in P}
  OBVIOUS
<1>2. 0 \in G
  BY <1>1
<1>3. ASSUME NEW m \in Nat, m \in G PROVE m + 1 \in G
  <2>1. m + 1 <= n => m + 1 \in 1..n /\ (m + 1) - 1 = m /\ m <= n
    OBVIOUS
  <2>2. m + 1 <= n => m + 1 \in P
    BY <1>1, <1>3, <2>1
  <2>3. QED
    BY <1>1, <2>2
<1>4. \A m \in Nat : m \in G
  BY <1>2, <1>3, AllNumbers
<1>5. QED
  BY <1>1, <1>4

\* f is what the steps make of base.
Runs(n, base, step, f) == f = [i \in 0..n |-> IF i = 0 THEN base ELSE step[<<i, f[i - 1]>>]]

\* A recursion whose steps lead from V[i - 1] to V[i] has a solution, and its
\* values are in V.
LEMMA Recursion ==
  ASSUME NEW n \in Nat, NEW V, NEW base \in V[0], NEW step,
         \A i \in 1..n : \A v \in V[i - 1] : step[<<i, v>>] \in V[i]
  PROVE  \E f : Runs(n, base, step, f) /\ \A i \in 0..n : f[i] \in V[i]
<1>1. PICK P : P = {m \in 0..n : \E f : /\ f = [i \in 0..m |-> IF i = 0 THEN base ELSE step[<<i, f[i - 1]>>]]
                                        /\ \A i \in 0..m : f[i] \in V[i]}
  OBVIOUS
<1>2. 0 \in P
  <2>1. PICK f : f = [i \in 0..0 |-> base]
    OBVIOUS
  <2>2. f = [i \in 0..0 |-> IF i = 0 THEN base ELSE step[<<i, f[i - 1]>>]]
    BY <2>1
  <2>3. \A i \in 0..0 : f[i] \in V[i]
    BY <2>1
  <2>4. QED
    BY <1>1, <2>2, <2>3
<1>3. ASSUME NEW m \in 1..n, m - 1 \in P PROVE m \in P
  <2>1. PICK k \in Nat : m = k + 1 /\ k \in 0..n
    OBVIOUS
  <2>2. k \in P
    BY <1>3, <2>1
  <2>3. PICK f : /\ f = [i \in 0..k |-> IF i = 0 THEN base ELSE step[<<i, f[i - 1]>>]]
                 /\ \A i \in 0..k : f[i] \in V[i]
    BY <1>1, <2>2
  <2>4. PICK g : g = [i \in 0..m |-> IF i <= k THEN f[i] ELSE step[<<i, f[i - 1]>>]]
    OBVIOUS
  <2>5. \A i \in 0..k : g[i] = f[i]
    BY <2>1, <2>4
  <2>6. g[m] = step[<<m, f[k]>>] /\ g[m] \in V[m]
    <3>1. g[m] = step[<<m, f[k]>>]
      BY <2>1, <2>4
    <3>2. f[k] \in V[m - 1]
      BY <2>1, <2>3
    <3>3. QED
      BY <3>1, <3>2
  <2>7. ASSUME NEW i \in 0..m PROVE g[i] = IF i = 0 THEN base ELSE step[<<i, g[i - 1]>>]
    <3>1. CASE i = m
      <4>1. i - 1 = k /\ i # 0 /\ g[k] = f[k]
        BY <2>1, <2>5, <3>1
      <4>2. QED
        BY <2>6, <3>1, <4>1
    <3>2. CASE i # m /\ i # 0
      <4>1. i \in 0..k /\ i - 1 \in 0..k
        BY <2>1, <3>2
      <4>2. f[i] = step[<<i, f[i - 1]>>]
        BY <2>3, <3>2, <4>1
      <4>3. QED
        BY <2>5, <3>2, <4>1, <4>2
    <3>3. CASE i = 0
      <4>1. 0 \in 0..k /\ f[0] = base
        BY <2>1, <2>3
      <4>2. QED
        BY <2>5, <3>3, <4>1
    <3>4. QED
      BY <3>1, <3>2, <3>3
  <2>8. PICK h : h = [i \in 0..m |-> IF i = 0 THEN base ELSE step[<<i, g[i - 1]>>]]
    OBVIOUS
  <2>9. g = h
    <3>1. \A i \in 0..m : g[i] = h[i]
      BY <2>7, <2>8
    <3>2. QED
      BY <2>4, <2>8, <3>1
  <2>10. \A i \in 0..m : g[i] \in V[i]
    <3> SUFFICES ASSUME NEW i \in 0..m PROVE g[i] \in V[i]
      OBVIOUS
    <3>1. CASE i = m
      BY <2>6, <3>1
    <3>2. CASE i # m
      <4>1. i \in 0..k
        BY <2>1, <3>2
      <4>2. QED
        BY <2>3, <2>5, <4>1
    <3>3. QED
      BY <3>1, <3>2
  <2>11. g = [i \in 0..m |-> IF i = 0 THEN base ELSE step[<<i, g[i - 1]>>]]
    BY <2>8, <2>9
  <2>12. \E c : /\ c = [i \in 0..m |-> IF i = 0 THEN base ELSE step[<<i, c[i - 1]>>]]
                /\ \A i \in 0..m : c[i] \in V[i]
    BY <2>10, <2>11
  <2>13. QED
    <3>1. m \in 0..n
      OBVIOUS
    <3>2. QED
      BY <1>1, <2>12, <3>1
<1>4. \A i \in 0..n : i \in P
  BY <1>2, <1>3, UpwardsTo
<1>5. n \in P
  BY <1>4
<1>6. QED
  BY <1>1, <1>5 DEF Runs

-----------------------------------------------------------------------------
(* Nodes.                                                                  *)

Node == [key : Oid, sz : Nat, next : Nat, prev : Nat]

WithNext(nd, v) == [key |-> nd.key, sz |-> nd.sz, next |-> v, prev |-> nd.prev]
WithPrev(nd, v) == [key |-> nd.key, sz |-> nd.sz, next |-> nd.next, prev |-> v]
WithSz(nd, v) == [key |-> nd.key, sz |-> v, next |-> nd.next, prev |-> nd.prev]

\* The types of a node's fields.
LEMMA NodeTypes ==
  ASSUME NEW nd \in Node
  PROVE  nd.key \in Oid /\ nd.sz \in Nat /\ nd.next \in Nat /\ nd.prev \in Nat
BY DEF Node

\* A node with one field set, written as a record.
LEMMA NodeChanges ==
  ASSUME NEW nd \in Node, NEW v
  PROVE  /\ [nd EXCEPT !.next = v] = WithNext(nd, v)
         /\ [nd EXCEPT !.prev = v] = WithPrev(nd, v)
         /\ [nd EXCEPT !.sz = v] = WithSz(nd, v)
BY DEF Node, WithNext, WithPrev, WithSz

-----------------------------------------------------------------------------
(* The record of a level.                                                  *)

\* The functions from a part of S into T.
Maps(S, T) == UNION {[D -> T] : D \in SUBSET S}

\* What it takes to be a function from a part of S into T.
LEMMA MapIs ==
  ASSUME NEW S, NEW T, NEW f
  PROVE  f \in Maps(S, T) <=> DOMAIN f \subseteq S /\ f \in [DOMAIN f -> T]
<1>1. ASSUME f \in Maps(S, T) PROVE DOMAIN f \subseteq S /\ f \in [DOMAIN f -> T]
  <2>1. PICK D \in SUBSET S : f \in [D -> T]
    BY <1>1 DEF Maps
  <2>2. DOMAIN f = D
    BY <2>1
  <2>3. QED
    BY <2>1, <2>2
<1>2. ASSUME DOMAIN f \subseteq S, f \in [DOMAIN f -> T] PROVE f \in Maps(S, T)
  BY <1>2 DEF Maps
<1>3. QED
  BY <1>1, <1>2

\* A function with a value set at x: its domain, and its values.
LEMMA WithIs ==
  ASSUME NEW S, NEW T, NEW f \in Maps(S, T), NEW x \in S, NEW v \in T, NEW F, F = With(f, x, v)
  PROVE  /\ F \in Maps(S, T)
         /\ \A y : y \in DOMAIN F <=> y \in DOMAIN f \/ y = x
         /\ F[x] = v
         /\ \A y \in DOMAIN f : y # x => F[y] = f[y]
<1>1. DOMAIN f \subseteq S /\ f \in [DOMAIN f -> T]
  BY MapIs
<1>2. F \in [DOMAIN f \cup {x} -> T]
  BY <1>1 DEF With
<1>3. F \in Maps(S, T)
  BY <1>1, <1>2, MapIs
<1>4. QED
  BY <1>3 DEF With

\* A function without x: its domain, and its values.
LEMMA WithoutIs ==
  ASSUME NEW S, NEW T, NEW f \in Maps(S, T), NEW x, NEW F, F = Without(f, x)
  PROVE  /\ F \in Maps(S, T)
         /\ \A y : y \in DOMAIN F <=> y \in DOMAIN f /\ y # x
         /\ \A y \in DOMAIN F : F[y] = f[y]
<1>1. DOMAIN f \subseteq S /\ f \in [DOMAIN f -> T]
  BY MapIs
<1>2. F \in [DOMAIN f \ {x} -> T]
  BY <1>1 DEF Without, Restrict
<1>3. F \in Maps(S, T)
  BY <1>1, <1>2, MapIs
<1>4. QED
  BY <1>3 DEF Without, Restrict

\* A slab with a node put in is a slab.
LEMMA SlabGets ==
  ASSUME NEW slab \in Maps(Nat, Node), NEW sid \in Nat, NEW node \in Node
  PROVE  With(slab, sid, node) \in Maps(Nat, Node)
<1>1. DOMAIN slab \subseteq Nat /\ slab \in [DOMAIN slab -> Node]
  BY MapIs
<1>2. PICK F : F = With(slab, sid, node)
  OBVIOUS
<1>3. F \in [DOMAIN slab \cup {sid} -> Node]
  BY <1>1, <1>2 DEF With
<1>4. DOMAIN F \subseteq Nat /\ F \in [DOMAIN F -> Node]
  BY <1>1, <1>3
<1>5. QED
  BY <1>2, <1>4, MapIs

LevelSet ==
  [key_to_sid : Maps(Oid, Nat), slab : Maps(Nat, Node), vacant : Seq(Nat), capacity : Nat,
   head : Nat, tail : Nat, total_sz : Nat, saturated : BOOLEAN]

\* The types of a level's fields.
LEMMA LevelTypes ==
  ASSUME NEW l \in LevelSet
  PROVE  /\ l.key_to_sid \in Maps(Oid, Nat) /\ l.slab \in Maps(Nat, Node) /\ l.vacant \in Seq(Nat)
         /\ l.capacity \in Nat /\ l.head \in Nat /\ l.tail \in Nat /\ l.total_sz \in Nat
         /\ l.saturated \in BOOLEAN
BY DEF LevelSet

\* The parts of a level that the links are about, and the sum.
SameSlots(r, l) == /\ r.key_to_sid = l.key_to_sid /\ r.vacant = l.vacant /\ r.capacity = l.capacity
SameEnds(r, l) == r.head = l.head /\ r.tail = l.tail
SameSum(r, l) == r.total_sz = l.total_sz /\ r.saturated = l.saturated

\* A level with another slab is a level, and the rest of it is as before.
LEMMA SetSlab ==
  ASSUME NEW l \in LevelSet, NEW v \in Maps(Nat, Node), NEW r, r = [l EXCEPT !.slab = v]
  PROVE  r \in LevelSet /\ r.slab = v /\ SameSlots(r, l) /\ SameEnds(r, l) /\ SameSum(r, l)
BY DEF LevelSet, SameSlots, SameEnds, SameSum

\* The same of the map from oids to slots.
LEMMA SetKeys ==
  ASSUME NEW l \in LevelSet, NEW v \in Maps(Oid, Nat), NEW r, r = [l EXCEPT !.key_to_sid = v]
  PROVE  /\ r \in LevelSet /\ r.key_to_sid = v /\ r.slab = l.slab
         /\ r.vacant = l.vacant /\ r.capacity = l.capacity /\ SameEnds(r, l) /\ SameSum(r, l)
BY DEF LevelSet, SameEnds, SameSum

\* The same of the vacant slots.
LEMMA SetVacant ==
  ASSUME NEW l \in LevelSet, NEW v \in Seq(Nat), NEW r, r = [l EXCEPT !.vacant = v]
  PROVE  /\ r \in LevelSet /\ r.vacant = v /\ r.slab = l.slab
         /\ r.key_to_sid = l.key_to_sid /\ r.capacity = l.capacity /\ SameEnds(r, l) /\ SameSum(r, l)
BY DEF LevelSet, SameEnds, SameSum

\* The same of the capacity.
LEMMA SetCapacity ==
  ASSUME NEW l \in LevelSet, NEW v \in Nat, NEW r, r = [l EXCEPT !.capacity = v]
  PROVE  /\ r \in LevelSet /\ r.capacity = v /\ r.slab = l.slab
         /\ r.key_to_sid = l.key_to_sid /\ r.vacant = l.vacant /\ SameEnds(r, l) /\ SameSum(r, l)
BY DEF LevelSet, SameEnds, SameSum

\* The same of the head.
LEMMA SetHead ==
  ASSUME NEW l \in LevelSet, NEW v \in Nat, NEW r, r = [l EXCEPT !.head = v]
  PROVE  /\ r \in LevelSet /\ r.head = v /\ r.tail = l.tail /\ r.slab = l.slab
         /\ SameSlots(r, l) /\ SameSum(r, l)
BY DEF LevelSet, SameSlots, SameSum

\* The same of the tail.
LEMMA SetTail ==
  ASSUME NEW l \in LevelSet, NEW v \in Nat, NEW r, r = [l EXCEPT !.tail = v]
  PROVE  /\ r \in LevelSet /\ r.tail = v /\ r.head = l.head /\ r.slab = l.slab
         /\ SameSlots(r, l) /\ SameSum(r, l)
BY DEF LevelSet, SameSlots, SameSum

\* The same of the flag that the sum has been cut.
LEMMA SetFlag ==
  ASSUME NEW l \in LevelSet, NEW f \in BOOLEAN, NEW r, r = [l EXCEPT !.saturated = f]
  PROVE  /\ r \in LevelSet /\ r.saturated = f /\ r.total_sz = l.total_sz /\ r.slab = l.slab
         /\ SameSlots(r, l) /\ SameEnds(r, l)
BY DEF LevelSet, SameSlots, SameEnds

\* The same of the running sum.
LEMMA SetTotal ==
  ASSUME NEW l \in LevelSet, NEW v \in Nat, NEW r, r = [l EXCEPT !.total_sz = v]
  PROVE  /\ r \in LevelSet /\ r.total_sz = v /\ r.saturated = l.saturated /\ r.slab = l.slab
         /\ SameSlots(r, l) /\ SameEnds(r, l)
BY DEF LevelSet, SameSlots, SameEnds

\* A used slot holds a node.
LEMMA NodeIn ==
  ASSUME NEW l \in LevelSet, NEW x \in DOMAIN l.slab
  PROVE  l.slab[x] \in Node /\ x \in Nat
<1>1. l.slab \in [DOMAIN l.slab -> Node] /\ DOMAIN l.slab \subseteq Nat
  BY LevelTypes, MapIs
<1>2. QED
  BY <1>1

\* A node with another link or size is a node.
LEMMA NodeWith ==
  ASSUME NEW l \in LevelSet, NEW x \in DOMAIN l.slab, NEW v \in Nat
  PROVE  WithNext(l.slab[x], v) \in Node /\ WithPrev(l.slab[x], v) \in Node /\ WithSz(l.slab[x], v) \in Node
<1>1. PICK nd \in Node : nd = l.slab[x]
  BY NodeIn
<1>2. WithNext(nd, v) \in Node /\ WithPrev(nd, v) \in Node /\ WithSz(nd, v) \in Node
  BY DEF Node, WithNext, WithPrev, WithSz
<1>3. QED
  BY <1>1, <1>2

\* A slab with another node in a used slot is a slab.
LEMMA NodeAt ==
  ASSUME NEW l \in LevelSet, NEW x \in DOMAIN l.slab, NEW nd \in Node
  PROVE  [l.slab EXCEPT ![x] = nd] \in Maps(Nat, Node)
<1>1. l.slab \in [DOMAIN l.slab -> Node] /\ DOMAIN l.slab \subseteq Nat
  BY LevelTypes, MapIs
<1>2. PICK g : g = [l.slab EXCEPT ![x] = nd]
  OBVIOUS
<1>3. DOMAIN g = DOMAIN l.slab /\ g \in [DOMAIN l.slab -> Node]
  BY <1>1, <1>2
<1>4. QED
  BY <1>1, <1>2, <1>3, MapIs

\* A change of one node, and nothing else.
LEMMA SetNextIs ==
  ASSUME NEW l \in LevelSet, NEW x \in DOMAIN l.slab, NEW v \in Nat, NEW r, r = SetNext(l, x, v)
  PROVE  /\ r \in LevelSet /\ SameSlots(r, l) /\ SameEnds(r, l) /\ SameSum(r, l)
         /\ r.slab = [l.slab EXCEPT ![x] = WithNext(l.slab[x], v)]
<1>1. PICK nd \in Node : nd = l.slab[x]
  BY NodeIn
<1>2. [nd EXCEPT !.next = v] = WithNext(nd, v)
  BY NodeChanges
<1>3. r = [l EXCEPT !.slab[x].next = v]
  BY DEF SetNext
<1>4. PICK s : s = [l.slab EXCEPT ![x] = WithNext(nd, v)]
  OBVIOUS
<1>5. r = [l EXCEPT !.slab = s]
  BY <1>1, <1>2, <1>3, <1>4
<1>6. s \in Maps(Nat, Node)
  <2>1. WithNext(nd, v) \in Node
    BY <1>1, NodeWith
  <2>2. QED
    BY <1>4, <2>1, NodeAt
<1>7. r \in LevelSet /\ r.slab = s /\ SameSlots(r, l) /\ SameEnds(r, l) /\ SameSum(r, l)
  BY <1>5, <1>6, SetSlab
<1>8. QED
  BY <1>1, <1>4, <1>7

\* Setting a back link changes that node and nothing else.
LEMMA SetPrevIs ==
  ASSUME NEW l \in LevelSet, NEW x \in DOMAIN l.slab, NEW v \in Nat, NEW r, r = SetPrev(l, x, v)
  PROVE  /\ r \in LevelSet /\ SameSlots(r, l) /\ SameEnds(r, l) /\ SameSum(r, l)
         /\ r.slab = [l.slab EXCEPT ![x] = WithPrev(l.slab[x], v)]
<1>1. PICK nd \in Node : nd = l.slab[x]
  BY NodeIn
<1>2. [nd EXCEPT !.prev = v] = WithPrev(nd, v)
  BY NodeChanges
<1>3. r = [l EXCEPT !.slab[x].prev = v]
  BY DEF SetPrev
<1>4. PICK s : s = [l.slab EXCEPT ![x] = WithPrev(nd, v)]
  OBVIOUS
<1>5. r = [l EXCEPT !.slab = s]
  BY <1>1, <1>2, <1>3, <1>4
<1>6. s \in Maps(Nat, Node)
  <2>1. WithPrev(nd, v) \in Node
    BY <1>1, NodeWith
  <2>2. QED
    BY <1>4, <2>1, NodeAt
<1>7. r \in LevelSet /\ r.slab = s /\ SameSlots(r, l) /\ SameEnds(r, l) /\ SameSum(r, l)
  BY <1>5, <1>6, SetSlab
<1>8. QED
  BY <1>1, <1>4, <1>7

SetSz(l, sid, s) == [l EXCEPT !.slab[sid].sz = s]

\* Setting a size changes that node and nothing else.
LEMMA SetSzIs ==
  ASSUME NEW l \in LevelSet, NEW x \in DOMAIN l.slab, NEW v \in Nat, NEW r, r = SetSz(l, x, v)
  PROVE  /\ r \in LevelSet /\ SameSlots(r, l) /\ SameEnds(r, l) /\ SameSum(r, l)
         /\ r.slab = [l.slab EXCEPT ![x] = WithSz(l.slab[x], v)]
<1>1. PICK nd \in Node : nd = l.slab[x]
  BY NodeIn
<1>2. [nd EXCEPT !.sz = v] = WithSz(nd, v)
  BY NodeChanges
<1>3. r = [l EXCEPT !.slab[x].sz = v]
  BY DEF SetSz
<1>4. PICK s : s = [l.slab EXCEPT ![x] = WithSz(nd, v)]
  OBVIOUS
<1>5. r = [l EXCEPT !.slab = s]
  BY <1>1, <1>2, <1>3, <1>4
<1>6. s \in Maps(Nat, Node)
  <2>1. WithSz(nd, v) \in Node
    BY <1>1, NodeWith
  <2>2. QED
    BY <1>4, <2>1, NodeAt
<1>7. r \in LevelSet /\ r.slab = s /\ SameSlots(r, l) /\ SameEnds(r, l) /\ SameSum(r, l)
  BY <1>5, <1>6, SetSlab
<1>8. QED
  BY <1>1, <1>4, <1>7
-----------------------------------------------------------------------------
(* A level as a walk: the slots in queue order, from the head on.          *)

\* w lists n slots, none twice: those in use.
Cells(slab, w, n) ==
  /\ n \in Nat
  /\ w \in [1..n -> Nat \ {0}]
  /\ \A i, j \in 1..n : w[i] = w[j] => i = j
  /\ slab \in [DOMAIN slab -> Node]
  /\ \A i \in 1..n : w[i] \in DOMAIN slab
  /\ \A sid \in DOMAIN slab : \E i \in 1..n : w[i] = sid

SlotBefore(w, i) == IF i = 1 THEN None ELSE w[i - 1]
SlotAfter(w, n, i) == IF i = n THEN None ELSE w[i + 1]

Ends(head, tail, w, n) ==
  /\ head = (IF n = 0 THEN None ELSE w[1])
  /\ tail = (IF n = 0 THEN None ELSE w[n])

Links(slab, w, n) ==
  \A i \in 1..n : slab[w[i]].prev = SlotBefore(w, i) /\ slab[w[i]].next = SlotAfter(w, n, i)

\* The walk with slot sid in place i.
Spliced(w, n, i, sid) == [j \in 1..(n + 1) |-> IF j < i THEN w[j] ELSE IF j = i THEN sid ELSE w[j - 1]]

\* The walk without place i.
Cut(w, n, i) == [j \in 1..(n - 1) |-> IF j < i THEN w[j] ELSE w[j + 1]]

\* The slab with a node in slot sid, linked in between the two that it names.
SlabWith(slab, sid, node) ==
  [x \in DOMAIN slab \cup {sid} |->
     IF x = sid THEN node
     ELSE IF x = node.prev THEN WithNext(slab[x], sid)
     ELSE IF x = node.next THEN WithPrev(slab[x], sid)
     ELSE slab[x]]

\* The slab without the node in slot sid.
SlabWithout(slab, sid) ==
  [x \in DOMAIN slab \ {sid} |->
     IF x = slab[sid].prev THEN WithNext(slab[x], slab[sid].next)
     ELSE IF x = slab[sid].next THEN WithPrev(slab[x], slab[sid].prev)
     ELSE slab[x]]

\* With a node in a fresh slot, the longer walk lists each used slot once.
LEMMA SpliceCells ==
  ASSUME NEW slab, NEW w, NEW n, Cells(slab, w, n),
         NEW i \in 1..(n + 1), NEW sid \in Nat \ {0}, sid \notin DOMAIN slab, NEW node \in Node
  PROVE  Cells(SlabWith(slab, sid, node), Spliced(w, n, i, sid), n + 1)
<1> DEFINE W == Spliced(w, n, i, sid)
           S == SlabWith(slab, sid, node)
<1>1. /\ n \in Nat /\ w \in [1..n -> Nat \ {0}] /\ \A j, k \in 1..n : w[j] = w[k] => j = k
      /\ slab \in [DOMAIN slab -> Node] /\ \A j \in 1..n : w[j] \in DOMAIN slab
      /\ \A x \in DOMAIN slab : \E j \in 1..n : w[j] = x
  BY DEF Cells
<1>2. \A j \in 1..(n + 1) : W[j] = IF j < i THEN w[j] ELSE IF j = i THEN sid ELSE w[j - 1]
  BY DEF Spliced
<1>3. W \in [1..(n + 1) -> Nat \ {0}]
  <2>1. \A j \in 1..(n + 1) : W[j] \in Nat \ {0}
    BY <1>1, <1>2
  <2>2. QED
    BY <2>1 DEF Spliced
<1>4. \A j, k \in 1..(n + 1) : W[j] = W[k] => j = k
  <2> SUFFICES ASSUME NEW j \in 1..(n + 1), NEW k \in 1..(n + 1), j < k PROVE W[j] # W[k]
    BY <1>1, <1>3
  <2>1. CASE k < i
    BY <1>1, <1>2, <2>1
  <2>2. CASE k = i
    <3>1. W[j] = w[j] /\ j \in 1..n /\ W[k] = sid
      BY <1>1, <1>2, <2>2
    <3>2. QED
      BY <1>1, <3>1
  <2>3. CASE k > i
    <3>1. W[k] = w[k - 1] /\ k - 1 \in 1..n
      BY <1>1, <1>2, <2>3
    <3>2. CASE j < i
      BY <1>1, <1>2, <2>3, <3>1, <3>2
    <3>3. CASE j = i
      BY <1>1, <1>2, <3>1, <3>3
    <3>4. CASE j > i
      <4>1. W[j] = w[j - 1] /\ j - 1 \in 1..n /\ j - 1 # k - 1
        BY <1>1, <1>2, <3>4
      <4>2. QED
        BY <1>1, <3>1, <4>1
    <3>5. QED
      BY <1>1, <3>2, <3>3, <3>4
  <2>4. QED
    BY <1>1, <2>1, <2>2, <2>3
<1>5. DOMAIN S = DOMAIN slab \cup {sid}
  BY DEF SlabWith
<1>6. S \in [DOMAIN S -> Node]
  <2> SUFFICES ASSUME NEW x \in DOMAIN S PROVE S[x] \in Node
    BY <1>5 DEF SlabWith
  <2>1. CASE x = sid
    BY <2>1, <1>5 DEF SlabWith
  <2>2. CASE x # sid
    <3>1. slab[x] \in Node
      BY <1>1, <1>5, <2>2
    <3>2. WithNext(slab[x], sid) \in Node /\ WithPrev(slab[x], sid) \in Node
      BY <3>1, NodeTypes DEF Node, WithNext, WithPrev
    <3>3. QED
      BY <1>5, <2>2, <3>1, <3>2 DEF SlabWith
  <2>3. QED
    BY <2>1, <2>2
<1>7. \A j \in 1..(n + 1) : W[j] \in DOMAIN S
  BY <1>1, <1>2, <1>5
<1>8. \A x \in DOMAIN S : \E j \in 1..(n + 1) : W[j] = x
  <2> SUFFICES ASSUME NEW x \in DOMAIN S PROVE \E j \in 1..(n + 1) : W[j] = x
    OBVIOUS
  <2>1. CASE x = sid
    <3>1. W[i] = sid
      BY <1>1, <1>2
    <3>2. QED
      BY <2>1, <3>1
  <2>2. CASE x # sid
    <3>1. PICK k \in 1..n : w[k] = x
      BY <1>1, <1>5, <2>2
    <3>2. CASE k < i
      <4>1. k \in 1..(n + 1) /\ W[k] = x
        BY <1>1, <1>2, <3>1, <3>2
      <4>2. QED
        BY <4>1
    <3>3. CASE k >= i
      <4>1. k + 1 \in 1..(n + 1) /\ W[k + 1] = x
        BY <1>1, <1>2, <3>1, <3>3
      <4>2. QED
        BY <4>1
    <3>4. QED
      BY <1>1, <3>2, <3>3
  <2>3. QED
    BY <2>1, <2>2
<1> HIDE DEF W, S
<1>9. Cells(S, W, n + 1)
  BY <1>1, <1>3, <1>4, <1>6, <1>7, <1>8 DEF Cells
<1>10. QED
  BY <1>9 DEF W, S

\* ... and the links follow it, if the new node names its two neighbours.
LEMMA SpliceLinks ==
  ASSUME NEW slab, NEW w, NEW n, Cells(slab, w, n), Links(slab, w, n),
         NEW i \in 1..(n + 1), NEW sid \in Nat \ {0}, sid \notin DOMAIN slab, NEW node \in Node,
         node.prev = SlotBefore(w, i), node.next = (IF i = n + 1 THEN None ELSE w[i])
  PROVE  Links(SlabWith(slab, sid, node), Spliced(w, n, i, sid), n + 1)
<1> DEFINE W == Spliced(w, n, i, sid)
           S == SlabWith(slab, sid, node)
<1>1. /\ n \in Nat /\ w \in [1..n -> Nat \ {0}] /\ \A j, k \in 1..n : w[j] = w[k] => j = k
      /\ slab \in [DOMAIN slab -> Node] /\ \A j \in 1..n : w[j] \in DOMAIN slab
  BY DEF Cells
<1>2. \A j \in 1..(n + 1) : W[j] = IF j < i THEN w[j] ELSE IF j = i THEN sid ELSE w[j - 1]
  BY DEF Spliced
<1>3. \A j \in 1..n : slab[w[j]].prev = SlotBefore(w, j) /\ slab[w[j]].next = SlotAfter(w, n, j)
  BY DEF Links
<1>4. \A j \in 1..n : slab[w[j]] \in Node /\ w[j] # sid
  BY <1>1
<1>5. \A j \in 1..n :
         S[w[j]] = IF j = i - 1 THEN WithNext(slab[w[j]], sid)
                   ELSE IF j = i THEN WithPrev(slab[w[j]], sid) ELSE slab[w[j]]
  <2> SUFFICES ASSUME NEW j \in 1..n
               PROVE  S[w[j]] = IF j = i - 1 THEN WithNext(slab[w[j]], sid)
                                ELSE IF j = i THEN WithPrev(slab[w[j]], sid) ELSE slab[w[j]]
    OBVIOUS
  <2>1. w[j] = node.prev <=> j = i - 1
    <3>1. CASE i = 1
      BY <1>1, <3>1 DEF SlotBefore, None
    <3>2. CASE i # 1
      <4>1. i - 1 \in 1..n /\ node.prev = w[i - 1]
        BY <1>1, <3>2 DEF SlotBefore
      <4>2. QED
        BY <1>1, <4>1
    <3>3. QED
      BY <3>1, <3>2
  <2>2. w[j] = node.next <=> j = i
    BY <1>1 DEF None
  <2>3. w[j] \in DOMAIN slab \cup {sid} /\ w[j] # sid
    BY <1>1, <1>4
  <2>4. QED
    BY <2>1, <2>2, <2>3 DEF SlabWith
<1>6. S[sid] = node
  BY DEF SlabWith
<1>7. \A j \in 1..n : /\ S[w[j]].prev = (IF j = i THEN sid ELSE SlotBefore(w, j))
                      /\ S[w[j]].next = (IF j = i - 1 THEN sid ELSE SlotAfter(w, n, j))
  <2> SUFFICES ASSUME NEW j \in 1..n
               PROVE  /\ S[w[j]].prev = (IF j = i THEN sid ELSE SlotBefore(w, j))
                      /\ S[w[j]].next = (IF j = i - 1 THEN sid ELSE SlotAfter(w, n, j))
    OBVIOUS
  <2> HIDE DEF S
  <2>1. slab[w[j]] \in Node /\ slab[w[j]].prev = SlotBefore(w, j) /\ slab[w[j]].next = SlotAfter(w, n, j)
    BY <1>3, <1>4
  <2>2. /\ WithNext(slab[w[j]], sid).prev = slab[w[j]].prev
        /\ WithNext(slab[w[j]], sid).next = sid
        /\ WithPrev(slab[w[j]], sid).prev = sid
        /\ WithPrev(slab[w[j]], sid).next = slab[w[j]].next
    BY DEF WithNext, WithPrev
  <2>3. i \in Nat /\ j \in Nat
    BY <1>1
  <2>4. CASE j = i - 1
    BY <1>5, <2>1, <2>2, <2>3, <2>4
  <2>5. CASE j = i
    BY <1>5, <2>1, <2>2, <2>3, <2>5
  <2>6. CASE j # i /\ j # i - 1
    BY <1>5, <2>1, <2>6
  <2>7. QED
    BY <2>4, <2>5, <2>6
<1> HIDE DEF S, W
<1>8. ASSUME NEW j \in 1..(n + 1)
      PROVE  S[W[j]].prev = SlotBefore(W, j) /\ S[W[j]].next = SlotAfter(W, n + 1, j)
  <2>1. CASE j < i
    <3>1. j \in 1..n /\ W[j] = w[j] /\ j # i /\ j # n + 1
      BY <1>1, <1>2, <2>1
    <3>2. SlotBefore(W, j) = SlotBefore(w, j)
      BY <1>1, <1>2, <2>1, <3>1 DEF SlotBefore
    <3>3. SlotAfter(W, n + 1, j) = IF j = i - 1 THEN sid ELSE SlotAfter(w, n, j)
      BY <1>1, <1>2, <2>1, <3>1 DEF SlotAfter
    <3>4. QED
      BY <1>7, <3>1, <3>2, <3>3
  <2>2. CASE j = i
    <3>1. W[j] = sid
      BY <1>2, <2>2
    <3>2. SlotBefore(W, j) = SlotBefore(w, i)
      BY <1>1, <1>2, <2>2 DEF SlotBefore
    <3>3. SlotAfter(W, n + 1, j) = IF i = n + 1 THEN None ELSE w[i]
      BY <1>1, <1>2, <2>2 DEF SlotAfter
    <3>4. QED
      BY <1>6, <3>1, <3>2, <3>3
  <2>3. CASE j > i
    <3>1. PICK k : k = j - 1
      OBVIOUS
    <3>2. k \in 1..n /\ W[j] = w[k] /\ k # i - 1 /\ k >= i /\ j = k + 1
      BY <1>1, <1>2, <2>3, <3>1
    <3>3. SlotBefore(W, j) = IF k = i THEN sid ELSE SlotBefore(w, k)
      <4>1. SlotBefore(W, j) = W[k] /\ k \in 1..(n + 1)
        <5>1. j # 1 /\ k \in 1..(n + 1)
          BY <1>1, <3>2
        <5>2. QED
          BY <3>1, <5>1 DEF SlotBefore
      <4>2. CASE k = i
        BY <1>2, <4>1, <4>2
      <4>3. CASE k # i
        <5>1. k > i /\ k # 1 /\ W[k] = w[k - 1]
          BY <1>1, <1>2, <3>2, <4>1, <4>3
        <5>2. QED
          BY <4>1, <4>3, <5>1 DEF SlotBefore
      <4>4. QED
        BY <4>2, <4>3
    <3>4. SlotAfter(W, n + 1, j) = SlotAfter(w, n, k)
      <4>1. CASE k = n
        <5>1. j = n + 1
          BY <3>2, <4>1
        <5>2. QED
          BY <4>1, <5>1 DEF SlotAfter
      <4>2. CASE k # n
        <5>1. j # n + 1 /\ j + 1 \in 1..(n + 1) /\ ~(j + 1 < i) /\ j + 1 # i /\ (j + 1) - 1 = k + 1
          BY <1>1, <3>2, <4>2
        <5>2. W[j + 1] = w[k + 1]
          BY <1>2, <5>1
        <5>3. QED
          BY <4>2, <5>1, <5>2 DEF SlotAfter
      <4>3. QED
        BY <4>1, <4>2
    <3>5. QED
      BY <1>7, <3>2, <3>3, <3>4
  <2>4. QED
    BY <1>1, <2>1, <2>2, <2>3
<1>9. Links(S, W, n + 1)
  BY <1>8 DEF Links
<1>10. QED
  BY <1>9 DEF S, W

\* ... and the head and the tail are its ends: the new slot, if it is put in
\* first or last.
LEMMA SpliceEnds ==
  ASSUME NEW w, NEW n \in Nat, NEW head, NEW tail, Ends(head, tail, w, n), NEW i \in 1..(n + 1), NEW sid
  PROVE  Ends(IF i = 1 THEN sid ELSE head, IF i = n + 1 THEN sid ELSE tail, Spliced(w, n, i, sid), n + 1)
<1> DEFINE W == Spliced(w, n, i, sid)
<1>1. \A j \in 1..(n + 1) : W[j] = IF j < i THEN w[j] ELSE IF j = i THEN sid ELSE w[j - 1]
  BY DEF Spliced
<1> HIDE DEF W
<1>2. n # 0 => head = w[1] /\ tail = w[n]
  BY DEF Ends
<1>3. (IF i = 1 THEN sid ELSE head) = W[1]
  BY <1>1, <1>2
<1>4. (IF i = n + 1 THEN sid ELSE tail) = W[n + 1]
  BY <1>1, <1>2
<1>5. n + 1 # 0
  OBVIOUS
<1>6. QED
  BY <1>3, <1>4, <1>5 DEF Ends, W

\* Without one of its nodes, the shorter walk lists each used slot once.
LEMMA CutCells ==
  ASSUME NEW slab, NEW w, NEW n, Cells(slab, w, n), NEW i \in 1..n
  PROVE  Cells(SlabWithout(slab, w[i]), Cut(w, n, i), n - 1)
<1> DEFINE W == Cut(w, n, i)
           S == SlabWithout(slab, w[i])
<1>1. /\ n \in Nat /\ w \in [1..n -> Nat \ {0}] /\ \A j, k \in 1..n : w[j] = w[k] => j = k
      /\ slab \in [DOMAIN slab -> Node] /\ \A j \in 1..n : w[j] \in DOMAIN slab
      /\ \A x \in DOMAIN slab : \E j \in 1..n : w[j] = x
  BY DEF Cells
<1>2. \A j \in 1..(n - 1) : W[j] = IF j < i THEN w[j] ELSE w[j + 1]
  BY DEF Cut
<1>3. \A j \in 1..(n - 1) : j \in 1..n /\ j + 1 \in 1..n
  BY <1>1
<1>4. W \in [1..(n - 1) -> Nat \ {0}]
  <2>1. \A j \in 1..(n - 1) : W[j] \in Nat \ {0}
    BY <1>1, <1>2, <1>3
  <2>2. QED
    BY <2>1 DEF Cut
<1>5. \A j, k \in 1..(n - 1) : W[j] = W[k] => j = k
  <2> SUFFICES ASSUME NEW j \in 1..(n - 1), NEW k \in 1..(n - 1), j < k PROVE W[j] # W[k]
    BY <1>1, <1>4
  <2>1. PICK a \in 1..n : W[j] = w[a] /\ a = IF j < i THEN j ELSE j + 1
    BY <1>2, <1>3
  <2>2. PICK b \in 1..n : W[k] = w[b] /\ b = IF k < i THEN k ELSE k + 1
    BY <1>2, <1>3
  <2>3. a # b
    BY <1>1, <2>1, <2>2
  <2>4. QED
    BY <1>1, <2>1, <2>2, <2>3
<1>6. DOMAIN S = DOMAIN slab \ {w[i]}
  BY DEF SlabWithout
<1>7. slab[w[i]].next \in Nat /\ slab[w[i]].prev \in Nat
  BY <1>1, NodeTypes
<1>8. S \in [DOMAIN S -> Node]
  <2> SUFFICES ASSUME NEW x \in DOMAIN S PROVE S[x] \in Node
    BY <1>6 DEF SlabWithout
  <2>1. slab[x] \in Node
    BY <1>1, <1>6
  <2>2. WithNext(slab[x], slab[w[i]].next) \in Node /\ WithPrev(slab[x], slab[w[i]].prev) \in Node
    BY <1>7, <2>1, NodeTypes DEF Node, WithNext, WithPrev
  <2>3. QED
    BY <1>6, <2>1, <2>2 DEF SlabWithout
<1>9. \A j \in 1..(n - 1) : W[j] \in DOMAIN S
  <2> SUFFICES ASSUME NEW j \in 1..(n - 1) PROVE W[j] \in DOMAIN S
    OBVIOUS
  <2>1. PICK a \in 1..n : W[j] = w[a] /\ a = IF j < i THEN j ELSE j + 1
    BY <1>2, <1>3
  <2>2. a # i
    BY <1>1, <2>1
  <2>3. QED
    BY <1>1, <1>6, <2>1, <2>2
<1>10. \A x \in DOMAIN S : \E j \in 1..(n - 1) : W[j] = x
  <2> SUFFICES ASSUME NEW x \in DOMAIN S PROVE \E j \in 1..(n - 1) : W[j] = x
    OBVIOUS
  <2>1. PICK k \in 1..n : w[k] = x
    BY <1>1, <1>6
  <2>2. k # i
    BY <1>6, <2>1
  <2>3. CASE k < i
    <3>1. k \in 1..(n - 1) /\ W[k] = x
      BY <1>1, <1>2, <2>1, <2>3
    <3>2. QED
      BY <3>1
  <2>4. CASE k > i
    <3>1. PICK j : j = k - 1
      OBVIOUS
    <3>2. j \in 1..(n - 1) /\ ~(j < i) /\ j + 1 = k
      BY <1>1, <2>4, <3>1
    <3>3. W[j] = x
      BY <1>2, <2>1, <3>2
    <3>4. QED
      BY <3>2, <3>3
  <2>5. QED
    BY <1>1, <2>2, <2>3, <2>4
<1> HIDE DEF W, S
<1>11. n - 1 \in Nat
  BY <1>1
<1>12. Cells(S, W, n - 1)
  BY <1>4, <1>5, <1>8, <1>9, <1>10, <1>11 DEF Cells
<1>13. QED
  BY <1>12 DEF W, S

\* ... and the links follow it.
LEMMA CutLinks ==
  ASSUME NEW slab, NEW w, NEW n, Cells(slab, w, n), Links(slab, w, n), NEW i \in 1..n
  PROVE  Links(SlabWithout(slab, w[i]), Cut(w, n, i), n - 1)
<1> DEFINE W == Cut(w, n, i)
           S == SlabWithout(slab, w[i])
<1>1. /\ n \in Nat /\ w \in [1..n -> Nat \ {0}] /\ \A j, k \in 1..n : w[j] = w[k] => j = k
      /\ slab \in [DOMAIN slab -> Node] /\ \A j \in 1..n : w[j] \in DOMAIN slab
  BY DEF Cells
<1>2. \A j \in 1..(n - 1) : W[j] = IF j < i THEN w[j] ELSE w[j + 1]
  BY DEF Cut
<1>3. \A j \in 1..n : slab[w[j]].prev = SlotBefore(w, j) /\ slab[w[j]].next = SlotAfter(w, n, j)
  BY DEF Links
<1>4. \A j \in 1..n : j # i =>
         S[w[j]] = IF j = i - 1 THEN WithNext(slab[w[j]], SlotAfter(w, n, i))
                   ELSE IF j = i + 1 THEN WithPrev(slab[w[j]], SlotBefore(w, i)) ELSE slab[w[j]]
  <2> SUFFICES ASSUME NEW j \in 1..n, j # i
               PROVE  S[w[j]] = IF j = i - 1 THEN WithNext(slab[w[j]], SlotAfter(w, n, i))
                                ELSE IF j = i + 1 THEN WithPrev(slab[w[j]], SlotBefore(w, i)) ELSE slab[w[j]]
    OBVIOUS
  <2>1. w[j] = slab[w[i]].prev <=> j = i - 1
    <3>1. CASE i = 1
      BY <1>1, <1>3, <3>1 DEF SlotBefore, None
    <3>2. CASE i # 1
      <4>1. i - 1 \in 1..n /\ slab[w[i]].prev = w[i - 1]
        BY <1>1, <1>3, <3>2 DEF SlotBefore
      <4>2. QED
        BY <1>1, <4>1
    <3>3. QED
      BY <3>1, <3>2
  <2>2. w[j] = slab[w[i]].next <=> j = i + 1
    <3>1. CASE i = n
      BY <1>1, <1>3, <3>1 DEF SlotAfter, None
    <3>2. CASE i # n
      <4>1. i + 1 \in 1..n /\ slab[w[i]].next = w[i + 1]
        BY <1>1, <1>3, <3>2 DEF SlotAfter
      <4>2. QED
        BY <1>1, <4>1
    <3>3. QED
      BY <3>1, <3>2
  <2>3. w[j] \in DOMAIN slab \ {w[i]}
    BY <1>1
  <2>4. QED
    BY <1>3, <2>1, <2>2, <2>3 DEF SlabWithout
<1> HIDE DEF S
<1>5. \A j \in 1..n : j # i =>
        /\ S[w[j]].prev = (IF j = i + 1 THEN SlotBefore(w, i) ELSE SlotBefore(w, j))
        /\ S[w[j]].next = (IF j = i - 1 THEN SlotAfter(w, n, i) ELSE SlotAfter(w, n, j))
  <2> SUFFICES ASSUME NEW j \in 1..n, j # i
               PROVE  /\ S[w[j]].prev = (IF j = i + 1 THEN SlotBefore(w, i) ELSE SlotBefore(w, j))
                      /\ S[w[j]].next = (IF j = i - 1 THEN SlotAfter(w, n, i) ELSE SlotAfter(w, n, j))
    OBVIOUS
  <2>1. slab[w[j]].prev = SlotBefore(w, j) /\ slab[w[j]].next = SlotAfter(w, n, j)
    BY <1>3
  <2>2. /\ WithNext(slab[w[j]], SlotAfter(w, n, i)).prev = slab[w[j]].prev
        /\ WithNext(slab[w[j]], SlotAfter(w, n, i)).next = SlotAfter(w, n, i)
        /\ WithPrev(slab[w[j]], SlotBefore(w, i)).prev = SlotBefore(w, i)
        /\ WithPrev(slab[w[j]], SlotBefore(w, i)).next = slab[w[j]].next
    BY DEF WithNext, WithPrev
  <2>3. i \in Nat /\ j \in Nat
    BY <1>1
  <2>4. CASE j = i - 1
    BY <1>4, <2>1, <2>2, <2>3, <2>4
  <2>5. CASE j = i + 1
    BY <1>4, <2>1, <2>2, <2>3, <2>5
  <2>6. CASE j # i + 1 /\ j # i - 1
    BY <1>4, <2>1, <2>6
  <2>7. QED
    BY <2>4, <2>5, <2>6
<1> HIDE DEF W
<1>6. ASSUME NEW j \in 1..(n - 1)
      PROVE  S[W[j]].prev = SlotBefore(W, j) /\ S[W[j]].next = SlotAfter(W, n - 1, j)
  <2>1. CASE j < i
    <3>1. j \in 1..n /\ W[j] = w[j] /\ j # i /\ j # i + 1
      BY <1>1, <1>2, <2>1
    <3>2. SlotBefore(W, j) = SlotBefore(w, j)
      <4>1. j # 1 => W[j - 1] = w[j - 1]
        BY <1>1, <1>2, <2>1
      <4>2. QED
        BY <4>1 DEF SlotBefore
    <3>3. SlotAfter(W, n - 1, j) = IF j = i - 1 THEN SlotAfter(w, n, i) ELSE SlotAfter(w, n, j)
      <4>1. CASE j = i - 1
        <5>1. ASSUME j # n - 1 PROVE W[j + 1] = w[i + 1] /\ i # n
          <6>1. j + 1 = i /\ i \in 1..(n - 1) /\ i # n
            BY <1>1, <4>1, <5>1
          <6>2. ~(i < i)
            OBVIOUS
          <6>3. W[i] = w[i + 1]
            BY <1>2, <6>1, <6>2
          <6>4. QED
            BY <6>1, <6>3
        <5>2. j = n - 1 => i = n
          BY <1>1, <4>1
        <5>3. QED
          BY <4>1, <5>1, <5>2 DEF SlotAfter
      <4>2. CASE j # i - 1
        <5>1. j # n - 1 /\ j # n /\ W[j + 1] = w[j + 1]
          <6>1. j # n - 1 /\ j # n /\ j + 1 \in 1..(n - 1) /\ j + 1 < i
            BY <1>1, <2>1, <4>2
          <6>2. QED
            BY <1>2, <6>1
        <5>2. SlotAfter(W, n - 1, j) = W[j + 1] /\ SlotAfter(w, n, j) = w[j + 1]
          BY <5>1 DEF SlotAfter
        <5>3. QED
          BY <4>2, <5>1, <5>2
      <4>3. QED
        BY <4>1, <4>2
    <3>4. QED
      BY <1>5, <3>1, <3>2, <3>3
  <2>2. CASE j >= i
    <3>1. PICK k : k = j + 1
      OBVIOUS
    <3>2. k \in 1..n /\ W[j] = w[k] /\ k # i - 1 /\ k > i /\ j = k - 1
      BY <1>1, <1>2, <2>2, <3>1
    <3>3. SlotBefore(W, j) = IF k = i + 1 THEN SlotBefore(w, i) ELSE SlotBefore(w, k)
      <4>1. CASE k = i + 1
        <5>1. j = i /\ (j # 1 => W[j - 1] = w[i - 1])
          BY <1>1, <1>2, <3>2, <4>1
        <5>2. QED
          BY <4>1, <5>1 DEF SlotBefore
      <4>2. CASE k # i + 1
        <5>1. j # 1 /\ k # 1 /\ j - 1 \in 1..(n - 1) /\ ~(j - 1 < i) /\ (j - 1) + 1 = k - 1
          BY <1>1, <2>2, <3>2, <4>2
        <5>3. W[j - 1] = w[k - 1]
          BY <1>2, <5>1
        <5>2. QED
          BY <4>2, <5>1, <5>3 DEF SlotBefore
      <4>3. QED
        BY <4>1, <4>2
    <3>4. SlotAfter(W, n - 1, j) = SlotAfter(w, n, k)
      <4>1. j # n - 1 => k # n /\ W[j + 1] = w[k + 1]
        BY <1>1, <1>2, <2>2, <3>2
      <4>2. j = n - 1 => k = n
        BY <1>1, <3>2
      <4>3. QED
        BY <4>1, <4>2 DEF SlotAfter
    <3>5. QED
      BY <1>5, <3>2, <3>3, <3>4
  <2>3. QED
    BY <1>1, <2>1, <2>2
<1>7. Links(S, W, n - 1)
  BY <1>6 DEF Links
<1>8. QED
  BY <1>7 DEF S, W

\* ... and the head and the tail are its ends: a neighbour of the node, if that
\* was the first or the last.
LEMMA CutEnds ==
  ASSUME NEW w, NEW n \in Nat, NEW head, NEW tail, Ends(head, tail, w, n), NEW i \in 1..n
  PROVE  Ends(IF i = 1 THEN SlotAfter(w, n, i) ELSE head, IF i = n THEN SlotBefore(w, i) ELSE tail,
              Cut(w, n, i), n - 1)
<1> DEFINE W == Cut(w, n, i)
<1>1. n \in Nat
  OBVIOUS
<1>2. \A j \in 1..(n - 1) : W[j] = IF j < i THEN w[j] ELSE w[j + 1]
  BY DEF Cut
<1> HIDE DEF W
<1>4. (IF i = 1 THEN SlotAfter(w, n, i) ELSE head) = (IF n - 1 = 0 THEN None ELSE W[1])
  <2>1. head = w[1]
    BY <1>1 DEF Ends
  <2>2. CASE n = 1
    BY <1>1, <2>2 DEF SlotAfter
  <2>3. CASE n # 1 /\ i = 1
    <3>1. 1 \in 1..(n - 1) /\ W[1] = w[2] /\ i + 1 = 2
      BY <1>1, <1>2, <2>3
    <3>2. QED
      BY <1>1, <2>3, <3>1 DEF SlotAfter
  <2>4. CASE n # 1 /\ i # 1
    BY <1>1, <1>2, <2>1, <2>4
  <2>5. QED
    BY <2>2, <2>3, <2>4
<1>5. (IF i = n THEN SlotBefore(w, i) ELSE tail) = (IF n - 1 = 0 THEN None ELSE W[n - 1])
  <2>1. tail = w[n]
    BY <1>1 DEF Ends
  <2>2. CASE n = 1
    BY <1>1, <2>2 DEF SlotBefore
  <2>3. CASE n # 1 /\ i = n
    BY <1>1, <1>2, <2>3 DEF SlotBefore
  <2>4. CASE n # 1 /\ i # n
    <3>1. n - 1 \in 1..(n - 1) /\ ~(n - 1 < i) /\ (n - 1) + 1 = n
      BY <1>1, <2>4
    <3>2. QED
      BY <1>1, <1>2, <2>1, <2>4, <3>1
  <2>5. QED
    BY <2>2, <2>3, <2>4
<1>6. QED
  BY <1>4, <1>5 DEF Ends, W

-----------------------------------------------------------------------------
(* The slots: those in use are counted, those that are vacant are not in   *)
(* use, and there is room for both.                                        *)

\* A set whose members are numbered from 1 to n has n members.
LEMMA Numbered ==
  ASSUME NEW n \in Nat, NEW S, NEW f, f \in [1..n -> S],
         \A i, j \in 1..n : f[i] = f[j] => i = j, \A x \in S : \E i \in 1..n : f[i] = x
  PROVE  IsFiniteSet(S) /\ Cardinality(S) = n
<1>1. f \in Bijection(1..n, S)
  BY DEF Bijection, Injection, Surjection, IsInjective
<1>2. ExistsBijection(1..n, S)
  BY <1>1 DEF ExistsBijection
<1>3. IsFiniteSet(1..n) /\ Cardinality(1..n) = n
  BY FS_Interval
<1>4. QED
  BY <1>2, <1>3, FS_Bijection

\* The walk is as long as the slab has nodes.
LEMMA SlotsCounted ==
  ASSUME NEW slab, NEW w, NEW n, Cells(slab, w, n)
  PROVE  n \in Nat /\ IsFiniteSet(DOMAIN slab) /\ Cardinality(DOMAIN slab) = n
<1>1. /\ n \in Nat /\ w \in [1..n -> DOMAIN slab] /\ \A j, k \in 1..n : w[j] = w[k] => j = k
      /\ \A x \in DOMAIN slab : \E j \in 1..n : w[j] = x
  BY DEF Cells
<1>2. QED
  BY <1>1, Numbered

\* The map from oids finds each node, and nothing else.
Keys(map, slab) ==
  /\ \A o \in DOMAIN map : map[o] \in DOMAIN slab /\ slab[map[o]].key = o
  /\ \A x \in DOMAIN slab : slab[x].key \in DOMAIN map /\ map[slab[x].key] = x

\* The map has as many oids as the walk has slots.
LEMMA KeysCounted ==
  ASSUME NEW slab, NEW w, NEW n, Cells(slab, w, n), NEW map, Keys(map, slab)
  PROVE  IsFiniteSet(DOMAIN map) /\ Cardinality(DOMAIN map) = n
<1>1. /\ n \in Nat /\ w \in [1..n -> DOMAIN slab] /\ \A j, k \in 1..n : w[j] = w[k] => j = k
      /\ \A x \in DOMAIN slab : \E j \in 1..n : w[j] = x
  BY DEF Cells
<1>2. PICK f : f = [i \in 1..n |-> slab[w[i]].key]
  OBVIOUS
<1>3. f \in [1..n -> DOMAIN map]
  BY <1>1, <1>2 DEF Keys
<1>4. \A i, j \in 1..n : f[i] = f[j] => i = j
  <2> SUFFICES ASSUME NEW i \in 1..n, NEW j \in 1..n, f[i] = f[j] PROVE i = j
    OBVIOUS
  <2>1. map[slab[w[i]].key] = w[i] /\ map[slab[w[j]].key] = w[j]
    BY <1>1 DEF Keys
  <2>2. QED
    BY <1>1, <1>2, <2>1
<1>5. \A o \in DOMAIN map : \E i \in 1..n : f[i] = o
  <2> SUFFICES ASSUME NEW o \in DOMAIN map PROVE \E i \in 1..n : f[i] = o
    OBVIOUS
  <2>1. map[o] \in DOMAIN slab /\ slab[map[o]].key = o
    BY DEF Keys
  <2>2. PICK i \in 1..n : w[i] = map[o]
    BY <1>1, <2>1
  <2>3. QED
    BY <1>2, <2>1, <2>2
<1>6. QED
  BY <1>1, <1>3, <1>4, <1>5, Numbered

\* The vacant slots are not in use, each is vacant once, and all fit the capacity.
Room(vacant, capacity, used, n) ==
  /\ vacant \in Seq(Nat)
  /\ capacity \in Nat
  /\ \A i \in 1..Len(vacant) : vacant[i] \notin used /\ vacant[i] \in 1..(Len(vacant) + n)
  /\ \A i, j \in 1..Len(vacant) : vacant[i] = vacant[j] => i = j
  /\ used \subseteq 1..(Len(vacant) + n)
  /\ Len(vacant) + n <= capacity

\* The vacant slots once the next one is used.
Grown(vacant) == IF vacant = <<>> THEN vacant ELSE Tail(vacant)

FreeSlot(vacant, n) == IF vacant = <<>> THEN n + 1 ELSE Head(vacant)

CapacityFor(vacant, capacity, n) ==
  IF vacant # <<>> \/ n < capacity THEN capacity
  ELSE IF 2 * capacity > GrowMin THEN 2 * capacity ELSE GrowMin

\* The slot of the next insert is not in use, and once it is taken there is room
\* for one more.
LEMMA RoomForOne ==
  ASSUME NEW v, NEW c, NEW used, NEW n \in Nat, Room(v, c, used, n)
  PROVE  /\ FreeSlot(v, n) \in Nat \ {0} /\ FreeSlot(v, n) \notin used
         /\ Room(Grown(v), CapacityFor(v, c, n), used \cup {FreeSlot(v, n)}, n + 1)
<1>1. /\ v \in Seq(Nat) /\ c \in Nat /\ Len(v) \in Nat
      /\ \A i \in 1..Len(v) : v[i] \notin used /\ v[i] \in 1..(Len(v) + n)
      /\ \A i, j \in 1..Len(v) : v[i] = v[j] => i = j
      /\ used \subseteq 1..(Len(v) + n)
      /\ Len(v) + n <= c
  BY DEF Room
<1>2. CASE v = <<>>
  <2>1. FreeSlot(v, n) = n + 1 /\ Grown(v) = <<>> /\ Len(v) = 0
    BY <1>2 DEF FreeSlot, Grown
  <2>2. n + 1 \notin used /\ n + 1 \in Nat \ {0} /\ used \cup {n + 1} \subseteq 1..(0 + (n + 1))
    BY <1>1, <2>1
  <2>3. CapacityFor(v, c, n) \in Nat /\ n + 1 <= CapacityFor(v, c, n)
    BY <1>1, <1>2, <2>1, PriceLevelAssumption DEF CapacityFor
  <2>4. Grown(v) \in Seq(Nat) /\ Len(Grown(v)) = 0
    BY <2>1
  <2>5. Room(Grown(v), CapacityFor(v, c, n), used \cup {n + 1}, n + 1)
    BY <2>2, <2>3, <2>4 DEF Room
  <2>6. QED
    BY <2>1, <2>2, <2>5
<1>3. CASE v # <<>>
  <2>1. /\ FreeSlot(v, n) = v[1] /\ Grown(v) = Tail(v) /\ CapacityFor(v, c, n) = c
        /\ Len(v) > 0 /\ Tail(v) \in Seq(Nat) /\ Len(Tail(v)) = Len(v) - 1
    BY <1>1, <1>3 DEF FreeSlot, Grown, CapacityFor
  <2>2. \A i \in 1..(Len(v) - 1) : Tail(v)[i] = v[i + 1] /\ i + 1 \in 1..Len(v)
    BY <1>1, <1>3, <2>1
  <2>3. v[1] \notin used /\ v[1] \in 1..(Len(v) + n)
    BY <1>1, <2>1
  <2>4. Len(Tail(v)) + (n + 1) = Len(v) + n
    BY <1>1, <2>1
  <2>5. \A i \in 1..Len(Tail(v)) : Tail(v)[i] \notin used \cup {v[1]} /\ Tail(v)[i] \in 1..(Len(Tail(v)) + (n + 1))
    <3> SUFFICES ASSUME NEW i \in 1..Len(Tail(v))
                 PROVE  Tail(v)[i] \notin used \cup {v[1]} /\ Tail(v)[i] \in 1..(Len(Tail(v)) + (n + 1))
      OBVIOUS
    <3>1. Tail(v)[i] = v[i + 1] /\ i + 1 \in 1..Len(v) /\ i + 1 # 1 /\ 1 \in 1..Len(v)
      BY <1>1, <2>1, <2>2
    <3>2. v[i + 1] # v[1]
      BY <1>1, <3>1
    <3>3. QED
      BY <1>1, <2>4, <3>1, <3>2
  <2>6. \A i, j \in 1..Len(Tail(v)) : Tail(v)[i] = Tail(v)[j] => i = j
    <3> SUFFICES ASSUME NEW i \in 1..Len(Tail(v)), NEW j \in 1..Len(Tail(v)), Tail(v)[i] = Tail(v)[j] PROVE i = j
      OBVIOUS
    <3>1. v[i + 1] = v[j + 1] /\ i + 1 \in 1..Len(v) /\ j + 1 \in 1..Len(v)
      BY <2>1, <2>2
    <3>2. i + 1 = j + 1
      BY <1>1, <3>1
    <3>3. QED
      BY <3>2
  <2>7. used \cup {v[1]} \subseteq 1..(Len(Tail(v)) + (n + 1)) /\ Len(Tail(v)) + (n + 1) <= c
    BY <1>1, <2>3, <2>4
  <2>8. Room(Tail(v), c, used \cup {v[1]}, n + 1)
    BY <1>1, <2>1, <2>5, <2>6, <2>7 DEF Room
  <2>9. QED
    BY <2>1, <2>3, <2>8
<1>4. QED
  BY <1>2, <1>3

\* A slot that is vacated leaves room for one more.
LEMMA RoomWithoutOne ==
  ASSUME NEW v, NEW c, NEW used, NEW n \in Nat \ {0}, Room(v, c, used, n), NEW sid \in used
  PROVE  Room(<<sid>> \o v, c, used \ {sid}, n - 1)
<1>1. /\ v \in Seq(Nat) /\ c \in Nat /\ Len(v) \in Nat
      /\ \A i \in 1..Len(v) : v[i] \notin used /\ v[i] \in 1..(Len(v) + n)
      /\ \A i, j \in 1..Len(v) : v[i] = v[j] => i = j
      /\ used \subseteq 1..(Len(v) + n)
      /\ Len(v) + n <= c
  BY DEF Room
<1>2. PICK u : u = <<sid>> \o v
  OBVIOUS
<1>3. sid \in 1..(Len(v) + n)
  BY <1>1
<1>4. /\ u \in Seq(Nat) /\ Len(u) = Len(v) + 1 /\ u[1] = sid
      /\ \A i \in 1..Len(u) : i # 1 => u[i] = v[i - 1] /\ i - 1 \in 1..Len(v)
  BY <1>1, <1>2, <1>3
<1>5. Len(u) + (n - 1) = Len(v) + n
  BY <1>1, <1>4
<1>6. \A i \in 1..Len(u) : u[i] \notin used \ {sid} /\ u[i] \in 1..(Len(u) + (n - 1))
  <2> SUFFICES ASSUME NEW i \in 1..Len(u) PROVE u[i] \notin used \ {sid} /\ u[i] \in 1..(Len(v) + n)
    BY <1>5
  <2>1. CASE i = 1
    BY <1>3, <1>4, <2>1
  <2>2. CASE i # 1
    BY <1>1, <1>4, <2>2
  <2>3. QED
    BY <2>1, <2>2
<1>7. \A i, j \in 1..Len(u) : u[i] = u[j] => i = j
  <2> SUFFICES ASSUME NEW i \in 1..Len(u), NEW j \in 1..Len(u), u[i] = u[j] PROVE i = j
    OBVIOUS
  <2>1. CASE i = 1 /\ j # 1
    BY <1>1, <1>4, <2>1
  <2>2. CASE i # 1 /\ j = 1
    BY <1>1, <1>4, <2>2
  <2>3. CASE i # 1 /\ j # 1
    <3>1. i - 1 = j - 1
      BY <1>1, <1>4, <2>3
    <3>2. QED
      BY <3>1, <1>1, <1>4
  <2>4. QED
    BY <2>1, <2>2, <2>3
<1>8. used \ {sid} \subseteq 1..(Len(u) + (n - 1)) /\ Len(u) + (n - 1) <= c
  BY <1>1, <1>5
<1>9. QED
  BY <1>1, <1>2, <1>4, <1>6, <1>7, <1>8 DEF Room

-----------------------------------------------------------------------------
(* A level whose slots are w in queue order.                               *)

\* Level l is walked along the n slots of w.
Shape(l, w, n) ==
  /\ l \in LevelSet
  /\ Cells(l.slab, w, n)
  /\ Links(l.slab, w, n)
  /\ Ends(l.head, l.tail, w, n)
  /\ Keys(l.key_to_sid, l.slab)
  /\ Room(l.vacant, l.capacity, DOMAIN l.slab, n)

\* A slab that is walked is a function from slots to nodes, and None is not a
\* slot of it.
LEMMA CellsMap ==
  ASSUME NEW slab, NEW w, NEW n, Cells(slab, w, n)
  PROVE  slab \in Maps(Nat, Node) /\ DOMAIN slab \subseteq Nat \ {0}
<1>1. \A x \in DOMAIN slab : x \in Nat \ {0}
  BY DEF Cells
<1>2. slab \in [DOMAIN slab -> Node]
  BY DEF Cells
<1>3. QED
  BY <1>1, <1>2, MapIs

\* Only links change besides the new node.
LEMMA SlabWithIs ==
  ASSUME NEW slab, NEW sid, NEW node, NEW S, S = SlabWith(slab, sid, node)
  PROVE  /\ \A x : x \in DOMAIN S <=> x \in DOMAIN slab \/ x = sid
         /\ S[sid] = node
         /\ \A x \in DOMAIN slab : x # sid => S[x].key = slab[x].key /\ S[x].sz = slab[x].sz
<1>1. (\A x : x \in DOMAIN S <=> x \in DOMAIN slab \/ x = sid) /\ S[sid] = node
  BY DEF SlabWith
<1>2. ASSUME NEW x \in DOMAIN slab, x # sid PROVE S[x].key = slab[x].key /\ S[x].sz = slab[x].sz
  <2>1. S[x] = slab[x] \/ S[x] = WithNext(slab[x], sid) \/ S[x] = WithPrev(slab[x], sid)
    BY <1>2 DEF SlabWith
  <2>2. QED
    BY <2>1 DEF WithNext, WithPrev
<1>3. QED
  BY <1>1, <1>2

\* Taking a node out keeps the oids and the sizes of the others.
LEMMA SlabWithoutIs ==
  ASSUME NEW slab, NEW sid, NEW S, S = SlabWithout(slab, sid)
  PROVE  /\ \A x : x \in DOMAIN S <=> x \in DOMAIN slab /\ x # sid
         /\ \A x \in DOMAIN S : S[x].key = slab[x].key /\ S[x].sz = slab[x].sz
<1>1. \A x : x \in DOMAIN S <=> x \in DOMAIN slab /\ x # sid
  BY DEF SlabWithout
<1>2. ASSUME NEW x \in DOMAIN S PROVE S[x].key = slab[x].key /\ S[x].sz = slab[x].sz
  <2>1. \/ S[x] = slab[x] \/ S[x] = WithNext(slab[x], slab[sid].next)
        \/ S[x] = WithPrev(slab[x], slab[sid].prev)
    BY <1>1, <1>2 DEF SlabWithout
  <2>2. QED
    BY <2>1 DEF WithNext, WithPrev
<1>3. QED
  BY <1>1, <1>2

\* The map still finds each node once a new oid and its slot are in it.
LEMMA KeysWith ==
  ASSUME NEW map, NEW slab, Keys(map, slab), NEW M, NEW S, NEW o, NEW sid,
         o \notin DOMAIN map, sid \notin DOMAIN slab,
         \A p : p \in DOMAIN M <=> p \in DOMAIN map \/ p = o,
         M[o] = sid, \A p \in DOMAIN map : p # o => M[p] = map[p],
         \A x : x \in DOMAIN S <=> x \in DOMAIN slab \/ x = sid,
         S[sid].key = o, \A x \in DOMAIN slab : x # sid => S[x].key = slab[x].key
  PROVE  Keys(M, S)
<1>1. ASSUME NEW p \in DOMAIN M PROVE M[p] \in DOMAIN S /\ S[M[p]].key = p
  <2>1. CASE p = o
    BY <2>1
  <2>2. CASE p # o
    <3>1. p \in DOMAIN map /\ M[p] = map[p]
      BY <2>2
    <3>2. map[p] \in DOMAIN slab /\ slab[map[p]].key = p
      BY <3>1 DEF Keys
    <3>3. QED
      BY <3>1, <3>2
  <2>3. QED
    BY <2>1, <2>2
<1>2. ASSUME NEW x \in DOMAIN S PROVE S[x].key \in DOMAIN M /\ M[S[x].key] = x
  <2>1. CASE x = sid
    BY <2>1
  <2>2. CASE x # sid
    <3>1. x \in DOMAIN slab /\ S[x].key = slab[x].key
      BY <2>2
    <3>2. slab[x].key \in DOMAIN map /\ map[slab[x].key] = x
      BY <3>1 DEF Keys
    <3>3. QED
      BY <3>1, <3>2
  <2>3. QED
    BY <2>1, <2>2
<1>3. QED
  BY <1>1, <1>2 DEF Keys

\* ... and once the oid of a node that leaves is taken out.
LEMMA KeysWithout ==
  ASSUME NEW map, NEW slab, Keys(map, slab), NEW M, NEW S, NEW sid \in DOMAIN slab, NEW o, o = slab[sid].key,
         \A p : p \in DOMAIN M <=> p \in DOMAIN map /\ p # o, \A p \in DOMAIN M : M[p] = map[p],
         \A x : x \in DOMAIN S <=> x \in DOMAIN slab /\ x # sid, \A x \in DOMAIN S : S[x].key = slab[x].key
  PROVE  Keys(M, S)
<1>1. ASSUME NEW p \in DOMAIN M PROVE M[p] \in DOMAIN S /\ S[M[p]].key = p
  <2>1. p \in DOMAIN map /\ p # o /\ M[p] = map[p]
    OBVIOUS
  <2>2. map[p] \in DOMAIN slab /\ slab[map[p]].key = p
    BY <2>1 DEF Keys
  <2>3. map[p] # sid
    BY <2>1, <2>2
  <2>4. QED
    BY <2>1, <2>2, <2>3
<1>2. ASSUME NEW x \in DOMAIN S PROVE S[x].key \in DOMAIN M /\ M[S[x].key] = x
  <2>1. x \in DOMAIN slab /\ x # sid /\ S[x].key = slab[x].key
    OBVIOUS
  <2>2. slab[x].key \in DOMAIN map /\ map[slab[x].key] = x /\ map[o] = sid
    BY <2>1 DEF Keys
  <2>3. slab[x].key # o
    BY <2>1, <2>2
  <2>4. QED
    BY <2>1, <2>2, <2>3
<1>3. QED
  BY <1>1, <1>2 DEF Keys

\* What an insert must make of a level for it to be walked with the new slot in
\* place i.
LEMMA InsertedShape ==
  ASSUME NEW l, NEW w, NEW n, Shape(l, w, n), NEW i \in 1..(n + 1),
         NEW o \in Oid, o \notin DOMAIN l.key_to_sid,
         NEW sid, sid = FreeSlot(l.vacant, n),
         NEW node \in Node, node.key = o, node.prev = SlotBefore(w, i),
         node.next = (IF i = n + 1 THEN None ELSE w[i]),
         NEW r \in LevelSet, r.key_to_sid = With(l.key_to_sid, o, sid), r.slab = SlabWith(l.slab, sid, node),
         r.vacant = Grown(l.vacant), r.capacity = CapacityFor(l.vacant, l.capacity, n),
         r.head = (IF i = 1 THEN sid ELSE l.head), r.tail = (IF i = n + 1 THEN sid ELSE l.tail)
  PROVE  Shape(r, Spliced(w, n, i, sid), n + 1)
<1>1. /\ l \in LevelSet /\ Cells(l.slab, w, n) /\ Links(l.slab, w, n) /\ Ends(l.head, l.tail, w, n)
      /\ Keys(l.key_to_sid, l.slab) /\ Room(l.vacant, l.capacity, DOMAIN l.slab, n) /\ n \in Nat
  BY DEF Shape, Cells
<1>2. /\ sid \in Nat \ {0} /\ sid \notin DOMAIN l.slab
      /\ Room(Grown(l.vacant), CapacityFor(l.vacant, l.capacity, n), DOMAIN l.slab \cup {sid}, n + 1)
  BY <1>1, RoomForOne
<1>3. Cells(r.slab, Spliced(w, n, i, sid), n + 1)
  BY <1>1, <1>2, SpliceCells
<1>4. Links(r.slab, Spliced(w, n, i, sid), n + 1)
  BY <1>1, <1>2, SpliceLinks
<1>5. Ends(r.head, r.tail, Spliced(w, n, i, sid), n + 1)
  BY <1>1, SpliceEnds
<1>6. /\ \A x : x \in DOMAIN r.slab <=> x \in DOMAIN l.slab \/ x = sid
      /\ r.slab[sid] = node
      /\ \A x \in DOMAIN l.slab : x # sid => r.slab[x].key = l.slab[x].key
  BY SlabWithIs
<1>7. /\ \A p : p \in DOMAIN r.key_to_sid <=> p \in DOMAIN l.key_to_sid \/ p = o
      /\ r.key_to_sid[o] = sid
      /\ \A p \in DOMAIN l.key_to_sid : p # o => r.key_to_sid[p] = l.key_to_sid[p]
  <2>1. sid \in Nat /\ l.key_to_sid \in Maps(Oid, Nat)
    BY <1>1, <1>2, LevelTypes
  <2>2. QED
    BY <2>1, WithIs
<1>8. Keys(r.key_to_sid, r.slab)
  BY <1>1, <1>2, <1>6, <1>7, KeysWith
<1>9. DOMAIN r.slab = DOMAIN l.slab \cup {sid}
  BY <1>6
<1>10. Room(r.vacant, r.capacity, DOMAIN r.slab, n + 1)
  BY <1>2, <1>9
<1>11. QED
  BY <1>3, <1>4, <1>5, <1>8, <1>10 DEF Shape

\* What a removal must make of a level for it to be walked without place i.
LEMMA RemovedShape ==
  ASSUME NEW l, NEW w, NEW n, Shape(l, w, n), NEW i \in 1..n,
         NEW o, o = l.slab[w[i]].key,
         NEW r \in LevelSet, r.key_to_sid = Without(l.key_to_sid, o), r.slab = SlabWithout(l.slab, w[i]),
         r.vacant = <<w[i]>> \o l.vacant, r.capacity = l.capacity,
         r.head = (IF i = 1 THEN SlotAfter(w, n, i) ELSE l.head),
         r.tail = (IF i = n THEN SlotBefore(w, i) ELSE l.tail)
  PROVE  Shape(r, Cut(w, n, i), n - 1)
<1>1. /\ l \in LevelSet /\ Cells(l.slab, w, n) /\ Links(l.slab, w, n) /\ Ends(l.head, l.tail, w, n)
      /\ Keys(l.key_to_sid, l.slab) /\ Room(l.vacant, l.capacity, DOMAIN l.slab, n) /\ n \in Nat \ {0}
  BY DEF Shape, Cells
<1>2. w[i] \in DOMAIN l.slab
  BY <1>1 DEF Cells
<1>3. Room(<<w[i]>> \o l.vacant, l.capacity, DOMAIN l.slab \ {w[i]}, n - 1)
  BY <1>1, <1>2, RoomWithoutOne
<1>4. Cells(r.slab, Cut(w, n, i), n - 1)
  BY <1>1, CutCells
<1>5. Links(r.slab, Cut(w, n, i), n - 1)
  BY <1>1, CutLinks
<1>6. Ends(r.head, r.tail, Cut(w, n, i), n - 1)
  BY <1>1, CutEnds
<1>7. /\ \A x : x \in DOMAIN r.slab <=> x \in DOMAIN l.slab /\ x # w[i]
      /\ \A x \in DOMAIN r.slab : r.slab[x].key = l.slab[x].key
  BY SlabWithoutIs
<1>8. /\ \A p : p \in DOMAIN r.key_to_sid <=> p \in DOMAIN l.key_to_sid /\ p # o
      /\ \A p \in DOMAIN r.key_to_sid : r.key_to_sid[p] = l.key_to_sid[p]
  <2>1. l.key_to_sid \in Maps(Oid, Nat)
    BY <1>1, LevelTypes
  <2>2. QED
    BY <2>1, WithoutIs
<1>9. Keys(r.key_to_sid, r.slab)
  BY <1>1, <1>2, <1>7, <1>8, KeysWithout
<1>10. DOMAIN r.slab = DOMAIN l.slab \ {w[i]}
  BY <1>7
<1>11. Room(r.vacant, r.capacity, DOMAIN r.slab, n - 1)
  BY <1>3, <1>10
<1>12. QED
  BY <1>4, <1>5, <1>6, <1>9, <1>11 DEF Shape

-----------------------------------------------------------------------------
(* What the operations on the slab and the links make of a level.          *)

\* The slot of the next insert is not in use, and len is the length of the walk.
LEMMA NextSlotIs ==
  ASSUME NEW l, NEW w, NEW n, Shape(l, w, n)
  PROVE  /\ NextSlot(l) = FreeSlot(l.vacant, n) /\ Capacity(l) = CapacityFor(l.vacant, l.capacity, n)
         /\ NextSlot(l) \in Nat \ {0} /\ NextSlot(l) \notin DOMAIN l.slab /\ Capacity(l) \in Nat
         /\ n \in Nat /\ LenOf(l) = n /\ IsFiniteSet(DOMAIN l.slab) /\ Cardinality(DOMAIN l.slab) = n
<1>1. /\ l \in LevelSet /\ Cells(l.slab, w, n) /\ Keys(l.key_to_sid, l.slab)
      /\ Room(l.vacant, l.capacity, DOMAIN l.slab, n)
  BY DEF Shape
<1>2. n \in Nat /\ IsFiniteSet(DOMAIN l.slab) /\ Cardinality(DOMAIN l.slab) = n
  BY <1>1, SlotsCounted
<1>3. Cardinality(DOMAIN l.key_to_sid) = n
  BY <1>1, KeysCounted
<1>4. /\ FreeSlot(l.vacant, n) \in Nat \ {0} /\ FreeSlot(l.vacant, n) \notin DOMAIN l.slab
      /\ Room(Grown(l.vacant), CapacityFor(l.vacant, l.capacity, n), DOMAIN l.slab \cup {FreeSlot(l.vacant, n)}, n + 1)
  BY <1>1, <1>2, RoomForOne
<1>5. CapacityFor(l.vacant, l.capacity, n) \in Nat
  BY <1>4 DEF Room
<1>6. NextSlot(l) = FreeSlot(l.vacant, n)
  BY <1>2 DEF NextSlot, FreeSlot
<1>7. Capacity(l) = CapacityFor(l.vacant, l.capacity, n)
  BY <1>2 DEF Capacity, CapacityFor
<1>8. QED
  BY <1>2, <1>3, <1>4, <1>5, <1>6, <1>7 DEF LenOf

\* SlabInsert changes the slab and its map, and neither links nor sum.
LEMMA SlabInsertIs ==
  ASSUME NEW l \in LevelSet, NEW node \in Node, NEW o, o = node.key, NEW sid \in Nat, sid = NextSlot(l),
         Capacity(l) \in Nat, NEW slab, slab = With(l.slab, sid, node), NEW keys, keys = With(l.key_to_sid, o, sid),
         NEW r, r = SlabInsert(l, node)
  PROVE  /\ r \in LevelSet /\ r.slab = slab /\ r.key_to_sid = keys
         /\ r.vacant = Grown(l.vacant) /\ r.capacity = Capacity(l) /\ SameEnds(r, l) /\ SameSum(r, l)
<1>1. slab \in Maps(Nat, Node)
  <2>1. l.slab \in Maps(Nat, Node)
    BY LevelTypes
  <2>2. QED
    BY <2>1, SlabGets
<1>2. keys \in Maps(Oid, Nat)
  <2>1. l.key_to_sid \in Maps(Oid, Nat) /\ o \in Oid
    BY LevelTypes, NodeTypes
  <2>2. QED
    BY <2>1, WithIs
<1>3. Grown(l.vacant) \in Seq(Nat)
  <2>1. l.vacant \in Seq(Nat)
    BY LevelTypes
  <2>2. QED
    BY <2>1 DEF Grown
<1>4. r = [l EXCEPT !.slab = slab, !.key_to_sid = keys, !.vacant = Grown(l.vacant), !.capacity = Capacity(l)]
  BY DEF SlabInsert, Grown
<1>5. PICK p : p = [l EXCEPT !.slab = slab]
  OBVIOUS
<1>6. p \in LevelSet /\ p.slab = slab /\ SameSlots(p, l) /\ SameEnds(p, l) /\ SameSum(p, l)
  BY <1>1, <1>5, SetSlab
<1>7. PICK q : q = [p EXCEPT !.key_to_sid = keys]
  OBVIOUS
<1>8. /\ q \in LevelSet /\ q.key_to_sid = keys /\ q.slab = p.slab /\ q.vacant = p.vacant /\ q.capacity = p.capacity
      /\ SameEnds(q, p) /\ SameSum(q, p)
  BY <1>2, <1>6, <1>7, SetKeys
<1>9. PICK u : u = [q EXCEPT !.vacant = Grown(l.vacant)]
  OBVIOUS
<1>10. /\ u \in LevelSet /\ u.vacant = Grown(l.vacant) /\ u.slab = q.slab /\ u.key_to_sid = q.key_to_sid
       /\ SameEnds(u, q) /\ SameSum(u, q)
  BY <1>3, <1>8, <1>9, SetVacant
<1>11. r = [u EXCEPT !.capacity = Capacity(l)]
  BY <1>4, <1>5, <1>7, <1>9
<1>12. /\ r \in LevelSet /\ r.capacity = Capacity(l) /\ r.slab = u.slab /\ r.key_to_sid = u.key_to_sid
       /\ r.vacant = u.vacant /\ SameEnds(r, u) /\ SameSum(r, u)
  BY <1>10, <1>11, SetCapacity
<1>13. SameEnds(r, l) /\ SameSum(r, l)
  BY <1>6, <1>8, <1>10, <1>12 DEF SameEnds, SameSum
<1>14. r.slab = slab /\ r.key_to_sid = keys /\ r.vacant = Grown(l.vacant)
  BY <1>6, <1>8, <1>10, <1>12
<1>15. QED
  BY <1>12, <1>13, <1>14

\* SlabRemove changes the slab and its map, and neither links nor sum.
LEMMA SlabRemoveIs ==
  ASSUME NEW l \in LevelSet, NEW o, NEW sid \in Nat, sid = l.key_to_sid[o], NEW r, r = SlabRemove(l, o)
  PROVE  /\ r \in LevelSet /\ r.slab = Without(l.slab, sid) /\ r.key_to_sid = Without(l.key_to_sid, o)
         /\ r.vacant = <<sid>> \o l.vacant /\ r.capacity = l.capacity /\ SameEnds(r, l) /\ SameSum(r, l)
<1> DEFINE slab == Without(l.slab, sid)
           keys == Without(l.key_to_sid, o)
           vacant == <<sid>> \o l.vacant
<1>1. l.slab \in Maps(Nat, Node) /\ l.key_to_sid \in Maps(Oid, Nat) /\ l.vacant \in Seq(Nat)
  BY LevelTypes
<1>2. slab \in Maps(Nat, Node) /\ keys \in Maps(Oid, Nat)
  BY <1>1, WithoutIs
<1>3. vacant \in Seq(Nat)
  BY <1>1
<1>4. r = [l EXCEPT !.slab = slab, !.key_to_sid = keys, !.vacant = vacant]
  BY DEF SlabRemove
<1> HIDE DEF slab, keys, vacant
<1>5. PICK p : p = [l EXCEPT !.slab = slab]
  OBVIOUS
<1>6. p \in LevelSet /\ p.slab = slab /\ SameSlots(p, l) /\ SameEnds(p, l) /\ SameSum(p, l)
  BY <1>2, <1>5, SetSlab
<1>7. PICK q : q = [p EXCEPT !.key_to_sid = keys]
  OBVIOUS
<1>8. /\ q \in LevelSet /\ q.key_to_sid = keys /\ q.slab = p.slab /\ q.vacant = p.vacant /\ q.capacity = p.capacity
      /\ SameEnds(q, p) /\ SameSum(q, p)
  BY <1>2, <1>6, <1>7, SetKeys
<1>9. r = [q EXCEPT !.vacant = vacant]
  BY <1>4, <1>5, <1>7
<1>10. /\ r \in LevelSet /\ r.vacant = vacant /\ r.slab = q.slab /\ r.key_to_sid = q.key_to_sid
       /\ r.capacity = q.capacity /\ SameEnds(r, q) /\ SameSum(r, q)
  BY <1>3, <1>8, <1>9, SetVacant
<1>11. SameEnds(r, l) /\ SameSum(r, l) /\ r.capacity = l.capacity
  BY <1>6, <1>8, <1>10 DEF SameEnds, SameSum, SameSlots
<1>12. r.slab = slab /\ r.key_to_sid = keys /\ r.vacant = vacant
  BY <1>6, <1>8, <1>10
<1>13. QED
  BY <1>10, <1>11, <1>12 DEF slab, keys, vacant

\* Linking a new node in, and an old one out, in the order of the code.
LEMMA LinkedIn ==
  ASSUME NEW slab, NEW sid, NEW node, sid \notin DOMAIN slab, None \notin DOMAIN slab,
         node.next = None \/ node.next \in DOMAIN slab, node.prev = None \/ node.prev \in DOMAIN slab,
         node.next = node.prev => node.next = None,
         NEW s0, s0 = With(slab, sid, node),
         NEW s1, s1 = (IF node.next = None THEN s0 ELSE [s0 EXCEPT ![node.next] = WithPrev(s0[node.next], sid)]),
         NEW s2, s2 = (IF node.prev = None THEN s1 ELSE [s1 EXCEPT ![node.prev] = WithNext(s1[node.prev], sid)])
  PROVE  s2 = SlabWith(slab, sid, node)
<1> DEFINE D == DOMAIN slab \cup {sid}
<1>1. s0 = [x \in D |-> IF x = sid THEN node ELSE slab[x]]
  BY DEF With
<1>2. s1 = [x \in D |-> IF x = sid THEN node ELSE IF x = node.next THEN WithPrev(slab[x], sid) ELSE slab[x]]
  BY <1>1
<1>3. PICK t : t = [x \in D |-> IF x = sid THEN node
                               ELSE IF x = node.prev THEN WithNext(slab[x], sid)
                               ELSE IF x = node.next THEN WithPrev(slab[x], sid) ELSE slab[x]]
  OBVIOUS
<1>4. CASE node.prev = None
  <2>1. s2 = t
    BY <1>2, <1>3, <1>4
  <2>2. QED
    BY <1>3, <2>1 DEF SlabWith
<1>5. CASE node.prev # None
  <2>1. node.prev \in D /\ node.prev # sid /\ node.prev # node.next
    BY <1>5
  <2>2. s1[node.prev] = slab[node.prev]
    BY <1>2, <2>1
  <2>3. s2 = [s1 EXCEPT ![node.prev] = WithNext(slab[node.prev], sid)]
    BY <1>5, <2>2
  <2>4. s2 = t
    <3>1. DOMAIN s2 = D
      BY <1>2, <2>3
    <3>2. ASSUME NEW x \in D PROVE s2[x] = t[x]
      BY <1>2, <1>3, <2>1, <2>3
    <3>3. s2 = [x \in D |-> s2[x]]
      BY <2>3, <1>2
    <3>4. QED
      BY <1>3, <3>2, <3>3
  <2>5. QED
    BY <1>3, <2>4 DEF SlabWith
<1>6. QED
  BY <1>4, <1>5

\* Taking a node out and then relinking its two neighbours is taking it out of
\* the walk.
LEMMA LinkedOut ==
  ASSUME NEW slab, NEW sid \in DOMAIN slab, NEW node, node = slab[sid], None \notin DOMAIN slab,
         node.next = None \/ node.next \in DOMAIN slab \ {sid}, node.prev = None \/ node.prev \in DOMAIN slab \ {sid},
         node.next = node.prev => node.next = None,
         NEW s0, s0 = Without(slab, sid),
         NEW s1, s1 = (IF node.prev = None THEN s0 ELSE [s0 EXCEPT ![node.prev] = WithNext(s0[node.prev], node.next)]),
         NEW s2, s2 = (IF node.next = None THEN s1 ELSE [s1 EXCEPT ![node.next] = WithPrev(s1[node.next], node.prev)])
  PROVE  s2 = SlabWithout(slab, sid)
<1> DEFINE D == DOMAIN slab \ {sid}
<1>1. s0 = [x \in D |-> slab[x]]
  BY DEF Without, Restrict
<1>2. s1 = [x \in D |-> IF x = node.prev THEN WithNext(slab[x], node.next) ELSE slab[x]]
  BY <1>1
<1>3. PICK t : t = [x \in D |-> IF x = node.prev THEN WithNext(slab[x], node.next)
                               ELSE IF x = node.next THEN WithPrev(slab[x], node.prev) ELSE slab[x]]
  OBVIOUS
<1>4. CASE node.next = None
  <2>1. s2 = t
    BY <1>2, <1>3, <1>4
  <2>2. QED
    BY <1>3, <2>1 DEF SlabWithout
<1>5. CASE node.next # None
  <2>1. node.next \in D /\ node.prev # node.next
    BY <1>5
  <2>2. s1[node.next] = slab[node.next]
    BY <1>2, <2>1
  <2>3. s2 = [s1 EXCEPT ![node.next] = WithPrev(slab[node.next], node.prev)]
    BY <1>5, <2>2
  <2>4. s2 = t
    <3>1. DOMAIN s2 = D
      BY <1>2, <2>3
    <3>2. ASSUME NEW x \in D PROVE s2[x] = t[x]
      BY <1>2, <1>3, <2>1, <2>3
    <3>3. s2 = [x \in D |-> s2[x]]
      BY <2>3, <1>2
    <3>4. QED
      BY <1>3, <3>2, <3>3
  <2>5. QED
    BY <1>3, <2>4 DEF SlabWithout
<1>6. QED
  BY <1>4, <1>5

\* What the walk says of the head, the tail and the links.
LEMMA WalkFacts ==
  ASSUME NEW l, NEW w, NEW n, Shape(l, w, n)
  PROVE  /\ l \in LevelSet /\ n \in Nat /\ None \notin DOMAIN l.slab
         /\ l.head = (IF n = 0 THEN None ELSE w[1]) /\ l.tail = (IF n = 0 THEN None ELSE w[n])
         /\ \A i \in 1..n : /\ w[i] \in DOMAIN l.slab /\ w[i] \in Nat \ {0}
                            /\ l.slab[w[i]].prev = SlotBefore(w, i) /\ l.slab[w[i]].next = SlotAfter(w, n, i)
         /\ \A i, j \in 1..n : w[i] = w[j] => i = j
         /\ \A x \in DOMAIN l.slab : \E i \in 1..n : w[i] = x
<1>1. /\ l \in LevelSet /\ Cells(l.slab, w, n) /\ Links(l.slab, w, n) /\ Ends(l.head, l.tail, w, n)
  BY DEF Shape
<1>2. /\ n \in Nat /\ w \in [1..n -> Nat \ {0}]
      /\ \A i, j \in 1..n : w[i] = w[j] => i = j
      /\ \A i \in 1..n : w[i] \in DOMAIN l.slab
      /\ \A x \in DOMAIN l.slab : \E i \in 1..n : w[i] = x
  BY <1>1 DEF Cells
<1>3. None \notin DOMAIN l.slab
  BY <1>2 DEF None
<1>4. l.head = (IF n = 0 THEN None ELSE w[1]) /\ l.tail = (IF n = 0 THEN None ELSE w[n])
  BY <1>1 DEF Ends
<1>5. ASSUME NEW i \in 1..n PROVE l.slab[w[i]].prev = SlotBefore(w, i) /\ l.slab[w[i]].next = SlotAfter(w, n, i)
  BY <1>1 DEF Links
<1>6. QED
  BY <1>1, <1>2, <1>3, <1>4, <1>5

\* ListPushBack puts a new slot at the end of the walk, and nothing else moves.
LEMMA PushedBack ==
  ASSUME NEW l, NEW w, NEW n, Shape(l, w, n), NEW o \in Oid, o \notin DOMAIN l.key_to_sid, NEW s \in Nat,
         NEW r, r = ListPushBack(l, o, s)
  PROVE  \E sid, node : /\ Shape(r, Spliced(w, n, n + 1, sid), n + 1)
                        /\ sid \notin DOMAIN l.slab /\ node.sz = s
                        /\ r.slab = SlabWith(l.slab, sid, node)
                        /\ r.key_to_sid = With(l.key_to_sid, o, sid) /\ SameSum(r, l)
<1>1. /\ l \in LevelSet /\ n \in Nat /\ None \notin DOMAIN l.slab
      /\ l.tail = (IF n = 0 THEN None ELSE w[n])
      /\ \A i \in 1..n : w[i] \in DOMAIN l.slab /\ w[i] \in Nat \ {0}
  BY WalkFacts
<1>2. PICK sid \in Nat : sid = NextSlot(l)
  BY NextSlotIs
<1>3. /\ sid = FreeSlot(l.vacant, n) /\ Capacity(l) = CapacityFor(l.vacant, l.capacity, n)
      /\ sid \in Nat \ {0} /\ sid \notin DOMAIN l.slab /\ Capacity(l) \in Nat
  BY <1>2, NextSlotIs
<1>4. PICK node : node = [key |-> o, sz |-> s, next |-> None, prev |-> l.tail]
  OBVIOUS
<1>5. node \in Node /\ node.key = o /\ node.sz = s /\ node.next = None /\ node.prev = l.tail
  <2>1. l.tail \in Nat
    BY <1>1, LevelTypes
  <2>2. QED
    BY <1>4, <2>1 DEF Node, None
<1>6. PICK p : p = SlabInsert(l, node)
  OBVIOUS
<1>7. /\ p \in LevelSet /\ p.slab = With(l.slab, sid, node) /\ p.key_to_sid = With(l.key_to_sid, o, sid)
      /\ p.vacant = Grown(l.vacant) /\ p.capacity = Capacity(l) /\ SameEnds(p, l) /\ SameSum(p, l)
  <2>1. PICK slab, keys : slab = With(l.slab, sid, node) /\ keys = With(l.key_to_sid, o, sid)
    OBVIOUS
  <2>2. l \in LevelSet /\ node \in Node /\ o = node.key /\ sid = NextSlot(l) /\ Capacity(l) \in Nat
    BY <1>1, <1>2, <1>3, <1>5
  <2>3. /\ p \in LevelSet /\ p.slab = slab /\ p.key_to_sid = keys
        /\ p.vacant = Grown(l.vacant) /\ p.capacity = Capacity(l) /\ SameEnds(p, l) /\ SameSum(p, l)
    BY <1>6, <2>1, <2>2, SlabInsertIs
  <2>4. QED
    BY <2>1, <2>3
<1>8. PICK q : q = [p EXCEPT !.tail = sid]
  OBVIOUS
<1>9. q \in LevelSet /\ q.tail = sid /\ q.head = p.head /\ q.slab = p.slab /\ SameSlots(q, p) /\ SameSum(q, p)
  BY <1>3, <1>7, <1>8, SetTail
<1>10. r = IF l.tail = None THEN [q EXCEPT !.head = sid] ELSE SetNext(q, l.tail, sid)
  BY <1>2, <1>4, <1>6, <1>8 DEF ListPushBack
<1>11. /\ r \in LevelSet /\ SameSlots(r, p) /\ SameSum(r, p) /\ r.tail = sid
       /\ r.head = (IF n = 0 THEN sid ELSE l.head)
       /\ r.slab = SlabWith(l.slab, sid, node)
  <2>1. CASE n = 0
    <3>1. l.tail = None /\ r = [q EXCEPT !.head = sid]
      BY <1>1, <1>10, <2>1
    <3>2. /\ r \in LevelSet /\ r.head = sid /\ r.tail = q.tail /\ r.slab = q.slab /\ SameSlots(r, q) /\ SameSum(r, q)
      BY <1>3, <1>9, <3>1, SetHead
    <3>3. r.slab = SlabWith(l.slab, sid, node)
      BY <1>1, <1>3, <1>5, <1>7, <1>9, <3>1, <3>2, LinkedIn
    <3>4. QED
      BY <1>9, <2>1, <3>2, <3>3 DEF SameSlots, SameSum
  <2>2. CASE n # 0
    <3>1. l.tail = w[n] /\ l.tail \in DOMAIN l.slab /\ l.tail # None /\ r = SetNext(q, l.tail, sid)
      BY <1>1, <1>10, <2>2
    <3>2. l.tail \in DOMAIN q.slab
      BY <1>7, <1>9, <3>1 DEF With
    <3>3. /\ r \in LevelSet /\ SameSlots(r, q) /\ SameEnds(r, q) /\ SameSum(r, q)
          /\ r.slab = [q.slab EXCEPT ![l.tail] = WithNext(q.slab[l.tail], sid)]
      BY <1>3, <1>9, <3>1, <3>2, SetNextIs
    <3>4. r.slab = SlabWith(l.slab, sid, node)
      <4>1. PICK s0 : s0 = With(l.slab, sid, node)
        OBVIOUS
      <4>2. r.slab = [s0 EXCEPT ![node.prev] = WithNext(s0[node.prev], sid)]
        BY <1>5, <1>7, <1>9, <3>3, <4>1
      <4>3. QED
        BY <1>1, <1>3, <1>5, <3>1, <4>1, <4>2, LinkedIn
    <3>5. QED
      BY <1>7, <1>9, <2>2, <3>3, <3>4 DEF SameSlots, SameSum, SameEnds
  <2>3. QED
    BY <2>1, <2>2
<1>12. node.prev = SlotBefore(w, n + 1)
  <2>1. n + 1 = 1 <=> n = 0
    BY <1>1
  <2>2. (n + 1) - 1 = n
    BY <1>1
  <2>3. QED
    BY <1>1, <1>5, <2>1, <2>2 DEF SlotBefore
<1>13. Shape(r, Spliced(w, n, n + 1, sid), n + 1)
  <2>1. n + 1 \in 1..(n + 1) /\ (n + 1 = 1 <=> n = 0)
    BY <1>1
  <2>2. /\ r.key_to_sid = With(l.key_to_sid, o, sid) /\ r.vacant = Grown(l.vacant)
        /\ r.capacity = CapacityFor(l.vacant, l.capacity, n)
    BY <1>3, <1>7, <1>11 DEF SameSlots
  <2>3. r.head = (IF n + 1 = 1 THEN sid ELSE l.head) /\ r.tail = (IF n + 1 = n + 1 THEN sid ELSE l.tail)
    BY <1>11, <2>1
  <2>4. node.next = (IF n + 1 = n + 1 THEN None ELSE w[n + 1])
    BY <1>5
  <2>5. QED
    BY <1>3, <1>5, <1>11, <1>12, <2>1, <2>2, <2>3, <2>4, InsertedShape
<1>14. r.key_to_sid = With(l.key_to_sid, o, sid) /\ SameSum(r, l)
  BY <1>7, <1>11 DEF SameSlots, SameSum
<1>15. QED
  BY <1>3, <1>5, <1>11, <1>13, <1>14

\* ListInsertBefore puts a new slot in some place of the walk, and nothing else
\* moves.
LEMMA InsertedBefore ==
  ASSUME NEW l, NEW w, NEW n, Shape(l, w, n), NEW o \in Oid, o \notin DOMAIN l.key_to_sid, NEW s \in Nat,
         NEW b \in DOMAIN l.key_to_sid, NEW r, r = ListInsertBefore(l, b, o, s)
  PROVE  \E i \in 1..n : \E sid, node : /\ Shape(r, Spliced(w, n, i, sid), n + 1)
                                        /\ sid \notin DOMAIN l.slab /\ node.sz = s
                                        /\ r.slab = SlabWith(l.slab, sid, node)
                                        /\ r.key_to_sid = With(l.key_to_sid, o, sid) /\ SameSum(r, l)
<1>1. /\ l \in LevelSet /\ n \in Nat /\ None \notin DOMAIN l.slab
      /\ \A i \in 1..n : /\ w[i] \in DOMAIN l.slab /\ w[i] \in Nat \ {0}
                         /\ l.slab[w[i]].prev = SlotBefore(w, i)
      /\ \A i, j \in 1..n : w[i] = w[j] => i = j
      /\ \A x \in DOMAIN l.slab : \E i \in 1..n : w[i] = x
      /\ l.head = (IF n = 0 THEN None ELSE w[1])
  BY WalkFacts
<1>2. PICK sid \in Nat : sid = NextSlot(l)
  BY NextSlotIs
<1>3. /\ sid = FreeSlot(l.vacant, n) /\ Capacity(l) = CapacityFor(l.vacant, l.capacity, n)
      /\ sid \in Nat \ {0} /\ sid \notin DOMAIN l.slab /\ Capacity(l) \in Nat
  BY <1>2, NextSlotIs
<1>4. PICK at : at = l.key_to_sid[b]
  OBVIOUS
<1>5. at \in DOMAIN l.slab
  <2>1. Keys(l.key_to_sid, l.slab)
    BY DEF Shape
  <2>2. QED
    BY <1>4, <2>1 DEF Keys
<1>6. PICK i \in 1..n : w[i] = at
  BY <1>1, <1>5
<1>7. PICK prev : prev = SlotBefore(w, i)
  OBVIOUS
<1>8. /\ prev = l.slab[at].prev /\ at \in Nat \ {0} /\ (prev = None <=> i = 1)
      /\ prev # at /\ (prev # None => prev \in DOMAIN l.slab) /\ prev \in Nat
  <2>1. prev = l.slab[at].prev /\ at \in Nat \ {0}
    BY <1>1, <1>6, <1>7
  <2>2. CASE i = 1
    BY <1>7, <2>1, <2>2 DEF SlotBefore, None
  <2>3. CASE i # 1
    <3>1. i - 1 \in 1..n /\ i - 1 # i /\ prev = w[i - 1]
      BY <1>1, <1>7, <2>3 DEF SlotBefore
    <3>2. w[i - 1] \in DOMAIN l.slab /\ w[i - 1] \in Nat \ {0} /\ w[i - 1] # w[i]
      BY <1>1, <3>1
    <3>3. QED
      BY <1>6, <2>1, <2>3, <3>1, <3>2 DEF None
  <2>4. QED
    BY <2>2, <2>3
<1>9. PICK node : node = [key |-> o, sz |-> s, next |-> at, prev |-> prev]
  OBVIOUS
<1>10. node \in Node /\ node.key = o /\ node.sz = s /\ node.next = at /\ node.prev = prev
  BY <1>8, <1>9 DEF Node
<1>11. PICK p : p = SlabInsert(l, node)
  OBVIOUS
<1>12. /\ p \in LevelSet /\ p.slab = With(l.slab, sid, node) /\ p.key_to_sid = With(l.key_to_sid, o, sid)
       /\ p.vacant = Grown(l.vacant) /\ p.capacity = Capacity(l) /\ SameEnds(p, l) /\ SameSum(p, l)
  <2>1. PICK slab, keys : slab = With(l.slab, sid, node) /\ keys = With(l.key_to_sid, o, sid)
    OBVIOUS
  <2>2. l \in LevelSet /\ node \in Node /\ o = node.key /\ sid = NextSlot(l) /\ Capacity(l) \in Nat
    BY <1>1, <1>2, <1>3, <1>10
  <2>3. /\ p \in LevelSet /\ p.slab = slab /\ p.key_to_sid = keys
        /\ p.vacant = Grown(l.vacant) /\ p.capacity = Capacity(l) /\ SameEnds(p, l) /\ SameSum(p, l)
    BY <1>11, <2>1, <2>2, SlabInsertIs
  <2>4. QED
    BY <2>1, <2>3
<1>13. PICK q : q = SetPrev(p, at, sid)
  OBVIOUS
<1>14. /\ q \in LevelSet /\ SameSlots(q, p) /\ SameEnds(q, p) /\ SameSum(q, p)
       /\ q.slab = [p.slab EXCEPT ![at] = WithPrev(p.slab[at], sid)]
  <2>1. at \in DOMAIN p.slab
    BY <1>5, <1>12 DEF With
  <2>2. QED
    BY <1>3, <1>12, <1>13, <2>1, SetPrevIs
<1>15. r = IF prev = None THEN [q EXCEPT !.head = sid] ELSE SetNext(q, prev, sid)
  BY <1>2, <1>4, <1>8, <1>9, <1>11, <1>13 DEF ListInsertBefore
<1>16. PICK s0, s1 : s0 = With(l.slab, sid, node) /\ s1 = [s0 EXCEPT ![at] = WithPrev(s0[at], sid)]
  OBVIOUS
<1>17. q.slab = s1 /\ node.next # None /\ node.next # node.prev
  BY <1>8, <1>10, <1>12, <1>14, <1>16 DEF None
<1>18. /\ r \in LevelSet /\ SameSlots(r, p) /\ SameSum(r, p) /\ r.tail = l.tail
       /\ r.head = (IF i = 1 THEN sid ELSE l.head)
       /\ r.slab = SlabWith(l.slab, sid, node)
  <2>1. CASE prev = None
    <3>1. r = [q EXCEPT !.head = sid]
      BY <1>15, <2>1
    <3>2. /\ r \in LevelSet /\ r.head = sid /\ r.tail = q.tail /\ r.slab = q.slab /\ SameSlots(r, q) /\ SameSum(r, q)
      BY <1>3, <1>14, <3>1, SetHead
    <3>3. r.slab = SlabWith(l.slab, sid, node)
      BY <1>1, <1>3, <1>5, <1>10, <1>16, <1>17, <2>1, <3>2, LinkedIn
    <3>4. QED
      BY <1>8, <1>12, <1>14, <2>1, <3>2, <3>3 DEF SameSlots, SameSum, SameEnds
  <2>2. CASE prev # None
    <3>1. prev \in DOMAIN l.slab /\ r = SetNext(q, prev, sid)
      BY <1>8, <1>15, <2>2
    <3>2. prev \in DOMAIN q.slab
      BY <1>16, <1>17, <3>1 DEF With
    <3>3. /\ r \in LevelSet /\ SameSlots(r, q) /\ SameEnds(r, q) /\ SameSum(r, q)
          /\ r.slab = [q.slab EXCEPT ![prev] = WithNext(q.slab[prev], sid)]
      BY <1>3, <1>14, <3>1, <3>2, SetNextIs
    <3>4. r.slab = SlabWith(l.slab, sid, node)
      BY <1>1, <1>3, <1>5, <1>10, <1>16, <1>17, <2>2, <3>1, <3>3, LinkedIn
    <3>5. QED
      BY <1>8, <1>12, <1>14, <2>2, <3>3, <3>4 DEF SameSlots, SameSum, SameEnds
  <2>3. QED
    BY <2>1, <2>2
<1>19. Shape(r, Spliced(w, n, i, sid), n + 1)
  <2>1. i \in 1..(n + 1) /\ i # n + 1
    BY <1>1
  <2>2. /\ r.key_to_sid = With(l.key_to_sid, o, sid) /\ r.vacant = Grown(l.vacant)
        /\ r.capacity = CapacityFor(l.vacant, l.capacity, n)
    BY <1>3, <1>12, <1>18 DEF SameSlots
  <2>3. r.head = (IF i = 1 THEN sid ELSE l.head) /\ r.tail = (IF i = n + 1 THEN sid ELSE l.tail)
    BY <1>18, <2>1
  <2>4. node.next = (IF i = n + 1 THEN None ELSE w[i]) /\ node.prev = SlotBefore(w, i)
    BY <1>6, <1>7, <1>10, <2>1
  <2>5. QED
    BY <1>3, <1>10, <1>18, <2>1, <2>2, <2>3, <2>4, InsertedShape
<1>20. r.key_to_sid = With(l.key_to_sid, o, sid) /\ SameSum(r, l)
  BY <1>12, <1>18 DEF SameSlots, SameSum
<1>21. QED
  BY <1>3, <1>10, <1>18, <1>19, <1>20

\* ListRemove takes the slot of the order out of the walk, and nothing else
\* moves.
LEMMA Removed ==
  ASSUME NEW l, NEW w, NEW n, Shape(l, w, n), NEW o \in DOMAIN l.key_to_sid, NEW r, r = ListRemove(l, o)
  PROVE  \E i \in 1..n : /\ Shape(r, Cut(w, n, i), n - 1)
                         /\ l.key_to_sid[o] = w[i] /\ w[i] \in DOMAIN l.slab
                         /\ r.slab = SlabWithout(l.slab, w[i])
                         /\ r.key_to_sid = Without(l.key_to_sid, o) /\ SameSum(r, l)
<1>1. /\ l \in LevelSet /\ n \in Nat /\ None \notin DOMAIN l.slab
      /\ \A i \in 1..n : /\ w[i] \in DOMAIN l.slab /\ w[i] \in Nat \ {0}
                         /\ l.slab[w[i]].prev = SlotBefore(w, i) /\ l.slab[w[i]].next = SlotAfter(w, n, i)
      /\ \A i, j \in 1..n : w[i] = w[j] => i = j
      /\ \A x \in DOMAIN l.slab : \E i \in 1..n : w[i] = x
  BY WalkFacts
<1>2. l.key_to_sid[o] \in DOMAIN l.slab /\ l.slab[l.key_to_sid[o]].key = o
  <2>1. Keys(l.key_to_sid, l.slab)
    BY DEF Shape
  <2>2. QED
    BY <2>1 DEF Keys
<1>3. PICK i \in 1..n : w[i] = l.key_to_sid[o]
  BY <1>1, <1>2
<1>4. PICK sid, prev, next : sid = w[i] /\ prev = SlotBefore(w, i) /\ next = SlotAfter(w, n, i)
  OBVIOUS
<1>5. PICK node : node = l.slab[sid]
  OBVIOUS
<1>6. /\ sid \in DOMAIN l.slab /\ sid \in Nat /\ node.prev = prev /\ node.next = next
      /\ (prev = None <=> i = 1) /\ (next = None <=> i = n) /\ prev \in Nat /\ next \in Nat
      /\ (prev # None => prev \in DOMAIN l.slab \ {sid}) /\ (next # None => next \in DOMAIN l.slab \ {sid})
      /\ (prev = next => next = None)
  <2>1. sid \in DOMAIN l.slab /\ sid \in Nat /\ node.prev = prev /\ node.next = next
    BY <1>1, <1>4, <1>5
  <2>2. (prev = None <=> i = 1) /\ prev \in Nat /\ (prev # None => prev = w[i - 1] /\ prev \in DOMAIN l.slab \ {sid} /\ i - 1 \in 1..n)
    <3>1. CASE i = 1
      BY <1>4, <3>1 DEF SlotBefore, None
    <3>2. CASE i # 1
      <4>1. i - 1 \in 1..n /\ i - 1 # i /\ prev = w[i - 1]
        BY <1>1, <1>4, <3>2 DEF SlotBefore
      <4>2. w[i - 1] \in DOMAIN l.slab /\ w[i - 1] \in Nat \ {0} /\ w[i - 1] # w[i]
        BY <1>1, <4>1
      <4>3. QED
        BY <1>4, <3>2, <4>1, <4>2 DEF None
    <3>3. QED
      BY <3>1, <3>2
  <2>3. (next = None <=> i = n) /\ next \in Nat /\ (next # None => next = w[i + 1] /\ next \in DOMAIN l.slab \ {sid} /\ i + 1 \in 1..n)
    <3>1. CASE i = n
      BY <1>4, <3>1 DEF SlotAfter, None
    <3>2. CASE i # n
      <4>1. i + 1 \in 1..n /\ i + 1 # i /\ next = w[i + 1]
        BY <1>1, <1>4, <3>2 DEF SlotAfter
      <4>2. w[i + 1] \in DOMAIN l.slab /\ w[i + 1] \in Nat \ {0} /\ w[i + 1] # w[i]
        BY <1>1, <4>1
      <4>3. QED
        BY <1>4, <3>2, <4>1, <4>2 DEF None
    <3>3. QED
      BY <3>1, <3>2
  <2>4. prev = next => next = None
    <3> SUFFICES ASSUME prev = next, next # None PROVE FALSE
      OBVIOUS
    <3>1. w[i - 1] = w[i + 1] /\ i - 1 \in 1..n /\ i + 1 \in 1..n
      BY <2>2, <2>3
    <3>2. i - 1 = i + 1
      BY <1>1, <3>1
    <3>3. QED
      BY <3>2
  <2>5. QED
    BY <2>1, <2>2, <2>3, <2>4
<1>7. PICK p : p = SlabRemove(l, o)
  OBVIOUS
<1>8. /\ p \in LevelSet /\ p.slab = Without(l.slab, sid) /\ p.key_to_sid = Without(l.key_to_sid, o)
      /\ p.vacant = <<sid>> \o l.vacant /\ p.capacity = l.capacity /\ SameEnds(p, l) /\ SameSum(p, l)
  BY <1>1, <1>3, <1>4, <1>6, <1>7, SlabRemoveIs
<1>9. PICK q : q = IF prev = None THEN [p EXCEPT !.head = next] ELSE SetNext(p, prev, next)
  OBVIOUS
<1>10. r = IF next = None THEN [q EXCEPT !.tail = prev] ELSE SetPrev(q, next, prev)
  BY <1>3, <1>4, <1>5, <1>6, <1>7, <1>9 DEF ListRemove, Unlink
<1>11. PICK s0, s1 : /\ s0 = Without(l.slab, sid)
                     /\ s1 = IF prev = None THEN s0 ELSE [s0 EXCEPT ![prev] = WithNext(s0[prev], next)]
  OBVIOUS
<1>12. /\ q \in LevelSet /\ SameSlots(q, p) /\ SameSum(q, p) /\ q.tail = l.tail
       /\ q.head = (IF i = 1 THEN next ELSE l.head) /\ q.slab = s1
  <2>1. CASE prev = None
    <3>1. q = [p EXCEPT !.head = next]
      BY <1>9, <2>1
    <3>2. /\ q \in LevelSet /\ q.head = next /\ q.tail = p.tail /\ q.slab = p.slab /\ SameSlots(q, p) /\ SameSum(q, p)
      BY <1>6, <1>8, <3>1, SetHead
    <3>3. QED
      BY <1>6, <1>8, <1>11, <2>1, <3>2 DEF SameEnds
  <2>2. CASE prev # None
    <3>1. q = SetNext(p, prev, next)
      BY <1>9, <2>2
    <3>2. prev \in DOMAIN p.slab
      BY <1>6, <1>8, <2>2 DEF Without, Restrict
    <3>3. /\ q \in LevelSet /\ SameSlots(q, p) /\ SameEnds(q, p) /\ SameSum(q, p)
          /\ q.slab = [p.slab EXCEPT ![prev] = WithNext(p.slab[prev], next)]
      BY <1>6, <1>8, <3>1, <3>2, SetNextIs
    <3>4. QED
      BY <1>6, <1>8, <1>11, <2>2, <3>3 DEF SameEnds
  <2>3. QED
    BY <2>1, <2>2
<1>13. /\ r \in LevelSet /\ SameSlots(r, p) /\ SameSum(r, p) /\ r.tail = (IF i = n THEN prev ELSE l.tail)
       /\ r.head = (IF i = 1 THEN next ELSE l.head) /\ r.slab = SlabWithout(l.slab, sid)
  <2>1. CASE next = None
    <3>1. r = [q EXCEPT !.tail = prev]
      BY <1>10, <2>1
    <3>2. /\ r \in LevelSet /\ r.tail = prev /\ r.head = q.head /\ r.slab = q.slab /\ SameSlots(r, q) /\ SameSum(r, q)
      BY <1>6, <1>12, <3>1, SetTail
    <3>3. r.slab = SlabWithout(l.slab, sid)
      BY <1>1, <1>5, <1>6, <1>11, <1>12, <2>1, <3>2, LinkedOut
    <3>4. QED
      BY <1>6, <1>12, <2>1, <3>2, <3>3 DEF SameSlots, SameSum
  <2>2. CASE next # None
    <3>1. r = SetPrev(q, next, prev)
      BY <1>10, <2>2
    <3>2. next \in DOMAIN q.slab
      BY <1>6, <1>11, <1>12, <2>2 DEF Without, Restrict
    <3>3. /\ r \in LevelSet /\ SameSlots(r, q) /\ SameEnds(r, q) /\ SameSum(r, q)
          /\ r.slab = [q.slab EXCEPT ![next] = WithPrev(q.slab[next], prev)]
      BY <1>6, <1>12, <3>1, <3>2, SetPrevIs
    <3>4. r.slab = SlabWithout(l.slab, sid)
      BY <1>1, <1>5, <1>6, <1>11, <1>12, <2>2, <3>3, LinkedOut
    <3>5. QED
      BY <1>6, <1>12, <2>2, <3>3, <3>4 DEF SameSlots, SameSum, SameEnds
  <2>3. QED
    BY <2>1, <2>2
<1>14. Shape(r, Cut(w, n, i), n - 1)
  <2>1. /\ r.key_to_sid = Without(l.key_to_sid, o) /\ r.slab = SlabWithout(l.slab, w[i])
        /\ r.vacant = <<w[i]>> \o l.vacant /\ r.capacity = l.capacity
    BY <1>4, <1>8, <1>13 DEF SameSlots
  <2>2. r.head = (IF i = 1 THEN SlotAfter(w, n, i) ELSE l.head) /\ r.tail = (IF i = n THEN SlotBefore(w, i) ELSE l.tail)
    BY <1>4, <1>13
  <2>3. o = l.slab[w[i]].key
    BY <1>2, <1>3
  <2>4. QED
    BY <1>13, <2>1, <2>2, <2>3, RemovedShape
<1>15. r.key_to_sid = Without(l.key_to_sid, o) /\ SameSum(r, l)
  BY <1>8, <1>13 DEF SameSlots, SameSum
<1>16. QED
  BY <1>3, <1>4, <1>6, <1>13, <1>14, <1>15

-----------------------------------------------------------------------------
(* The sizes in a level, and what a change of it does to their sum.        *)

\* The level can be walked; what its sizes sum to; the size of an order.
Linked(l) == \E w, n : Shape(l, w, n)
Total(l) == SumIn(l.slab, DOMAIN l.slab)
SizeAt(l, o) == l.slab[l.key_to_sid[o]].sz

\* No order of the level has size 0; the orders of l that r has too have the same
\* sizes there.
Live(l) == \A o \in DOMAIN l.key_to_sid : SizeAt(l, o) # 0
SameSizes(r, l) ==
  \A p \in DOMAIN l.key_to_sid : p \in DOMAIN r.key_to_sid => SizeAt(r, p) = SizeAt(l, p)

\* The map and the slab of a linked level mirror each other, and its sizes can be
\* summed.
LEMMA LinkedSized ==
  ASSUME NEW l, Linked(l)
  PROVE  /\ l \in LevelSet /\ IsFiniteSet(DOMAIN l.slab)
         /\ \A x \in DOMAIN l.slab : l.slab[x].sz \in Nat
         /\ Sized(l.slab, DOMAIN l.slab) /\ Total(l) \in Nat
         /\ \A o \in DOMAIN l.key_to_sid : l.key_to_sid[o] \in DOMAIN l.slab /\ l.slab[l.key_to_sid[o]].key = o
         /\ \A x \in DOMAIN l.slab : l.slab[x].key \in DOMAIN l.key_to_sid /\ l.key_to_sid[l.slab[x].key] = x
<1>1. PICK w, n : Shape(l, w, n)
  BY DEF Linked
<1>2. l \in LevelSet /\ Keys(l.key_to_sid, l.slab)
  BY <1>1 DEF Shape
<1>3. IsFiniteSet(DOMAIN l.slab)
  BY <1>1, NextSlotIs
<1>4. ASSUME NEW x \in DOMAIN l.slab PROVE l.slab[x].sz \in Nat
  <2>1. PICK nd \in Node : nd = l.slab[x]
    BY <1>2, NodeIn
  <2>2. QED
    BY <2>1, NodeTypes
<1>5. Sized(l.slab, DOMAIN l.slab)
  BY <1>3, <1>4 DEF Sized
<1>6. Total(l) \in Nat
  BY <1>5, SumType DEF Total
<1>7. QED
  BY <1>2, <1>3, <1>4, <1>5, <1>6 DEF Keys

\* A new node adds its size to the sum.
LEMMA SumWith ==
  ASSUME NEW slab, Sized(slab, DOMAIN slab), NEW sid, sid \notin DOMAIN slab, NEW node, node.sz \in Nat,
         NEW S, S = SlabWith(slab, sid, node)
  PROVE  SumIn(S, DOMAIN S) = SumIn(slab, DOMAIN slab) + node.sz
<1>1. /\ \A x : x \in DOMAIN S <=> x \in DOMAIN slab \/ x = sid
      /\ S[sid] = node
      /\ \A x \in DOMAIN slab : x # sid => S[x].sz = slab[x].sz
  BY SlabWithIs
<1>2. IsFiniteSet(DOMAIN slab) /\ \A x \in DOMAIN slab : slab[x].sz \in Nat
  BY DEF Sized
<1>3. DOMAIN S = DOMAIN slab \cup {sid} /\ DOMAIN S \ {sid} = DOMAIN slab
  BY <1>1
<1>4. IsFiniteSet(DOMAIN S)
  BY <1>2, <1>3, FS_AddElement
<1>5. \A x \in DOMAIN S : S[x].sz \in Nat
  BY <1>1, <1>2
<1>6. Sized(S, DOMAIN S)
  BY <1>4, <1>5 DEF Sized
<1>7. sid \in DOMAIN S
  BY <1>1
<1>8. SumIn(S, DOMAIN S) = S[sid].sz + SumIn(S, DOMAIN S \ {sid})
  BY <1>6, <1>7, SumOfAny
<1>9. \A x \in DOMAIN slab : S[x].sz = slab[x].sz
  BY <1>1
<1>10. SumIn(S, DOMAIN slab) = SumIn(slab, DOMAIN slab)
  BY <1>2, <1>9, SumOfSame
<1>11. SumIn(slab, DOMAIN slab) \in Nat
  BY SumType
<1>12. QED
  BY <1>1, <1>3, <1>8, <1>10, <1>11

\* A node that leaves takes its size from the sum.
LEMMA SumWithout ==
  ASSUME NEW slab, Sized(slab, DOMAIN slab), NEW sid \in DOMAIN slab, NEW S, S = SlabWithout(slab, sid)
  PROVE  SumIn(S, DOMAIN S) + slab[sid].sz = SumIn(slab, DOMAIN slab)
<1>1. /\ \A x : x \in DOMAIN S <=> x \in DOMAIN slab /\ x # sid
      /\ \A x \in DOMAIN S : S[x].sz = slab[x].sz
  BY SlabWithoutIs
<1>2. IsFiniteSet(DOMAIN slab) /\ \A x \in DOMAIN slab : slab[x].sz \in Nat
  BY DEF Sized
<1>3. DOMAIN S = DOMAIN slab \ {sid}
  BY <1>1
<1>4. IsFiniteSet(DOMAIN S)
  BY <1>2, <1>3, FS_RemoveElement
<1>5. SumIn(slab, DOMAIN slab) = slab[sid].sz + SumIn(slab, DOMAIN slab \ {sid})
  BY SumOfAny
<1>6. SumIn(S, DOMAIN S) = SumIn(slab, DOMAIN S)
  BY <1>1, <1>4, SumOfSame
<1>7. Sized(slab, DOMAIN S)
  BY <1>1, <1>2, <1>4 DEF Sized
<1>8. SumIn(slab, DOMAIN S) \in Nat
  BY <1>7, SumType
<1>9. QED
  BY <1>2, <1>3, <1>5, <1>6, <1>8

\* A change of size changes the sum by the difference.
LEMMA SumResized ==
  ASSUME NEW slab, Sized(slab, DOMAIN slab), NEW sid \in DOMAIN slab, NEW s \in Nat,
         NEW S, S = [slab EXCEPT ![sid] = WithSz(slab[sid], s)]
  PROVE  SumIn(S, DOMAIN S) + slab[sid].sz = SumIn(slab, DOMAIN slab) + s
<1>1. /\ DOMAIN S = DOMAIN slab /\ S[sid].sz = s
      /\ \A x \in DOMAIN slab : x # sid => S[x] = slab[x]
  BY DEF WithSz
<1>2. IsFiniteSet(DOMAIN slab) /\ \A x \in DOMAIN slab : slab[x].sz \in Nat
  BY DEF Sized
<1>3. \A x \in DOMAIN slab : S[x].sz \in Nat
  BY <1>1, <1>2
<1>4. Sized(S, DOMAIN slab)
  BY <1>2, <1>3 DEF Sized
<1>5. SumIn(S, DOMAIN slab) = S[sid].sz + SumIn(S, DOMAIN slab \ {sid})
  BY <1>4, SumOfAny
<1>6. SumIn(slab, DOMAIN slab) = slab[sid].sz + SumIn(slab, DOMAIN slab \ {sid})
  BY SumOfAny
<1>7. PICK D : D = DOMAIN slab \ {sid}
  OBVIOUS
<1>8. IsFiniteSet(D)
  BY <1>2, <1>7, FS_RemoveElement
<1>9. \A x \in D : S[x].sz = slab[x].sz
  BY <1>1, <1>7
<1>10. SumIn(S, D) = SumIn(slab, D)
  BY <1>8, <1>9, SumOfSame
<1>11. Sized(slab, D)
  BY <1>2, <1>7, <1>8 DEF Sized
<1>12. SumIn(slab, D) \in Nat
  BY <1>11, SumType
<1>13. QED
  BY <1>1, <1>2, <1>5, <1>6, <1>7, <1>10, <1>12

\* r is l with an order o of size s more, and with the same running sum.
Gains(r, l, o, s) ==
  /\ Linked(r)
  /\ \A p : p \in DOMAIN r.key_to_sid <=> p \in DOMAIN l.key_to_sid \/ p = o
  /\ Total(r) = Total(l) + s
  /\ SameSum(r, l)
  /\ SameSizes(r, l) /\ SizeAt(r, o) = s

\* r is l without order o, and with the same running sum.
Loses(r, l, o) ==
  /\ Linked(r)
  /\ \A p : p \in DOMAIN r.key_to_sid <=> p \in DOMAIN l.key_to_sid /\ p # o
  /\ Total(r) + SizeAt(l, o) = Total(l)
  /\ SameSum(r, l)
  /\ SameSizes(r, l)

\* A level with a slot more in its walk has an order more.
LEMMA SplicedGains ==
  ASSUME NEW l, Linked(l), NEW o \in Oid, o \notin DOMAIN l.key_to_sid, NEW s \in Nat, NEW r, Linked(r),
         NEW sid, NEW node, sid \notin DOMAIN l.slab, node.sz = s,
         r.slab = SlabWith(l.slab, sid, node), r.key_to_sid = With(l.key_to_sid, o, sid), SameSum(r, l)
  PROVE  Gains(r, l, o, s)
<1>1. Total(r) = Total(l) + s
  <2>1. PICK slab : slab = l.slab
    OBVIOUS
  <2>2. Sized(slab, DOMAIN slab)
    BY <2>1, LinkedSized
  <2>3. PICK S : S = r.slab
    OBVIOUS
  <2>4. SumIn(S, DOMAIN S) = SumIn(slab, DOMAIN slab) + node.sz
    BY <2>1, <2>2, <2>3, SumWith
  <2>5. QED
    BY <2>1, <2>3, <2>4 DEF Total
<1>2. \A p : p \in DOMAIN r.key_to_sid <=> p \in DOMAIN l.key_to_sid \/ p = o
  BY DEF With
<1>3. r.key_to_sid[o] = sid /\ \A p \in DOMAIN l.key_to_sid : r.key_to_sid[p] = l.key_to_sid[p]
  BY DEF With
<1>4. SizeAt(r, o) = s
  <2>1. r.slab[sid] = node
    BY SlabWithIs
  <2>2. QED
    BY <1>3, <2>1 DEF SizeAt
<1>5. SameSizes(r, l)
  <2>1. ASSUME NEW p \in DOMAIN l.key_to_sid PROVE SizeAt(r, p) = SizeAt(l, p)
    <3>1. PICK x \in DOMAIN l.slab : x = l.key_to_sid[p]
      BY LinkedSized
    <3>2. x # sid
      OBVIOUS
    <3>3. r.slab[x].sz = l.slab[x].sz
      BY <3>2, SlabWithIs
    <3>4. QED
      BY <1>3, <3>1, <3>3 DEF SizeAt
  <2>2. QED
    BY <2>1 DEF SameSizes
<1>6. QED
  BY <1>1, <1>2, <1>4, <1>5 DEF Gains

\* ListPushBack adds one order and its size.
LEMMA BackGains ==
  ASSUME NEW l, Linked(l), NEW o \in Oid, o \notin DOMAIN l.key_to_sid, NEW s \in Nat,
         NEW r, r = ListPushBack(l, o, s)
  PROVE  Gains(r, l, o, s)
<1>1. PICK w, n : Shape(l, w, n)
  BY DEF Linked
<1>2. PICK sid, node : /\ Shape(r, Spliced(w, n, n + 1, sid), n + 1)
                       /\ sid \notin DOMAIN l.slab /\ node.sz = s
                       /\ r.slab = SlabWith(l.slab, sid, node)
                       /\ r.key_to_sid = With(l.key_to_sid, o, sid) /\ SameSum(r, l)
  BY <1>1, PushedBack
<1>3. Linked(r)
  BY <1>2 DEF Linked
<1>4. QED
  BY <1>2, <1>3, SplicedGains

\* ListInsertBefore adds one order and its size.
LEMMA BeforeGains ==
  ASSUME NEW l, Linked(l), NEW o \in Oid, o \notin DOMAIN l.key_to_sid, NEW s \in Nat,
         NEW b \in DOMAIN l.key_to_sid, NEW r, r = ListInsertBefore(l, b, o, s)
  PROVE  Gains(r, l, o, s)
<1>1. PICK w, n : Shape(l, w, n)
  BY DEF Linked
<1>2. PICK i \in 1..n : \E sid, node : /\ Shape(r, Spliced(w, n, i, sid), n + 1)
                                       /\ sid \notin DOMAIN l.slab /\ node.sz = s
                                       /\ r.slab = SlabWith(l.slab, sid, node)
                                       /\ r.key_to_sid = With(l.key_to_sid, o, sid) /\ SameSum(r, l)
  BY <1>1, InsertedBefore
<1>3. PICK sid, node : /\ Shape(r, Spliced(w, n, i, sid), n + 1)
                       /\ sid \notin DOMAIN l.slab /\ node.sz = s
                       /\ r.slab = SlabWith(l.slab, sid, node)
                       /\ r.key_to_sid = With(l.key_to_sid, o, sid) /\ SameSum(r, l)
  BY <1>2
<1>4. Linked(r)
  BY <1>3 DEF Linked
<1>5. QED
  BY <1>3, <1>4, SplicedGains

\* ListRemove takes one order and its size.
LEMMA RemovedLoses ==
  ASSUME NEW l, Linked(l), NEW o \in DOMAIN l.key_to_sid, NEW r, r = ListRemove(l, o)
  PROVE  Loses(r, l, o)
<1>1. PICK w, n : Shape(l, w, n)
  BY DEF Linked
<1>2. PICK i \in 1..n : /\ Shape(r, Cut(w, n, i), n - 1)
                        /\ l.key_to_sid[o] = w[i] /\ w[i] \in DOMAIN l.slab
                        /\ r.slab = SlabWithout(l.slab, w[i])
                        /\ r.key_to_sid = Without(l.key_to_sid, o) /\ SameSum(r, l)
  BY <1>1, Removed
<1>3. Linked(r)
  BY <1>2 DEF Linked
<1>4. Total(r) + SizeAt(l, o) = Total(l)
  <2>1. PICK slab, S, sid : slab = l.slab /\ S = r.slab /\ sid = w[i]
    OBVIOUS
  <2>2. Sized(slab, DOMAIN slab)
    BY <2>1, LinkedSized
  <2>3. sid \in DOMAIN slab /\ S = SlabWithout(slab, sid)
    BY <1>2, <2>1
  <2>4. SumIn(S, DOMAIN S) + slab[sid].sz = SumIn(slab, DOMAIN slab)
    BY <2>2, <2>3, SumWithout
  <2>5. QED
    BY <1>2, <2>1, <2>4 DEF Total, SizeAt
<1>5. \A p : p \in DOMAIN r.key_to_sid <=> p \in DOMAIN l.key_to_sid /\ p # o
  BY <1>2 DEF Without, Restrict
<1>6. SameSizes(r, l)
  <2>1. ASSUME NEW p \in DOMAIN l.key_to_sid, p \in DOMAIN r.key_to_sid PROVE SizeAt(r, p) = SizeAt(l, p)
    <3>1. PICK x \in DOMAIN l.slab : x = l.key_to_sid[p] /\ l.slab[x].key = p
      BY LinkedSized
    <3>2. l.slab[w[i]].key = o /\ p # o
      <4>1. l.slab[l.key_to_sid[o]].key = o
        BY LinkedSized
      <4>2. QED
        BY <1>2, <1>5, <2>1, <4>1
    <3>3. x \in DOMAIN r.slab
      BY <1>2, <3>1, <3>2, SlabWithoutIs
    <3>4. r.slab[x].sz = l.slab[x].sz
      BY <1>2, <3>3, SlabWithoutIs
    <3>5. r.key_to_sid[p] = x
      BY <1>2, <2>1, <3>1 DEF Without, Restrict
    <3>6. QED
      BY <3>1, <3>4, <3>5 DEF SizeAt
  <2>2. QED
    BY <2>1 DEF SameSizes
<1>7. QED
  BY <1>2, <1>3, <1>4, <1>5, <1>6 DEF Loses

-----------------------------------------------------------------------------
(* The operations of a price level, with the running sum.                  *)

\* The running sum is right, as AggregateExact has it.
Summed(l) == l.total_sz <= Total(l) /\ (~l.saturated => l.total_sz = Total(l))
Good(l) == Linked(l) /\ Summed(l)

SameOids(r, l) == \A p : p \in DOMAIN r.key_to_sid <=> p \in DOMAIN l.key_to_sid

\* The running sum plays no part in the links.
LEMMA SumIsApart ==
  ASSUME NEW l, Linked(l), NEW r \in LevelSet, r.slab = l.slab, SameSlots(r, l), SameEnds(r, l)
  PROVE  Linked(r) /\ Total(r) = Total(l) /\ SameOids(r, l) /\ SameSizes(r, l)
<1>1. PICK w, n : Shape(l, w, n)
  BY DEF Linked
<1>2. /\ l \in LevelSet /\ Cells(l.slab, w, n) /\ Links(l.slab, w, n) /\ Ends(l.head, l.tail, w, n)
      /\ Keys(l.key_to_sid, l.slab) /\ Room(l.vacant, l.capacity, DOMAIN l.slab, n)
  BY <1>1 DEF Shape
<1>3. Shape(r, w, n)
  BY <1>2 DEF Shape, SameSlots, SameEnds
<1>4. QED
  BY <1>3 DEF Linked, Total, SameOids, SameSizes, SizeAt, SameSlots

\* A change of size keeps the orders and their links.
LEMMA ResizedKeeps ==
  ASSUME NEW l, Linked(l), NEW o \in DOMAIN l.key_to_sid, NEW s \in Nat,
         NEW x, x = l.key_to_sid[o], NEW r, r = SetSz(l, x, s)
  PROVE  /\ Linked(r) /\ SameOids(r, l) /\ SameSum(r, l) /\ Total(r) + SizeAt(l, o) = Total(l) + s
         /\ SizeAt(r, o) = s /\ r.head = l.head
         /\ \A p \in DOMAIN l.key_to_sid : p # o => SizeAt(r, p) = SizeAt(l, p)
<1>1. PICK w, n : Shape(l, w, n)
  BY DEF Linked
<1>2. /\ l \in LevelSet /\ Cells(l.slab, w, n) /\ Links(l.slab, w, n) /\ Ends(l.head, l.tail, w, n)
      /\ Keys(l.key_to_sid, l.slab) /\ Room(l.vacant, l.capacity, DOMAIN l.slab, n)
  BY <1>1 DEF Shape
<1>3. PICK slab : slab = l.slab
  OBVIOUS
<1>4. x \in DOMAIN slab
  BY <1>2, <1>3 DEF Keys
<1>5. PICK S : S = [slab EXCEPT ![x] = WithSz(slab[x], s)]
  OBVIOUS
<1>6. r \in LevelSet /\ SameSlots(r, l) /\ SameEnds(r, l) /\ SameSum(r, l) /\ r.slab = S
  <2>1. l \in LevelSet /\ x \in DOMAIN l.slab
    BY <1>2, <1>3, <1>4
  <2>2. /\ r \in LevelSet /\ SameSlots(r, l) /\ SameEnds(r, l) /\ SameSum(r, l)
        /\ r.slab = [l.slab EXCEPT ![x] = WithSz(l.slab[x], s)]
    BY <2>1, SetSzIs
  <2>3. QED
    BY <1>3, <1>5, <2>2
<1>7. /\ DOMAIN S = DOMAIN slab
      /\ \A y \in DOMAIN slab : S[y].key = slab[y].key /\ S[y].next = slab[y].next /\ S[y].prev = slab[y].prev
      /\ S[x].sz = s
  BY <1>4, <1>5 DEF WithSz
<1>8. S \in [DOMAIN S -> Node]
  <2>1. S \in Maps(Nat, Node)
    BY <1>6, LevelTypes
  <2>2. QED
    BY <2>1, MapIs
<1>9. Cells(S, w, n)
  BY <1>2, <1>3, <1>7, <1>8 DEF Cells
<1>10. Links(S, w, n)
  <2>1. \A i \in 1..n : w[i] \in DOMAIN slab
    BY <1>2, <1>3 DEF Cells
  <2>2. QED
    BY <1>2, <1>3, <1>7, <2>1 DEF Links
<1>11. Keys(l.key_to_sid, S)
  BY <1>2, <1>3, <1>7 DEF Keys
<1>12. Shape(r, w, n)
  BY <1>2, <1>3, <1>6, <1>7, <1>9, <1>10, <1>11 DEF Shape, SameSlots, SameEnds
<1>13. SumIn(S, DOMAIN S) + slab[x].sz = SumIn(slab, DOMAIN slab) + s
  <2>1. Sized(slab, DOMAIN slab)
    BY <1>3, LinkedSized
  <2>2. PICK y \in DOMAIN slab : y = x
    BY <1>4
  <2>3. S = [slab EXCEPT ![y] = WithSz(slab[y], s)]
    BY <1>5, <2>2
  <2>4. SumIn(S, DOMAIN S) + slab[y].sz = SumIn(slab, DOMAIN slab) + s
    BY <2>1, <2>3, SumResized
  <2>5. QED
    BY <2>2, <2>4
<1>14. Total(r) + SizeAt(l, o) = Total(l) + s
  BY <1>3, <1>6, <1>13 DEF Total, SizeAt
<1>15. ASSUME NEW p \in DOMAIN l.key_to_sid, p # o PROVE SizeAt(r, p) = SizeAt(l, p)
  <2>1. PICK y \in DOMAIN slab : y = l.key_to_sid[p] /\ slab[y].key = p
    BY <1>3, LinkedSized
  <2>2. slab[x].key = o
    BY <1>3, LinkedSized
  <2>3. S[y] = slab[y]
    BY <1>5, <1>15, <2>1, <2>2
  <2>4. QED
    BY <1>3, <1>6, <2>1, <2>3 DEF SameSlots, SizeAt
<1>16. QED
  BY <1>3, <1>6, <1>7, <1>12, <1>14, <1>15 DEF Linked, SameOids, SameSlots, SameEnds, SizeAt

\* No order is larger than the sum of the orders of its level.
LEMMA SizeAtMost ==
  ASSUME NEW l, Linked(l), NEW o \in DOMAIN l.key_to_sid
  PROVE  SizeAt(l, o) \in Nat /\ SizeAt(l, o) <= Total(l)
<1>1. PICK slab, x : slab = l.slab /\ x = l.key_to_sid[o]
  OBVIOUS
<1>2. Sized(slab, DOMAIN slab) /\ x \in DOMAIN slab
  BY <1>1, LinkedSized
<1>3. SumIn(slab, DOMAIN slab) = slab[x].sz + SumIn(slab, DOMAIN slab \ {x})
  BY <1>2, SumOfAny
<1>4. IsFiniteSet(DOMAIN slab) /\ \A y \in DOMAIN slab : slab[y].sz \in Nat
  BY <1>2 DEF Sized
<1>5. Sized(slab, DOMAIN slab \ {x})
  BY <1>4, FS_RemoveElement DEF Sized
<1>6. SumIn(slab, DOMAIN slab \ {x}) \in Nat
  BY <1>5, SumType
<1>7. QED
  BY <1>1, <1>2, <1>3, <1>4, <1>6 DEF SizeAt, Total

\* Counted changes the running sum and nothing else.
LEMMA CountedIs ==
  ASSUME NEW l, Linked(l), NEW s \in Nat, NEW r, r = Counted(l, s)
  PROVE  /\ Linked(r) /\ Total(r) = Total(l) /\ SameOids(r, l) /\ SameSizes(r, l)
         /\ r.total_sz = SatAdd(l.total_sz, s)
         /\ (r.saturated <=> (l.saturated \/ l.total_sz + s > SzMax))
<1>1. l \in LevelSet /\ l.total_sz \in Nat /\ l.saturated \in BOOLEAN
  BY LinkedSized, LevelTypes
<1>2. PICK f \in BOOLEAN : f = (l.saturated \/ l.total_sz + s > SzMax)
  OBVIOUS
<1>3. SatAdd(l.total_sz, s) \in Nat
  BY <1>1, PriceLevelAssumption DEF SatAdd
<1>4. PICK p : p = [l EXCEPT !.total_sz = SatAdd(l.total_sz, s)]
  OBVIOUS
<1>5. /\ r \in LevelSet /\ r.total_sz = SatAdd(l.total_sz, s) /\ r.saturated = f /\ r.slab = l.slab
      /\ SameSlots(r, l) /\ SameEnds(r, l)
  <2>1. p \in LevelSet /\ p.total_sz = SatAdd(l.total_sz, s) /\ p.slab = l.slab /\ SameSlots(p, l) /\ SameEnds(p, l)
    BY <1>1, <1>3, <1>4, SetTotal
  <2>2. r = [p EXCEPT !.saturated = f]
    BY <1>2, <1>4 DEF Counted
  <2>3. /\ r \in LevelSet /\ r.saturated = f /\ r.total_sz = p.total_sz /\ r.slab = p.slab
        /\ SameSlots(r, p) /\ SameEnds(r, p)
    BY <2>1, <2>2, SetFlag
  <2>4. QED
    BY <2>1, <2>3 DEF SameSlots, SameEnds
<1>6. Linked(r) /\ Total(r) = Total(l) /\ SameOids(r, l) /\ SameSizes(r, l)
  BY <1>5, SumIsApart
<1>7. QED
  BY <1>2, <1>5, <1>6

\* Setting the running sum changes nothing else.
LEMMA TotalIs ==
  ASSUME NEW l, Linked(l), NEW v \in Nat, NEW r, r = [l EXCEPT !.total_sz = v]
  PROVE  /\ Linked(r) /\ Total(r) = Total(l) /\ SameOids(r, l) /\ SameSizes(r, l)
         /\ r.total_sz = v /\ r.saturated = l.saturated
         /\ r.slab = l.slab /\ r.key_to_sid = l.key_to_sid /\ r.head = l.head
<1>1. l \in LevelSet
  BY LinkedSized
<1>2. /\ r \in LevelSet /\ r.total_sz = v /\ r.saturated = l.saturated /\ r.slab = l.slab
      /\ SameSlots(r, l) /\ SameEnds(r, l)
  BY <1>1, SetTotal
<1>3. Linked(r) /\ Total(r) = Total(l) /\ SameOids(r, l) /\ SameSizes(r, l)
  BY <1>2, SumIsApart
<1>4. QED
  BY <1>2, <1>3 DEF SameSlots, SameEnds

\* Counting an order that came in keeps the running sum right.
LEMMA CountedGood ==
  ASSUME NEW l, Good(l), NEW o, NEW s \in Nat, NEW p, Gains(p, l, o, s), NEW r, r = Counted(p, s)
  PROVE  /\ Good(r) /\ \A q : q \in DOMAIN r.key_to_sid <=> q \in DOMAIN l.key_to_sid \/ q = o
         /\ Live(l) /\ s # 0 => Live(r)
<1>1. /\ Linked(p) /\ Total(p) = Total(l) + s /\ p.total_sz = l.total_sz /\ p.saturated = l.saturated
      /\ \A q : q \in DOMAIN p.key_to_sid <=> q \in DOMAIN l.key_to_sid \/ q = o
  BY DEF Gains, SameSum
<1>2. /\ Linked(r) /\ Total(r) = Total(p) /\ SameOids(r, p) /\ SameSizes(r, p)
      /\ r.total_sz = SatAdd(p.total_sz, s)
      /\ (r.saturated <=> (p.saturated \/ p.total_sz + s > SzMax))
  BY <1>1, CountedIs
<1>3. l.total_sz <= Total(l) /\ (~l.saturated => l.total_sz = Total(l)) /\ Linked(l)
  BY DEF Good, Summed
<1>4. l.total_sz \in Nat /\ Total(l) \in Nat /\ SzMax \in Nat
  BY <1>3, LinkedSized, LevelTypes, PriceLevelAssumption
<1>5. r.total_sz <= Total(r)
  BY <1>1, <1>2, <1>3, <1>4 DEF SatAdd
<1>6. ~r.saturated => r.total_sz = Total(r)
  BY <1>1, <1>2, <1>3, <1>4 DEF SatAdd
<1>7. Good(r)
  BY <1>2, <1>5, <1>6 DEF Good, Summed
<1>8. \A q : q \in DOMAIN r.key_to_sid <=> q \in DOMAIN l.key_to_sid \/ q = o
  BY <1>1, <1>2 DEF SameOids
<1>9. ASSUME Live(l), s # 0 PROVE Live(r)
  <2>1. SameSizes(p, l) /\ SizeAt(p, o) = s /\ SameSizes(r, p) /\ SameOids(r, p)
    <3>1. SameSizes(p, l) /\ SizeAt(p, o) = s
      BY DEF Gains
    <3>2. SameSizes(r, p) /\ SameOids(r, p)
      BY <1>2
    <3>3. QED
      BY <3>1, <3>2
  <2>2. ASSUME NEW q \in DOMAIN r.key_to_sid PROVE SizeAt(r, q) # 0
    <3>1. q \in DOMAIN p.key_to_sid /\ SizeAt(r, q) = SizeAt(p, q)
      BY <2>1 DEF SameSizes, SameOids
    <3>2. CASE q = o
      BY <1>9, <2>1, <3>1, <3>2
    <3>3. CASE q # o
      <4>1. q \in DOMAIN l.key_to_sid
        BY <1>8, <3>3
      <4>2. SizeAt(p, q) = SizeAt(l, q)
        BY <2>1, <3>1, <4>1 DEF SameSizes
      <4>3. QED
        BY <1>9, <3>1, <4>1, <4>2 DEF Live
    <3>4. QED
      BY <3>2, <3>3
  <2>3. QED
    BY <2>2 DEF Live
<1>10. QED
  BY <1>7, <1>8, <1>9

\* A level whose orders are all among another's, with the same sizes, has none of
\* size 0 when the other has none.
LEMMA LiveToo ==
  ASSUME NEW l, Live(l), NEW r, SameSizes(r, l), \A p : p \in DOMAIN r.key_to_sid => p \in DOMAIN l.key_to_sid
  PROVE  Live(r)
BY DEF Live, SameSizes

\* push_back of a new order keeps the links and the running sum, and adds the
\* order.
LEMMA PushBackGood ==
  ASSUME NEW l, Good(l), NEW o \in Oid, o \notin DOMAIN l.key_to_sid, NEW s \in Nat, NEW r, r = push_back(l, o, s)
  PROVE  /\ Good(r) /\ \A q : q \in DOMAIN r.key_to_sid <=> q \in DOMAIN l.key_to_sid \/ q = o
         /\ Live(l) /\ s # 0 => Live(r)
<1>1. PICK p : p = ListPushBack(l, o, s)
  OBVIOUS
<1>2. Gains(p, l, o, s)
  <2>1. Linked(l)
    BY DEF Good
  <2>2. QED
    BY <1>1, <2>1, BackGains
<1>3. r = Counted(p, s)
  BY <1>1 DEF push_back
<1>4. Good(r) /\ \A q : q \in DOMAIN r.key_to_sid <=> q \in DOMAIN l.key_to_sid \/ q = o
  BY <1>2, <1>3, CountedGood
<1>5. Live(l) /\ s # 0 => Live(r)
  BY <1>2, <1>3, CountedGood
<1>6. QED
  BY <1>4, <1>5

\* insert_before of a new order does the same.
LEMMA InsertBeforeGood ==
  ASSUME NEW l, Good(l), NEW o \in Oid, o \notin DOMAIN l.key_to_sid, NEW s \in Nat,
         NEW b \in DOMAIN l.key_to_sid, NEW r, r = insert_before(l, b, o, s)
  PROVE  /\ Good(r) /\ \A q : q \in DOMAIN r.key_to_sid <=> q \in DOMAIN l.key_to_sid \/ q = o
         /\ Live(l) /\ s # 0 => Live(r)
<1>1. PICK p : p = ListInsertBefore(l, b, o, s)
  OBVIOUS
<1>2. Gains(p, l, o, s)
  <2>1. Linked(l)
    BY DEF Good
  <2>2. QED
    BY <1>1, <2>1, BeforeGains
<1>3. r = Counted(p, s)
  BY <1>1 DEF insert_before
<1>4. Good(r) /\ \A q : q \in DOMAIN r.key_to_sid <=> q \in DOMAIN l.key_to_sid \/ q = o
  BY <1>2, <1>3, CountedGood
<1>5. Live(l) /\ s # 0 => Live(r)
  BY <1>2, <1>3, CountedGood
<1>6. QED
  BY <1>4, <1>5

\* remove keeps the links and the running sum, and takes the order away.
LEMMA RemoveGood ==
  ASSUME NEW l, Good(l), NEW o \in DOMAIN l.key_to_sid, NEW r, r = remove(l, o)
  PROVE  /\ Good(r) /\ \A q : q \in DOMAIN r.key_to_sid <=> q \in DOMAIN l.key_to_sid /\ q # o
         /\ Live(l) => Live(r)
<1>1. PICK p : p = ListRemove(l, o)
  OBVIOUS
<1>2. l.total_sz <= Total(l) /\ (~l.saturated => l.total_sz = Total(l)) /\ Linked(l)
  BY DEF Good, Summed
<1>3. Loses(p, l, o)
  BY <1>1, <1>2, RemovedLoses
<1>4. /\ Linked(p) /\ Total(p) + SizeAt(l, o) = Total(l) /\ p.total_sz = l.total_sz /\ p.saturated = l.saturated
      /\ \A q : q \in DOMAIN p.key_to_sid <=> q \in DOMAIN l.key_to_sid /\ q # o
  BY <1>3 DEF Loses, SameSum
<1>5. /\ l.total_sz \in Nat /\ Total(l) \in Nat /\ Total(p) \in Nat /\ SizeAt(l, o) \in Nat
  <2>1. l \in LevelSet
    BY <1>2, LinkedSized
  <2>2. l.total_sz \in Nat
    BY <2>1, LevelTypes
  <2>3. Total(l) \in Nat /\ Total(p) \in Nat
    BY <1>2, <1>4, LinkedSized
  <2>4. l.key_to_sid[o] \in DOMAIN l.slab /\ \A x \in DOMAIN l.slab : l.slab[x].sz \in Nat
    BY <1>2, LinkedSized
  <2>5. QED
    BY <2>2, <2>3, <2>4 DEF SizeAt
<1>6. PICK v : v = SatSub(l.total_sz, SizeAt(l, o))
  OBVIOUS
<1>7. v \in Nat
  BY <1>5, <1>6 DEF SatSub
<1>8. r = [p EXCEPT !.total_sz = v]
  BY <1>1, <1>4, <1>6 DEF remove, SizeAt
<1>9. /\ Linked(r) /\ Total(r) = Total(p) /\ SameOids(r, p) /\ SameSizes(r, p)
      /\ r.total_sz = v /\ r.saturated = p.saturated
  BY <1>4, <1>7, <1>8, TotalIs
<1>10. r.total_sz <= Total(r) /\ (~r.saturated => r.total_sz = Total(r))
  BY <1>2, <1>4, <1>5, <1>6, <1>9 DEF SatSub
<1>11. Good(r)
  BY <1>9, <1>10 DEF Good, Summed
<1>12. ASSUME Live(l) PROVE Live(r)
  <2>1. SameSizes(p, l) /\ \A q : q \in DOMAIN p.key_to_sid => q \in DOMAIN l.key_to_sid
    BY <1>3 DEF Loses
  <2>2. Live(p)
    BY <1>12, <2>1, LiveToo
  <2>3. SameSizes(r, p) /\ \A q : q \in DOMAIN r.key_to_sid => q \in DOMAIN p.key_to_sid
    BY <1>9 DEF SameOids
  <2>4. QED
    BY <2>2, <2>3, LiveToo
<1>13. QED
  BY <1>4, <1>9, <1>11, <1>12 DEF SameOids

\* modify_order_sz keeps the links, the running sum and the orders.
LEMMA ModifyGood ==
  ASSUME NEW l, Good(l), NEW o \in DOMAIN l.key_to_sid, NEW s \in Nat, NEW r, r = modify_order_sz(l, o, s)
  PROVE  Good(r) /\ SameOids(r, l) /\ (Live(l) /\ s # 0 => Live(r))
<1>1. l.total_sz <= Total(l) /\ (~l.saturated => l.total_sz = Total(l)) /\ Linked(l)
  BY DEF Good, Summed
<1>2. PICK x, p : x = l.key_to_sid[o] /\ p = SetSz(l, x, s)
  OBVIOUS
<1>3. /\ Linked(p) /\ SameOids(p, l) /\ SameSum(p, l) /\ Total(p) + SizeAt(l, o) = Total(l) + s
      /\ SizeAt(p, o) = s /\ \A a \in DOMAIN l.key_to_sid : a # o => SizeAt(p, a) = SizeAt(l, a)
  BY <1>1, <1>2, ResizedKeeps
<1>4. l.total_sz \in Nat /\ Total(l) \in Nat /\ Total(p) \in Nat /\ SizeAt(l, o) \in Nat /\ SzMax \in Nat
  <2>1. l \in LevelSet
    BY <1>1, LinkedSized
  <2>2. l.total_sz \in Nat
    BY <2>1, LevelTypes
  <2>3. Total(l) \in Nat /\ Total(p) \in Nat
    BY <1>1, <1>3, LinkedSized
  <2>4. l.key_to_sid[o] \in DOMAIN l.slab /\ \A y \in DOMAIN l.slab : l.slab[y].sz \in Nat
    BY <1>1, LinkedSized
  <2>5. QED
    BY <2>2, <2>3, <2>4, PriceLevelAssumption DEF SizeAt
<1>5. PICK v : v = SatSub(l.total_sz, SizeAt(l, o))
  OBVIOUS
<1>6. v \in Nat
  BY <1>4, <1>5 DEF SatSub
<1>7. PICK q : q = [p EXCEPT !.total_sz = v]
  OBVIOUS
<1>8. /\ Linked(q) /\ Total(q) = Total(p) /\ SameOids(q, p) /\ SameSizes(q, p)
      /\ q.total_sz = v /\ q.saturated = p.saturated
  BY <1>3, <1>6, <1>7, TotalIs
<1>9. q = [l EXCEPT !.slab[l.key_to_sid[o]].sz = s, !.total_sz = SatSub(l.total_sz, l.slab[l.key_to_sid[o]].sz)]
  BY <1>2, <1>5, <1>7 DEF SizeAt, SetSz
<1>10. r = Counted(q, s)
  BY <1>9 DEF modify_order_sz
<1>11. /\ Linked(r) /\ Total(r) = Total(q) /\ SameOids(r, q) /\ SameSizes(r, q)
       /\ r.total_sz = SatAdd(q.total_sz, s)
       /\ (r.saturated <=> (q.saturated \/ q.total_sz + s > SzMax))
  BY <1>8, <1>10, CountedIs
<1>12. p.saturated = l.saturated
  BY <1>3 DEF SameSum
<1>13. v <= Total(p) - s /\ (~l.saturated => v = Total(p) - s)
  <2>1. SizeAt(l, o) <= Total(l)
    BY <1>1, SizeAtMost
  <2>2. Total(p) - s = Total(l) - SizeAt(l, o)
    BY <1>3, <1>4
  <2>3. QED
    BY <1>1, <1>4, <1>5, <2>1, <2>2 DEF SatSub
<1>14. r.total_sz <= Total(r)
  BY <1>4, <1>6, <1>8, <1>11, <1>13 DEF SatAdd
<1>15. ~r.saturated => r.total_sz = Total(r)
  BY <1>4, <1>6, <1>8, <1>11, <1>12, <1>13 DEF SatAdd
<1>16. Good(r)
  BY <1>11, <1>14, <1>15 DEF Good, Summed
<1>17. ASSUME Live(l), s # 0 PROVE Live(r)
  <2>1. Live(p)
    BY <1>3, <1>17 DEF Live, SameOids
  <2>2. \A a : a \in DOMAIN q.key_to_sid => a \in DOMAIN p.key_to_sid
    BY <1>8 DEF SameOids
  <2>3. Live(q)
    BY <1>8, <2>1, <2>2, LiveToo
  <2>4. \A a : a \in DOMAIN r.key_to_sid => a \in DOMAIN q.key_to_sid
    BY <1>11 DEF SameOids
  <2>5. QED
    BY <1>11, <2>3, <2>4, LiveToo
<1>18. QED
  BY <1>3, <1>8, <1>11, <1>16, <1>17 DEF SameOids

\* A level has no head when it has no orders, and only then.
LEMMA EmptyIs ==
  ASSUME NEW l, Linked(l)
  PROVE  IsEmpty(l) <=> \A o : o \notin DOMAIN l.key_to_sid
<1>1. PICK w, n : Shape(l, w, n)
  BY DEF Linked
<1>2. /\ n \in Nat /\ l.head = (IF n = 0 THEN None ELSE w[1])
      /\ \A i \in 1..n : w[i] \in DOMAIN l.slab /\ w[i] \in Nat \ {0}
      /\ \A x \in DOMAIN l.slab : \E i \in 1..n : w[i] = x
  BY <1>1, WalkFacts
<1>3. Keys(l.key_to_sid, l.slab)
  BY <1>1 DEF Shape
<1>4. CASE n = 0
  <2>1. \A x : x \notin DOMAIN l.slab
    BY <1>2, <1>4
  <2>2. \A o : o \notin DOMAIN l.key_to_sid
    BY <1>3, <2>1 DEF Keys
  <2>3. QED
    BY <1>2, <1>4, <2>2 DEF IsEmpty
<1>5. CASE n # 0
  <2>1. 1 \in 1..n /\ l.head = w[1] /\ l.head \in DOMAIN l.slab /\ l.head # None
    BY <1>2, <1>5 DEF None
  <2>2. l.slab[l.head].key \in DOMAIN l.key_to_sid
    BY <1>3, <2>1 DEF Keys
  <2>3. QED
    BY <2>1, <2>2 DEF IsEmpty
<1>6. QED
  BY <1>4, <1>5

-----------------------------------------------------------------------------
(* A taker against a level.                                                *)

\* The makers f are as many as there were turns, i, unless the taker t is used up
\* or the level l is empty.
Counts(l, t, f, i) == t = 0 \/ IsEmpty(l) \/ (IsFiniteSet(f) /\ Cardinality(f) = i)

\* What i turns leave of a level whose orders were K: a level without those
\* that they filled.
Turned(K, i) ==
  {m \in [level : LevelSet, taker : Nat, filled : SUBSET K] :
     /\ Good(m.level) /\ Live(m.level)
     /\ \A p : p \in DOMAIN m.level.key_to_sid <=> p \in K /\ p \notin m.filled
     /\ Counts(m.level, m.taker, m.filled, i)}

\* What a turn leaves, part by part.
LEMMA TurnedIs ==
  ASSUME NEW K, NEW i, NEW m \in Turned(K, i)
  PROVE  /\ m.level \in LevelSet /\ m.taker \in Nat /\ m.filled \subseteq K /\ Good(m.level) /\ Live(m.level)
         /\ Counts(m.level, m.taker, m.filled, i)
         /\ \A p : p \in DOMAIN m.level.key_to_sid <=> p \in K /\ p \notin m.filled
         /\ m = [level |-> m.level, taker |-> m.taker, filled |-> m.filled]
BY DEF Turned

\* What it takes to be what a turn leaves.
LEMMA IsTurned ==
  ASSUME NEW K, NEW i, NEW l, Good(l), Live(l), NEW t \in Nat, NEW f \in SUBSET K,
         \A p : p \in DOMAIN l.key_to_sid <=> p \in K /\ p \notin f, Counts(l, t, f, i),
         NEW m, m = [level |-> l, taker |-> t, filled |-> f]
  PROVE  m \in Turned(K, i)
<1>1. l \in LevelSet
  <2>1. Linked(l)
    BY DEF Good
  <2>2. QED
    BY <2>1, LinkedSized
<1>2. m \in [level : LevelSet, taker : Nat, filled : SUBSET K] /\ m.level = l /\ m.taker = t /\ m.filled = f
  BY <1>1
<1>3. QED
  BY <1>2 DEF Turned

\* The head of a level with orders is a used slot, and the map finds it.
LEMMA HeadIs ==
  ASSUME NEW l, Linked(l), ~IsEmpty(l)
  PROVE  /\ l.head \in DOMAIN l.slab /\ l.slab[l.head].key \in DOMAIN l.key_to_sid
         /\ l.key_to_sid[l.slab[l.head].key] = l.head
<1>1. PICK w, n : Shape(l, w, n)
  BY DEF Linked
<1>2. /\ n \in Nat /\ l.head = (IF n = 0 THEN None ELSE w[1])
      /\ \A i \in 1..n : w[i] \in DOMAIN l.slab
  BY <1>1, WalkFacts
<1>3. Keys(l.key_to_sid, l.slab)
  BY <1>1 DEF Shape
<1>4. n # 0 /\ 1 \in 1..n
  BY <1>2 DEF IsEmpty
<1>5. l.head \in DOMAIN l.slab
  BY <1>2, <1>4
<1>6. QED
  BY <1>3, <1>5 DEF Keys

\* The head shrinks by what it trades.
LEMMA ShrunkGood ==
  ASSUME NEW l, Good(l), NEW o \in DOMAIN l.key_to_sid, NEW fill \in Nat, fill <= SizeAt(l, o),
         NEW x, x = l.key_to_sid[o], NEW p, p = SetSz(l, x, SizeAt(l, o) - fill),
         NEW q, q = [p EXCEPT !.total_sz = SatSub(l.total_sz, fill)]
  PROVE  /\ Good(q) /\ SameOids(q, l) /\ SizeAt(q, o) = SizeAt(l, o) - fill
         /\ \A a \in DOMAIN l.key_to_sid : a # o => SizeAt(q, a) = SizeAt(l, a)
<1>1. l.total_sz <= Total(l) /\ (~l.saturated => l.total_sz = Total(l)) /\ Linked(l)
  BY DEF Good, Summed
<1>2. SizeAt(l, o) \in Nat /\ SizeAt(l, o) <= Total(l)
  BY <1>1, SizeAtMost
<1>3. PICK s \in Nat : s = SizeAt(l, o) - fill
  BY <1>2
<1>4. p = SetSz(l, x, s)
  BY <1>3
<1>5. /\ Linked(p) /\ SameOids(p, l) /\ SameSum(p, l) /\ Total(p) + SizeAt(l, o) = Total(l) + s
      /\ SizeAt(p, o) = s /\ \A a \in DOMAIN l.key_to_sid : a # o => SizeAt(p, a) = SizeAt(l, a)
  BY <1>1, <1>4, ResizedKeeps
<1>6. l.total_sz \in Nat /\ Total(l) \in Nat /\ Total(p) \in Nat
  <2>1. l \in LevelSet
    BY <1>1, LinkedSized
  <2>2. l.total_sz \in Nat
    BY <2>1, LevelTypes
  <2>3. QED
    BY <1>1, <1>5, <2>2, LinkedSized
<1>7. PICK v \in Nat : v = SatSub(l.total_sz, fill)
  BY <1>6 DEF SatSub
<1>8. q = [p EXCEPT !.total_sz = v]
  BY <1>7
<1>9. /\ Linked(q) /\ Total(q) = Total(p) /\ SameOids(q, p) /\ q.total_sz = v /\ q.saturated = p.saturated
      /\ q.slab = p.slab /\ q.key_to_sid = p.key_to_sid
  <2>1. Linked(p)
    BY <1>5
  <2>2. QED
    BY <1>8, <2>1, TotalIs
<1>10. Total(q) = Total(l) - fill
  BY <1>2, <1>3, <1>5, <1>6, <1>9
<1>11. q.total_sz <= Total(q) /\ (~q.saturated => q.total_sz = Total(q))
  <2>1. q.saturated = l.saturated
    BY <1>5, <1>9 DEF SameSum
  <2>2. fill <= Total(l)
    BY <1>2, <1>6
  <2>3. QED
    BY <1>1, <1>6, <1>7, <1>9, <1>10, <2>1, <2>2 DEF SatSub
<1>12. Good(q)
  BY <1>9, <1>11 DEF Good, Summed
<1>13. \A a : SizeAt(q, a) = SizeAt(p, a)
  BY <1>9 DEF SizeAt
<1>14. QED
  BY <1>3, <1>5, <1>9, <1>12, <1>13 DEF SameOids

\* An order of no size can leave the level as it is.
LEMMA SpentGood ==
  ASSUME NEW l, Good(l), NEW o \in DOMAIN l.key_to_sid, SizeAt(l, o) = 0, NEW r, r = ListRemove(l, o)
  PROVE  /\ Good(r) /\ \A q : q \in DOMAIN r.key_to_sid <=> q \in DOMAIN l.key_to_sid /\ q # o
         /\ SameSizes(r, l)
<1>1. l.total_sz <= Total(l) /\ (~l.saturated => l.total_sz = Total(l)) /\ Linked(l)
  BY DEF Good, Summed
<1>2. Loses(r, l, o)
  BY <1>1, RemovedLoses
<1>3. /\ Linked(r) /\ Total(r) + SizeAt(l, o) = Total(l) /\ r.total_sz = l.total_sz /\ r.saturated = l.saturated
      /\ SameSizes(r, l)
      /\ \A q : q \in DOMAIN r.key_to_sid <=> q \in DOMAIN l.key_to_sid /\ q # o
  BY <1>2 DEF Loses, SameSum
<1>4. Total(r) \in Nat
  BY <1>3, LinkedSized
<1>5. Total(r) = Total(l)
  BY <1>3, <1>4
<1>6. Good(r)
  BY <1>1, <1>3, <1>5 DEF Good, Summed
<1>7. QED
  BY <1>3, <1>6

\* A turn of match_against's loop leaves a good level without the makers it
\* filled.
LEMMA MatchHeadTurned ==
  ASSUME NEW K, NEW i \in Nat \ {0}, NEW m \in Turned(K, i - 1)
  PROVE  MatchHead(m) \in Turned(K, i)
<1>1. /\ m.taker \in Nat /\ m.filled \subseteq K /\ Good(m.level) /\ Live(m.level)
      /\ Counts(m.level, m.taker, m.filled, i - 1)
      /\ \A p : p \in DOMAIN m.level.key_to_sid <=> p \in K /\ p \notin m.filled
  BY TurnedIs
<1>2. PICK l, t, f : l = m.level /\ t = m.taker /\ f = m.filled
  OBVIOUS
<1>3. PICK r : r = MatchHead(m)
  OBVIOUS
<1>4. CASE t = 0 \/ IsEmpty(l)
  <2>1. r = m
    BY <1>2, <1>3, <1>4 DEF MatchHead
  <2>2. m = [level |-> l, taker |-> t, filled |-> f]
    BY <1>2, TurnedIs
  <2>3. Counts(l, t, f, i)
    BY <1>4 DEF Counts
  <2>4. \A p : p \in DOMAIN l.key_to_sid <=> p \in K /\ p \notin f
    BY <1>1, <1>2
  <2>5. m \in Turned(K, i)
    BY <1>1, <1>2, <2>2, <2>3, <2>4, IsTurned
  <2>6. QED
    BY <1>3, <2>1, <2>5
<1>5. CASE t # 0 /\ ~IsEmpty(l)
  <2>1. PICK h, o : h = l.head /\ o = l.slab[h].key
    OBVIOUS
  <2>2. Linked(l)
    BY <1>1, <1>2 DEF Good
  <2>3. h \in DOMAIN l.slab /\ o \in DOMAIN l.key_to_sid /\ l.key_to_sid[o] = h
    BY <1>5, <2>1, <2>2, HeadIs
  <2>4. SizeAt(l, o) = l.slab[h].sz /\ SizeAt(l, o) \in Nat
    BY <2>2, <2>3, SizeAtMost DEF SizeAt
  <2>5. PICK fill \in Nat : fill = IF SizeAt(l, o) < t THEN SizeAt(l, o) ELSE t
    BY <1>1, <1>2, <2>4
  <2>6. fill <= SizeAt(l, o) /\ t - fill \in Nat
    BY <1>1, <1>2, <2>4, <2>5
  <2>7. PICK p : p = SetSz(l, h, SizeAt(l, o) - fill)
    OBVIOUS
  <2>8. PICK q : q = [p EXCEPT !.total_sz = SatSub(l.total_sz, fill)]
    OBVIOUS
  <2>9. /\ Good(q) /\ SameOids(q, l) /\ SizeAt(q, o) = SizeAt(l, o) - fill
        /\ \A a \in DOMAIN l.key_to_sid : a # o => SizeAt(q, a) = SizeAt(l, a)
    <3>1. Good(l)
      BY <1>1, <1>2
    <3>2. QED
      BY <2>3, <2>6, <2>7, <2>8, <3>1, ShrunkGood
  <2>10. q = [l EXCEPT !.slab[h].sz = l.slab[h].sz - fill, !.total_sz = SatSub(l.total_sz, fill)]
    BY <2>4, <2>7, <2>8 DEF SetSz
  <2>11. r = [level  |-> IF fill = SizeAt(l, o) THEN ListRemove(q, o) ELSE q,
              taker  |-> t - fill,
              filled |-> IF fill = SizeAt(l, o) THEN f \cup {o} ELSE f]
    BY <1>2, <1>3, <1>5, <2>1, <2>4, <2>5, <2>10 DEF MatchHead
  <2>12. o \in K
    BY <1>1, <1>2, <2>3
  <2>13. CASE fill = SizeAt(l, o)
    <3>1. PICK u : u = ListRemove(q, o)
      OBVIOUS
    <3>2. o \in DOMAIN q.key_to_sid /\ SizeAt(q, o) = 0
      BY <2>3, <2>4, <2>9, <2>13 DEF SameOids
    <3>3. Good(u) /\ (\A a : a \in DOMAIN u.key_to_sid <=> a \in DOMAIN q.key_to_sid /\ a # o) /\ SameSizes(u, q)
      BY <2>9, <3>1, <3>2, SpentGood
    <3>4. \A a : a \in DOMAIN u.key_to_sid <=> a \in K /\ a \notin f \cup {o}
      BY <1>1, <1>2, <2>9, <3>3 DEF SameOids
    <3>5. r = [level |-> u, taker |-> t - fill, filled |-> f \cup {o}]
      BY <2>11, <2>13, <3>1
    <3>6. f \cup {o} \in SUBSET K
      BY <1>1, <1>2, <2>12
    <3>7. Live(u)
      <4>1. ASSUME NEW a \in DOMAIN u.key_to_sid PROVE SizeAt(u, a) # 0
        <5>1. a \in DOMAIN q.key_to_sid /\ a \in DOMAIN l.key_to_sid /\ a # o
          BY <2>9, <3>3 DEF SameOids
        <5>2. SizeAt(u, a) = SizeAt(q, a)
          BY <3>3, <5>1 DEF SameSizes
        <5>3. SizeAt(q, a) = SizeAt(l, a)
          BY <2>9, <5>1
        <5>4. QED
          BY <1>1, <1>2, <5>1, <5>2, <5>3 DEF Live
      <4>2. QED
        BY <4>1 DEF Live
    <3>8. Counts(u, t - fill, f \cup {o}, i)
      <4>1. IsFiniteSet(f) /\ Cardinality(f) = i - 1 /\ o \notin f
        BY <1>1, <1>2, <1>5, <2>3 DEF Counts
      <4>2. IsFiniteSet(f \cup {o}) /\ Cardinality(f \cup {o}) = Cardinality(f) + 1
        BY <4>1, FS_AddElement
      <4>3. Cardinality(f \cup {o}) = i
        BY <4>1, <4>2
      <4>4. QED
        BY <4>2, <4>3 DEF Counts
    <3>9. r \in Turned(K, i)
      BY <2>6, <3>3, <3>4, <3>5, <3>6, <3>7, <3>8, IsTurned
    <3>10. QED
      BY <1>3, <3>9
  <2>14. CASE fill # SizeAt(l, o)
    <3>1. r = [level |-> q, taker |-> t - fill, filled |-> f]
      BY <2>11, <2>14
    <3>2. \A a : a \in DOMAIN q.key_to_sid <=> a \in K /\ a \notin f
      BY <1>1, <1>2, <2>9 DEF SameOids
    <3>3. f \in SUBSET K
      BY <1>1, <1>2
    <3>4. Live(q)
      <4>1. SizeAt(q, o) # 0
        BY <2>4, <2>9, <2>14
      <4>2. QED
        BY <1>1, <1>2, <2>9, <4>1 DEF Live, SameOids
    <3>5. Counts(q, t - fill, f, i)
      <4>1. t - fill = 0
        BY <1>1, <1>2, <2>5, <2>14
      <4>2. QED
        BY <4>1 DEF Counts
    <3>6. r \in Turned(K, i)
      BY <2>6, <2>9, <3>1, <3>2, <3>3, <3>4, <3>5, IsTurned
    <3>7. QED
      BY <1>3, <3>6
  <2>15. QED
    BY <2>13, <2>14
<1>6. QED
  BY <1>4, <1>5

\* f is the run of turns of a taker of size s against l.
Turns(l, s, f) ==
  f = [n \in 0..LenOf(l) |->
         IF n = 0 THEN [level |-> l, taker |-> s, filled |-> {}] ELSE MatchHead(f[n - 1])]

\* match_against is the last of the turns.
LEMMA MatchAgainstIs ==
  ASSUME NEW l, NEW s
  PROVE  match_against(l, s) = (CHOOSE f : Turns(l, s, f))[LenOf(l)]
BY DEF match_against, Turns

\* match_against leaves a good level without the makers it filled.
LEMMA MatchAgainstTurned ==
  ASSUME NEW l, Good(l), Live(l), NEW s \in Nat
  PROVE  match_against(l, s) \in Turned(DOMAIN l.key_to_sid, LenOf(l))
<1>1. PICK K, n : K = DOMAIN l.key_to_sid /\ n = LenOf(l)
  OBVIOUS
<1>2. n \in Nat
  <2>1. PICK w, k : Shape(l, w, k)
    BY DEF Good, Linked
  <2>2. QED
    BY <1>1, <2>1, NextSlotIs
<1>3. PICK base : base = [level |-> l, taker |-> s, filled |-> {}]
  OBVIOUS
<1>4. base \in Turned(K, 0)
  <2>1. {} \in SUBSET K /\ \A p : p \in DOMAIN l.key_to_sid <=> p \in K /\ p \notin {}
    BY <1>1
  <2>2. Counts(l, s, {}, 0)
    BY FS_EmptySet DEF Counts
  <2>3. QED
    BY <1>3, <2>1, <2>2, IsTurned
<1>5. PICK V : V = [i \in 0..n |-> Turned(K, i)]
  OBVIOUS
<1>6. PICK U, step : /\ U = [level : LevelSet, taker : Nat, filled : SUBSET K]
                     /\ step = [z \in (0..n) \X U |-> MatchHead(z[2])]
  OBVIOUS
<1>7. ASSUME NEW i \in 1..n, NEW v \in Turned(K, i - 1)
      PROVE  step[<<i, v>>] = MatchHead(v) /\ MatchHead(v) \in Turned(K, i)
  <2>1. v \in U
    BY <1>6 DEF Turned
  <2>2. <<i, v>> \in (0..n) \X U
    BY <2>1
  <2>3. step[<<i, v>>] = MatchHead(v)
    BY <1>6, <2>2
  <2>4. i \in Nat \ {0}
    OBVIOUS
  <2>5. MatchHead(v) \in Turned(K, i)
    BY <2>4, MatchHeadTurned
  <2>6. QED
    BY <2>3, <2>5
<1>8. PICK f : Runs(n, base, step, f) /\ \A i \in 0..n : f[i] \in V[i]
  <2>1. base \in V[0]
    BY <1>2, <1>4, <1>5
  <2>2. \A i \in 1..n : \A v \in V[i - 1] : step[<<i, v>>] \in V[i]
    <3> SUFFICES ASSUME NEW i \in 1..n, NEW v \in V[i - 1] PROVE step[<<i, v>>] \in V[i]
      OBVIOUS
    <3>1. V[i - 1] = Turned(K, i - 1) /\ V[i] = Turned(K, i)
      BY <1>2, <1>5
    <3>2. QED
      BY <1>7, <3>1
  <2>3. QED
    BY <1>2, <2>1, <2>2, Recursion
<1>9. Turns(l, s, f)
  <2> USE DEF Runs
  <2>1. ASSUME NEW i \in 0..n PROVE f[i] = IF i = 0 THEN base ELSE MatchHead(f[i - 1])
    <3>1. CASE i = 0
      BY <1>8, <3>1
    <3>2. CASE i # 0
      <4>1. i \in 1..n /\ i - 1 \in 0..n
        BY <1>2, <3>2
      <4>2. f[i - 1] \in Turned(K, i - 1)
        BY <1>5, <1>8, <4>1
      <4>3. f[i] = step[<<i, f[i - 1]>>]
        BY <1>8, <3>2
      <4>4. QED
        BY <1>7, <3>2, <4>1, <4>2, <4>3
    <3>3. QED
      BY <3>1, <3>2
  <2>2. PICK g : g = [i \in 0..n |-> IF i = 0 THEN base ELSE MatchHead(f[i - 1])]
    OBVIOUS
  <2>3. f = g
    <3>1. \A i \in 0..n : f[i] = g[i]
      BY <2>1, <2>2
    <3>2. QED
      BY <1>8, <2>2, <3>1
  <2>4. QED
    BY <1>1, <1>3, <2>2, <2>3 DEF Turns
<1>10. PICK c : c = CHOOSE g : Turns(l, s, g)
  OBVIOUS
<1>11. Turns(l, s, c)
  BY <1>9, <1>10
<1>12. c[0] = base /\ \A i \in 1..n : c[i] = MatchHead(c[i - 1])
  <2>1. c = [i \in 0..n |-> IF i = 0 THEN base ELSE MatchHead(c[i - 1])]
    BY <1>1, <1>3, <1>11 DEF Turns
  <2>2. \A i \in 0..n : c[i] = IF i = 0 THEN base ELSE MatchHead(c[i - 1])
    BY <2>1
  <2>3. 0 \in 0..n /\ \A i \in 1..n : i \in 0..n /\ i # 0
    BY <1>2
  <2>4. QED
    BY <2>2, <2>3
<1>13. PICK P : P = {i \in 0..n : c[i] \in Turned(K, i)}
  OBVIOUS
<1>14. 0 \in P
  <2>1. 0 \in 0..n /\ c[0] = base
    BY <1>2, <1>12
  <2>2. QED
    BY <1>4, <1>13, <2>1
<1>15. \A i \in 1..n : i - 1 \in P => i \in P
  <2> SUFFICES ASSUME NEW i \in 1..n, i - 1 \in P PROVE i \in P
    OBVIOUS
  <2>1. i \in 0..n /\ i \in Nat \ {0} /\ c[i - 1] \in Turned(K, i - 1) /\ c[i] = MatchHead(c[i - 1])
    BY <1>2, <1>12, <1>13
  <2>2. MatchHead(c[i - 1]) \in Turned(K, i)
    BY <2>1, MatchHeadTurned
  <2>3. QED
    BY <1>13, <2>1, <2>2
<1>16. n \in P
  BY <1>2, <1>14, <1>15, UpwardsTo
<1>17. QED
  BY <1>1, <1>10, <1>13, <1>16, MatchAgainstIs

\* As many turns as there are orders use up the taker or the level.
LEMMA MatchAgainstSweeps ==
  ASSUME NEW l, Good(l), Live(l), NEW s \in Nat, NEW r, r = match_against(l, s)
  PROVE  r.taker = 0 \/ IsEmpty(r.level)
<1>1. PICK K, n : K = DOMAIN l.key_to_sid /\ n = LenOf(l)
  OBVIOUS
<1>2. n = Cardinality(K)
  BY <1>1 DEF LenOf
<1>3. IsFiniteSet(K)
  <2>1. PICK w, k : Shape(l, w, k)
    BY DEF Good, Linked
  <2>2. Cells(l.slab, w, k) /\ Keys(l.key_to_sid, l.slab)
    BY <2>1 DEF Shape
  <2>3. QED
    BY <1>1, <2>2, KeysCounted
<1>4. r \in Turned(K, n)
  BY <1>1, MatchAgainstTurned
<1>5. /\ r.filled \subseteq K /\ Good(r.level) /\ Counts(r.level, r.taker, r.filled, n)
      /\ \A p : p \in DOMAIN r.level.key_to_sid <=> p \in K /\ p \notin r.filled
  BY <1>4, TurnedIs
<1>6. ASSUME IsFiniteSet(r.filled), Cardinality(r.filled) = n PROVE IsEmpty(r.level)
  <2>1. r.filled = K
    BY <1>2, <1>3, <1>5, <1>6, FS_Subset
  <2>2. Linked(r.level)
    BY <1>5 DEF Good
  <2>3. \A p : p \notin DOMAIN r.level.key_to_sid
    BY <1>5, <2>1
  <2>4. QED
    BY <2>2, <2>3, EmptyIs
<1>7. QED
  BY <1>5, <1>6 DEF Counts

-----------------------------------------------------------------------------
(* The walk from the head on meets the slots in their order.               *)

NextOf(slab) == [sid \in Nat |-> IF sid \in DOMAIN slab THEN slab[sid].next ELSE None]

\* f is the walk of n hops from the head on.
Hops(l, n, f) == f = [i \in 0..n |-> IF i = 0 THEN l.head ELSE NextOf(l.slab)[f[i - 1]]]

\* The hops of walk c that end in the slab, and where they end.
Landed(l, n, c) == {j \in 0..n : c[j] \in DOMAIN l.slab}
Visited(l, n, c) == [i \in 1..Cardinality(Landed(l, n, c)) |-> c[i - 1]]

\* Slots lists the hops that end in the slab.
LEMMA SlotsAre ==
  ASSUME NEW l
  PROVE  Slots(l) = Visited(l, Cardinality(DOMAIN l.slab), CHOOSE f : Hops(l, Cardinality(DOMAIN l.slab), f))
BY DEF Slots, Hops, NextOf, Visited, Landed

\* The hops along the walk of a level are the walk, and None after it.
LEMMA WalkHops ==
  ASSUME NEW l, NEW w, NEW n, Shape(l, w, n),
         NEW f, f = [i \in 0..n |-> IF i = n THEN None ELSE w[i + 1]]
  PROVE  Hops(l, n, f)
<1>1. /\ n \in Nat /\ l.head = (IF n = 0 THEN None ELSE w[1])
      /\ \A i \in 1..n : w[i] \in DOMAIN l.slab /\ w[i] \in Nat \ {0} /\ l.slab[w[i]].next = SlotAfter(w, n, i)
  BY WalkFacts
<1>2. PICK nextOf : nextOf = NextOf(l.slab)
  OBVIOUS
<1>3. \A i \in 1..n : nextOf[w[i]] = SlotAfter(w, n, i)
  BY <1>1, <1>2 DEF NextOf
<1>4. ASSUME NEW i \in 0..n PROVE f[i] = IF i = 0 THEN l.head ELSE nextOf[f[i - 1]]
  <2>1. CASE i = 0
    BY <1>1, <2>1
  <2>2. CASE i # 0
    <3>1. i \in 1..n /\ i - 1 \in 0..n /\ i - 1 # n /\ (i - 1) + 1 = i
      BY <1>1, <2>2
    <3>2. f[i - 1] = w[i]
      BY <3>1
    <3>3. f[i] = SlotAfter(w, n, i)
      BY DEF SlotAfter
    <3>4. QED
      BY <1>3, <2>2, <3>1, <3>2, <3>3
  <2>3. QED
    BY <2>1, <2>2
<1>5. PICK g : g = [i \in 0..n |-> IF i = 0 THEN l.head ELSE nextOf[f[i - 1]]]
  OBVIOUS
<1>6. f = g
  <2>1. \A i \in 0..n : f[i] = g[i]
    BY <1>4, <1>5
  <2>2. QED
    BY <1>5, <2>1
<1>7. QED
  BY <1>2, <1>5, <1>6 DEF Hops

\* They are the only ones.
LEMMA HopsWalk ==
  ASSUME NEW l, NEW w, NEW n, Shape(l, w, n), NEW c, Hops(l, n, c)
  PROVE  \A i \in 0..n : c[i] = IF i = n THEN None ELSE w[i + 1]
<1>1. PICK f : f = [i \in 0..n |-> IF i = n THEN None ELSE w[i + 1]]
  OBVIOUS
<1>2. Hops(l, n, f)
  BY <1>1, WalkHops
<1>3. n \in Nat
  BY WalkFacts
<1>4. PICK nextOf : nextOf = NextOf(l.slab)
  OBVIOUS
<1>5. /\ \A i \in 0..n : c[i] = IF i = 0 THEN l.head ELSE nextOf[c[i - 1]]
      /\ \A i \in 0..n : f[i] = IF i = 0 THEN l.head ELSE nextOf[f[i - 1]]
  <2>1. c = [i \in 0..n |-> IF i = 0 THEN l.head ELSE nextOf[c[i - 1]]]
    BY <1>4 DEF Hops
  <2>2. f = [i \in 0..n |-> IF i = 0 THEN l.head ELSE nextOf[f[i - 1]]]
    BY <1>2, <1>4 DEF Hops
  <2>3. \A i \in 0..n : c[i] = IF i = 0 THEN l.head ELSE nextOf[c[i - 1]]
    BY <2>1
  <2>4. \A i \in 0..n : f[i] = IF i = 0 THEN l.head ELSE nextOf[f[i - 1]]
    BY <2>2
  <2>5. QED
    BY <2>3, <2>4
<1>6. PICK P : P = {i \in 0..n : c[i] = f[i]}
  OBVIOUS
<1>7. 0 \in P
  <2>1. 0 \in 0..n
    BY <1>3
  <2>2. c[0] = l.head /\ f[0] = l.head
    BY <1>5, <2>1
  <2>3. QED
    BY <1>6, <2>1, <2>2
<1>8. \A i \in 1..n : i - 1 \in P => i \in P
  <2> SUFFICES ASSUME NEW i \in 1..n, i - 1 \in P PROVE i \in P
    OBVIOUS
  <2>1. i \in 0..n /\ i # 0 /\ c[i - 1] = f[i - 1]
    BY <1>3, <1>6
  <2>2. c[i] = nextOf[c[i - 1]] /\ f[i] = nextOf[f[i - 1]]
    BY <1>5, <2>1
  <2>3. QED
    BY <1>6, <2>1, <2>2
<1>9. \A i \in 0..n : i \in P
  BY <1>3, <1>7, <1>8, UpwardsTo
<1>10. QED
  BY <1>1, <1>6, <1>9

\* So Slots lists the walk: it meets every order once, in queue order.
LEMMA SlotsWalk ==
  ASSUME NEW l, NEW w, NEW n, Shape(l, w, n)
  PROVE  Slots(l) = w
<1>1. n \in Nat /\ n = Cardinality(DOMAIN l.slab)
  BY NextSlotIs
<1>2. PICK c : c = (CHOOSE f : Hops(l, n, f))
  OBVIOUS
<1>3. Hops(l, n, c)
  <2>1. PICK f : f = [i \in 0..n |-> IF i = n THEN None ELSE w[i + 1]]
    OBVIOUS
  <2>2. Hops(l, n, f)
    BY <2>1, WalkHops
  <2>3. QED
    BY <1>2, <2>2
<1>4. \A i \in 0..n : c[i] = IF i = n THEN None ELSE w[i + 1]
  BY <1>3, HopsWalk
<1>5. PICK R : R = Landed(l, n, c)
  OBVIOUS
<1>6. Slots(l) = [i \in 1..Cardinality(R) |-> c[i - 1]]
  <2>1. Slots(l) = Visited(l, n, c)
    BY <1>1, <1>2, SlotsAre
  <2>2. QED
    BY <1>5, <2>1 DEF Visited
<1>7. None \notin DOMAIN l.slab /\ \A i \in 1..n : w[i] \in DOMAIN l.slab
  BY WalkFacts
<1>8. R = 0..(n - 1)
  <2>1. ASSUME NEW j \in 0..(n - 1) PROVE j \in R
    <3>1. j \in 0..n /\ j # n /\ j + 1 \in 1..n
      BY <1>1
    <3>2. c[j] = w[j + 1]
      BY <1>4, <3>1
    <3>3. QED
      BY <1>5, <1>7, <3>1, <3>2 DEF Landed
  <2>2. ASSUME NEW j \in R PROVE j \in 0..(n - 1)
    <3>1. j \in 0..n /\ c[j] # None
      BY <1>5, <1>7 DEF Landed
    <3>2. j # n
      BY <1>4, <3>1
    <3>3. QED
      BY <1>1, <3>1, <3>2
  <2>3. QED
    BY <2>1, <2>2
<1>9. Cardinality(R) = n
  <2>1. PICK b \in Int : b = n - 1
    BY <1>1
  <2>2. Cardinality(0..b) = IF 0 > b THEN 0 ELSE b - 0 + 1
    BY FS_Interval
  <2>3. R = 0..b
    BY <1>8, <2>1
  <2>4. QED
    BY <1>1, <2>1, <2>2, <2>3
<1>10. w = [i \in 1..n |-> w[i]]
  BY DEF Shape, Cells
<1>11. \A i \in 1..n : c[i - 1] = w[i]
  <2> SUFFICES ASSUME NEW i \in 1..n PROVE c[i - 1] = w[i]
    OBVIOUS
  <2>1. i - 1 \in 0..n /\ i - 1 # n /\ (i - 1) + 1 = i
    BY <1>1
  <2>2. QED
    BY <1>4, <2>1
<1>12. QED
  BY <1>6, <1>9, <1>10, <1>11

\* What LinksOK asks of a level l with the walk w.
LevelOK(l, w) ==
  /\ {w[i] : i \in DOMAIN w} = DOMAIN l.slab /\ Len(w) = Cardinality(DOMAIN l.slab)
  /\ \A i \in DOMAIN w :
       /\ l.slab[w[i]].prev = (IF i = 1 THEN None ELSE w[i - 1])
       /\ l.key_to_sid[l.slab[w[i]].key] = w[i]
  /\ l.tail = w[Len(w)]
  /\ LenOf(l) = Len(w)
  /\ \A i \in DOMAIN l.vacant : l.vacant[i] \notin DOMAIN l.slab
  /\ Len(l.vacant) + Len(w) <= l.capacity

\* The links of a level with orders are as LinksOK wants them.
LEMMA LinkedOK ==
  ASSUME NEW l, Linked(l), ~IsEmpty(l), NEW w, w = Slots(l)
  PROVE  LevelOK(l, w)
<1>1. PICK v, n : Shape(l, v, n)
  BY DEF Linked
<1>2. w = v
  BY <1>1, SlotsWalk
<1>3. /\ n \in Nat /\ l.head = (IF n = 0 THEN None ELSE w[1]) /\ l.tail = (IF n = 0 THEN None ELSE w[n])
      /\ \A i \in 1..n : w[i] \in DOMAIN l.slab /\ w[i] \in Nat \ {0} /\ l.slab[w[i]].prev = SlotBefore(w, i)
      /\ \A x \in DOMAIN l.slab : \E i \in 1..n : w[i] = x
  BY <1>1, <1>2, WalkFacts
<1>4. LenOf(l) = n /\ Cardinality(DOMAIN l.slab) = n
  BY <1>1, NextSlotIs
<1>5. w \in [1..n -> Nat \ {0}]
  BY <1>1, <1>2 DEF Shape, Cells
<1>6. DOMAIN w = 1..n /\ Len(w) = n
  BY <1>3, <1>5
<1>7. Keys(l.key_to_sid, l.slab) /\ Room(l.vacant, l.capacity, DOMAIN l.slab, n)
  BY <1>1 DEF Shape
<1>8. {w[i] : i \in DOMAIN w} = DOMAIN l.slab
  <2>1. ASSUME NEW x \in DOMAIN l.slab PROVE x \in {w[i] : i \in DOMAIN w}
    <3>1. PICK i \in 1..n : w[i] = x
      BY <1>3
    <3>2. QED
      BY <1>6, <3>1
  <2>2. ASSUME NEW i \in DOMAIN w PROVE w[i] \in DOMAIN l.slab
    BY <1>3, <1>6
  <2>3. QED
    BY <2>1, <2>2
<1>9. ASSUME NEW i \in DOMAIN w
      PROVE  /\ l.slab[w[i]].prev = (IF i = 1 THEN None ELSE w[i - 1])
             /\ l.key_to_sid[l.slab[w[i]].key] = w[i]
  BY <1>3, <1>6, <1>7 DEF Keys, SlotBefore
<1>10. l.tail = w[Len(w)]
  BY <1>3, <1>6 DEF IsEmpty
<1>11. /\ \A i \in DOMAIN l.vacant : l.vacant[i] \notin DOMAIN l.slab
       /\ Len(l.vacant) + Len(w) <= l.capacity
  BY <1>6, <1>7 DEF Room
<1>12. QED
  BY <1>4, <1>6, <1>8, <1>9, <1>10, <1>11 DEF LevelOK

-----------------------------------------------------------------------------
(* A new level, and a compacted one.                                       *)

\* A new level is good and has no orders.
LEMMA NewLevelIs ==
  ASSUME NEW c \in Nat, NEW r, r = NewLevel(c)
  PROVE  Good(r) /\ Live(r) /\ \A o : o \notin DOMAIN r.key_to_sid
<1>1. /\ r.key_to_sid = <<>> /\ r.slab = <<>> /\ r.vacant = <<>> /\ r.capacity = c /\ r.head = None
      /\ r.tail = None /\ r.total_sz = 0 /\ r.saturated = FALSE
  BY DEF NewLevel
<1>2. PICK e : e = <<>>
  OBVIOUS
<1>3. DOMAIN e = {}
  BY <1>2
<1>4. e \in Maps(Oid, Nat) /\ e \in Maps(Nat, Node)
  <2>1. e \in [DOMAIN e -> Nat] /\ e \in [DOMAIN e -> Node] /\ DOMAIN e \subseteq Oid /\ DOMAIN e \subseteq Nat
    BY <1>2, <1>3
  <2>2. e \in Maps(Oid, Nat)
    BY <2>1, MapIs
  <2>3. e \in Maps(Nat, Node)
    BY <2>1, MapIs
  <2>4. QED
    BY <2>2, <2>3
<1>5. r \in LevelSet
  <2>1. e \in Seq(Nat) /\ None \in Nat
    BY <1>2 DEF None
  <2>2. r = [key_to_sid |-> e, slab |-> e, vacant |-> e, capacity |-> c,
             head |-> None, tail |-> None, total_sz |-> 0, saturated |-> FALSE]
    BY <1>2 DEF NewLevel
  <2>3. QED
    BY <1>4, <2>1, <2>2 DEF LevelSet
<1>6. Shape(r, e, 0)
  <2>1. Cells(r.slab, e, 0)
    <3>1. e \in [1..0 -> Nat \ {0}] /\ e \in [DOMAIN e -> Node]
      BY <1>2, <1>3
    <3>2. r.slab = e
      BY <1>1, <1>2
    <3>3. QED
      BY <1>3, <3>1, <3>2 DEF Cells
  <2>2. Links(r.slab, e, 0) /\ Ends(r.head, r.tail, e, 0)
    BY <1>1 DEF Links, Ends
  <2>3. Keys(r.key_to_sid, r.slab)
    BY <1>1, <1>2, <1>3 DEF Keys
  <2>4. Room(r.vacant, r.capacity, DOMAIN r.slab, 0)
    <3>1. Len(r.vacant) = 0 /\ r.vacant \in Seq(Nat) /\ r.capacity \in Nat /\ DOMAIN r.slab = {}
      BY <1>1, <1>2, <1>3
    <3>2. QED
      BY <3>1 DEF Room
  <2>5. QED
    BY <1>5, <2>1, <2>2, <2>3, <2>4 DEF Shape
<1>7. Total(r) = 0
  <2>1. SumIn(r.slab, {}) = 0
    BY SumOfNone
  <2>2. QED
    BY <1>1, <1>2, <1>3, <2>1 DEF Total
<1>8. Good(r)
  BY <1>1, <1>6, <1>7 DEF Good, Linked, Summed
<1>9. QED
  BY <1>1, <1>2, <1>3, <1>8 DEF Live

\* The slots of walk w behind place i.
Rest(w, n, i) == {w[j] : j \in (i + 1)..n}

\* The fresh levels once the first i orders of the walk are in.
Moved(l, w, n, i) ==
  {r \in LevelSet :
     /\ Linked(r)
     /\ \A o : o \in DOMAIN r.key_to_sid <=> \E j \in 1..i : l.slab[w[j]].key = o
     /\ Total(r) + SumIn(l.slab, Rest(w, n, i)) = Total(l)
     /\ Live(l) => Live(r)}

\* Before the first push, none of the orders has been moved.
LEMMA NoneMoved ==
  ASSUME NEW l, NEW w, NEW n, Shape(l, w, n), NEW r, r = NewLevel(LenOf(l))
  PROVE  r \in Moved(l, w, n, 0)
<1>1. LenOf(l) \in Nat /\ n \in Nat
  BY NextSlotIs
<1>2. Good(r) /\ Live(r) /\ \A o : o \notin DOMAIN r.key_to_sid
  BY <1>1, NewLevelIs
<1>3. Linked(r) /\ r.total_sz <= Total(r) /\ (~r.saturated => r.total_sz = Total(r))
  BY <1>2 DEF Good, Summed
<1>4. r \in LevelSet
  BY <1>3, LinkedSized
<1>5. Total(r) = 0
  <2>1. ~r.saturated /\ r.total_sz = 0
    BY DEF NewLevel
  <2>2. QED
    BY <1>3, <2>1
<1>6. SumIn(l.slab, Rest(w, n, 0)) = Total(l)
  <2>1. \A x : x \in DOMAIN l.slab <=> \E i \in 1..n : w[i] = x
    BY WalkFacts
  <2>2. Rest(w, n, 0) = DOMAIN l.slab
    BY <2>1 DEF Rest
  <2>3. QED
    BY <2>2 DEF Total
<1>7. Total(l) \in Nat
  <2>1. Linked(l)
    BY DEF Linked
  <2>2. QED
    BY <2>1, LinkedSized
<1>8. Total(r) + SumIn(l.slab, Rest(w, n, 0)) = Total(l)
  BY <1>5, <1>6, <1>7
<1>9. \A o : o \in DOMAIN r.key_to_sid <=> \E j \in 1..0 : l.slab[w[j]].key = o
  BY <1>2
<1>10. QED
  BY <1>2, <1>3, <1>4, <1>8, <1>9 DEF Moved

\* A push moves the next order of the walk.
LEMMA OneMoved ==
  ASSUME NEW l, NEW w, NEW n, Shape(l, w, n), NEW i \in 1..n, NEW r \in Moved(l, w, n, i - 1),
         NEW q, q = ListPushBack(r, l.slab[w[i]].key, l.slab[w[i]].sz)
  PROVE  q \in Moved(l, w, n, i)
<1>1. /\ n \in Nat /\ \A j \in 1..n : w[j] \in DOMAIN l.slab
      /\ \A j, k \in 1..n : w[j] = w[k] => j = k
  BY WalkFacts
<1>2. PICK slab : slab = l.slab
  OBVIOUS
<1>3. /\ IsFiniteSet(DOMAIN slab) /\ \A x \in DOMAIN slab : slab[x].sz \in Nat
      /\ \A x \in DOMAIN slab : slab[x].key \in DOMAIN l.key_to_sid /\ l.key_to_sid[slab[x].key] = x
  <2>1. Linked(l)
    BY DEF Linked
  <2>2. QED
    BY <1>2, <2>1, LinkedSized
<1>4. PICK x \in DOMAIN slab : x = w[i]
  BY <1>1, <1>2
<1>5. PICK o, s : o = slab[x].key /\ s = slab[x].sz
  OBVIOUS
<1>6. /\ Linked(r) /\ \A p : p \in DOMAIN r.key_to_sid <=> \E j \in 1..(i - 1) : slab[w[j]].key = p
      /\ Total(r) + SumIn(slab, Rest(w, n, i - 1)) = Total(l)
  BY <1>2 DEF Moved
<1>7. o \notin DOMAIN r.key_to_sid
  <2>1. ASSUME NEW j \in 1..(i - 1), slab[w[j]].key = o PROVE FALSE
    <3>1. j \in 1..n /\ j # i
      BY <1>1
    <3>2. w[j] \in DOMAIN slab /\ w[j] # x
      BY <1>1, <1>2, <1>4, <3>1
    <3>3. l.key_to_sid[slab[w[j]].key] = w[j] /\ l.key_to_sid[slab[x].key] = x
      BY <1>3, <3>2
    <3>4. QED
      BY <1>5, <2>1, <3>2, <3>3
  <2>2. QED
    BY <1>6, <2>1
<1>8. o \in Oid /\ s \in Nat
  <2>1. l \in LevelSet
    BY DEF Shape
  <2>2. l.slab[x] \in Node
    BY <1>2, <2>1, NodeIn
  <2>3. QED
    BY <1>2, <1>5, <2>2, NodeTypes
<1>9. q = ListPushBack(r, o, s)
  BY <1>2, <1>4, <1>5
<1>10. Gains(q, r, o, s)
  BY <1>6, <1>7, <1>8, <1>9, BackGains
<1>11. /\ Linked(q) /\ Total(q) = Total(r) + s
       /\ \A p : p \in DOMAIN q.key_to_sid <=> p \in DOMAIN r.key_to_sid \/ p = o
  BY <1>10 DEF Gains
<1>12. q \in LevelSet /\ Total(r) \in Nat
  BY <1>6, <1>11, LinkedSized
<1>13. PICK A, B : A = Rest(w, n, i - 1) /\ B = Rest(w, n, i)
  OBVIOUS
<1>14. A \subseteq DOMAIN slab /\ x \in A /\ A \ {x} = B
  <2>1. \A y : y \in A <=> \E j \in i..n : w[j] = y
    BY <1>1, <1>13 DEF Rest
  <2>2. \A y : y \in B <=> \E j \in (i + 1)..n : w[j] = y
    BY <1>13 DEF Rest
  <2>3. ASSUME NEW y \in A PROVE y \in DOMAIN slab
    <3>1. PICK j \in i..n : w[j] = y
      BY <2>1
    <3>2. QED
      BY <1>1, <1>2, <3>1
  <2>4. x \in A
    BY <1>1, <1>4, <2>1
  <2>5. ASSUME NEW y \in A, y # x PROVE y \in B
    <3>1. PICK j \in i..n : w[j] = y
      BY <2>1
    <3>2. j # i /\ j \in (i + 1)..n
      BY <1>1, <1>4, <2>5, <3>1
    <3>3. QED
      BY <2>2, <3>1, <3>2
  <2>6. ASSUME NEW y \in B PROVE y \in A /\ y # x
    <3>1. PICK j \in (i + 1)..n : w[j] = y
      BY <2>2
    <3>2. j \in i..n /\ j \in 1..n /\ j # i
      BY <1>1
    <3>3. QED
      BY <1>1, <1>4, <2>1, <3>1, <3>2
  <2>7. QED
    BY <2>3, <2>4, <2>5, <2>6
<1>15. Sized(slab, A) /\ Sized(slab, B)
  <2>1. IsFiniteSet(A) /\ IsFiniteSet(B) /\ B \subseteq DOMAIN slab
    BY <1>3, <1>14, FS_Subset
  <2>2. QED
    BY <1>3, <1>14, <2>1 DEF Sized
<1>16. SumIn(slab, A) = s + SumIn(slab, B) /\ SumIn(slab, B) \in Nat
  <2>1. SumIn(slab, A) = slab[x].sz + SumIn(slab, A \ {x})
    BY <1>14, <1>15, SumOfAny
  <2>2. SumIn(slab, B) \in Nat
    BY <1>15, SumType
  <2>3. QED
    BY <1>5, <1>14, <2>1, <2>2
<1>17. Total(q) + SumIn(l.slab, Rest(w, n, i)) = Total(l)
  <2>1. Total(r) + SumIn(slab, A) = Total(l)
    BY <1>6, <1>13
  <2>2. Total(q) + SumIn(slab, B) = Total(l)
    BY <1>8, <1>11, <1>12, <1>16, <2>1
  <2>3. QED
    BY <1>2, <1>13, <2>2
<1>18. \A p : p \in DOMAIN q.key_to_sid <=> \E j \in 1..i : l.slab[w[j]].key = p
  <2>1. slab[w[i]].key = o
    BY <1>4, <1>5
  <2>2. \A p : (\E j \in 1..i : slab[w[j]].key = p) <=> (\E j \in 1..(i - 1) : slab[w[j]].key = p) \/ p = o
    <3> SUFFICES ASSUME NEW p
                 PROVE  (\E j \in 1..i : slab[w[j]].key = p) <=> (\E j \in 1..(i - 1) : slab[w[j]].key = p) \/ p = o
      OBVIOUS
    <3>1. ASSUME NEW j \in 1..i, slab[w[j]].key = p PROVE (\E k \in 1..(i - 1) : slab[w[k]].key = p) \/ p = o
      <4>1. j = i \/ j \in 1..(i - 1)
        BY <1>1
      <4>2. QED
        BY <2>1, <3>1, <4>1
    <3>2. ASSUME NEW j \in 1..(i - 1), slab[w[j]].key = p PROVE \E k \in 1..i : slab[w[k]].key = p
      <4>1. j \in 1..i
        BY <1>1
      <4>2. QED
        BY <3>2, <4>1
    <3>3. ASSUME p = o PROVE \E k \in 1..i : slab[w[k]].key = p
      <4>1. i \in 1..i
        BY <1>1
      <4>2. QED
        BY <2>1, <3>3, <4>1
    <3>4. QED
      BY <3>1, <3>2, <3>3
  <2>3. QED
    BY <1>2, <1>6, <1>11, <2>2
<1>19. ASSUME Live(l) PROVE Live(q)
  <2>1. Live(r)
    BY <1>19 DEF Moved
  <2>2. s = SizeAt(l, o) /\ o \in DOMAIN l.key_to_sid
    BY <1>2, <1>3, <1>5 DEF SizeAt
  <2>3. s # 0
    BY <1>19, <2>2 DEF Live
  <2>4. SameSizes(q, r) /\ SizeAt(q, o) = s
    BY <1>10 DEF Gains
  <2>5. QED
    BY <1>11, <2>1, <2>3, <2>4 DEF Live, SameSizes
<1>20. QED
  BY <1>11, <1>12, <1>17, <1>18, <1>19 DEF Moved

\* f is the run of pushes of the orders of walk w into a fresh level.
Pushes(l, w, f) ==
  f = [i \in 0..Len(w) |->
         IF i = 0 THEN NewLevel(LenOf(l))
         ELSE ListPushBack(f[i - 1], l.slab[w[i]].key, l.slab[w[i]].sz)]

\* compact keeps the level, or is the last of the pushes with the old running
\* sum.
LEMMA CompactIs ==
  ASSUME NEW l
  PROVE  compact(l) =
           IF l.capacity <= 2 * LenOf(l) + CompactSlack THEN l
           ELSE [(CHOOSE f : Pushes(l, Slots(l), f))[Len(Slots(l))]
                   EXCEPT !.total_sz = l.total_sz, !.saturated = l.saturated]
BY DEF compact, Pushes

\* After the last push, all orders have been moved.
LEMMA AllMoved ==
  ASSUME NEW l, NEW w, NEW n, Shape(l, w, n), n = Len(w), NEW c, c = CHOOSE f : Pushes(l, w, f)
  PROVE  c[n] \in Moved(l, w, n, n)
<1>1. n \in Nat
  BY WalkFacts
<1>2. PICK base : base = NewLevel(LenOf(l))
  OBVIOUS
<1>3. base \in Moved(l, w, n, 0)
  BY <1>2, NoneMoved
<1>4. PICK V : V = [i \in 0..n |-> Moved(l, w, n, i)]
  OBVIOUS
<1>5. PICK push : push = [z \in (1..n) \X LevelSet |-> ListPushBack(z[2], l.slab[w[z[1]]].key, l.slab[w[z[1]]].sz)]
  OBVIOUS
<1>6. ASSUME NEW i \in 1..n, NEW r \in Moved(l, w, n, i - 1)
      PROVE  /\ push[<<i, r>>] = ListPushBack(r, l.slab[w[i]].key, l.slab[w[i]].sz)
             /\ ListPushBack(r, l.slab[w[i]].key, l.slab[w[i]].sz) \in Moved(l, w, n, i)
  <2>1. r \in LevelSet
    BY DEF Moved
  <2>2. <<i, r>> \in (1..n) \X LevelSet
    BY <2>1
  <2>3. push[<<i, r>>] = ListPushBack(r, l.slab[w[i]].key, l.slab[w[i]].sz)
    BY <1>5, <2>2
  <2>4. ListPushBack(r, l.slab[w[i]].key, l.slab[w[i]].sz) \in Moved(l, w, n, i)
    BY OneMoved
  <2>5. QED
    BY <2>3, <2>4
<1>7. PICK f : Runs(n, base, push, f) /\ \A i \in 0..n : f[i] \in V[i]
  <2>1. base \in V[0]
    BY <1>1, <1>3, <1>4
  <2>2. \A i \in 1..n : \A v \in V[i - 1] : push[<<i, v>>] \in V[i]
    <3> SUFFICES ASSUME NEW i \in 1..n, NEW v \in V[i - 1] PROVE push[<<i, v>>] \in V[i]
      OBVIOUS
    <3>1. V[i - 1] = Moved(l, w, n, i - 1) /\ V[i] = Moved(l, w, n, i)
      BY <1>1, <1>4
    <3>2. QED
      BY <1>6, <3>1
  <2>3. QED
    BY <1>1, <2>1, <2>2, Recursion
<1>8. Pushes(l, w, f)
  <2>1. ASSUME NEW i \in 0..n
        PROVE  f[i] = IF i = 0 THEN base ELSE ListPushBack(f[i - 1], l.slab[w[i]].key, l.slab[w[i]].sz)
    <3>1. CASE i = 0
      BY <1>7, <3>1 DEF Runs
    <3>2. CASE i # 0
      <4>1. i \in 1..n /\ i - 1 \in 0..n
        BY <1>1, <3>2
      <4>2. f[i - 1] \in Moved(l, w, n, i - 1)
        BY <1>4, <1>7, <4>1
      <4>3. f[i] = push[<<i, f[i - 1]>>]
        BY <1>7, <3>2 DEF Runs
      <4>4. push[<<i, f[i - 1]>>] = ListPushBack(f[i - 1], l.slab[w[i]].key, l.slab[w[i]].sz)
        BY <1>6, <4>1, <4>2
      <4>5. QED
        BY <3>2, <4>3, <4>4
    <3>3. QED
      BY <3>1, <3>2
  <2>2. PICK g : g = [i \in 0..n |-> IF i = 0 THEN base ELSE ListPushBack(f[i - 1], l.slab[w[i]].key, l.slab[w[i]].sz)]
    OBVIOUS
  <2>3. f = g
    <3>1. \A i \in 0..n : f[i] = g[i]
      BY <2>1, <2>2
    <3>2. QED
      BY <1>7, <2>2, <3>1 DEF Runs
  <2>4. QED
    BY <1>2, <2>2, <2>3 DEF Pushes
<1>9. Pushes(l, w, c)
  BY <1>8
<1>10. c[0] = base /\ \A i \in 1..n : c[i] = ListPushBack(c[i - 1], l.slab[w[i]].key, l.slab[w[i]].sz)
  <2>1. c = [i \in 0..n |-> IF i = 0 THEN base ELSE ListPushBack(c[i - 1], l.slab[w[i]].key, l.slab[w[i]].sz)]
    BY <1>2, <1>9 DEF Pushes
  <2>2. \A i \in 0..n : c[i] = IF i = 0 THEN base ELSE ListPushBack(c[i - 1], l.slab[w[i]].key, l.slab[w[i]].sz)
    BY <2>1
  <2>3. 0 \in 0..n /\ \A i \in 1..n : i \in 0..n /\ i # 0
    BY <1>1
  <2>4. QED
    BY <2>2, <2>3
<1>11. PICK P : P = {i \in 0..n : c[i] \in Moved(l, w, n, i)}
  OBVIOUS
<1>12. 0 \in P
  <2>1. 0 \in 0..n /\ c[0] = base
    BY <1>1, <1>10
  <2>2. QED
    BY <1>3, <1>11, <2>1
<1>13. \A i \in 1..n : i - 1 \in P => i \in P
  <2> SUFFICES ASSUME NEW i \in 1..n, i - 1 \in P PROVE i \in P
    OBVIOUS
  <2>1. i \in 0..n /\ c[i - 1] \in Moved(l, w, n, i - 1)
    BY <1>1, <1>11
  <2>2. c[i] \in Moved(l, w, n, i)
    BY <1>10, <2>1, OneMoved
  <2>3. QED
    BY <1>11, <2>1, <2>2
<1>14. \A i \in 0..n : i \in P
  BY <1>1, <1>12, <1>13, UpwardsTo
<1>15. n \in P
  BY <1>1, <1>14
<1>16. QED
  BY <1>11, <1>15

\* Setting the flag that the sum has been cut changes nothing else.
LEMMA FlagIs ==
  ASSUME NEW l, Linked(l), NEW v \in BOOLEAN, NEW r, r = [l EXCEPT !.saturated = v]
  PROVE  /\ Linked(r) /\ Total(r) = Total(l) /\ SameOids(r, l) /\ SameSizes(r, l)
         /\ r.total_sz = l.total_sz /\ r.saturated = v
<1>1. l \in LevelSet
  BY LinkedSized
<1>2. /\ r \in LevelSet /\ r.saturated = v /\ r.total_sz = l.total_sz /\ r.slab = l.slab
      /\ SameSlots(r, l) /\ SameEnds(r, l)
  BY <1>1, SetFlag
<1>3. Linked(r) /\ Total(r) = Total(l) /\ SameOids(r, l) /\ SameSizes(r, l)
  BY <1>2, SumIsApart
<1>4. QED
  BY <1>2, <1>3

\* compact keeps the links, the running sum and the orders.
LEMMA CompactGood ==
  ASSUME NEW l, Good(l), NEW r, r = compact(l)
  PROVE  Good(r) /\ SameOids(r, l) /\ (Live(l) => Live(r))
<1>1. PICK w, n : Shape(l, w, n)
  BY DEF Good, Linked
<1>2. CASE l.capacity <= 2 * LenOf(l) + CompactSlack
  <2>1. r = l
    BY <1>2, CompactIs
  <2>2. QED
    BY <2>1 DEF SameOids
<1>3. CASE ~(l.capacity <= 2 * LenOf(l) + CompactSlack)
  <2>1. n \in Nat /\ w \in [1..n -> Nat \ {0}]
    BY <1>1 DEF Shape, Cells
  <2>2. n = Len(w)
    BY <2>1
  <2>3. Slots(l) = w
    BY <1>1, SlotsWalk
  <2>4. PICK c : c = CHOOSE f : Pushes(l, w, f)
    OBVIOUS
  <2>5. PICK m : m = c[n]
    OBVIOUS
  <2>6. m \in Moved(l, w, n, n)
    BY <1>1, <2>2, <2>4, <2>5, AllMoved
  <2>7. r = [m EXCEPT !.total_sz = l.total_sz, !.saturated = l.saturated]
    BY <1>3, <2>2, <2>3, <2>4, <2>5, CompactIs
  <2>8. PICK p : p = [m EXCEPT !.total_sz = l.total_sz]
    OBVIOUS
  <2>9. r = [p EXCEPT !.saturated = l.saturated]
    BY <2>7, <2>8
  <2>10. Linked(m) /\ Total(m) + SumIn(l.slab, Rest(w, n, n)) = Total(l)
    BY <2>6 DEF Moved
  <2>11. \A o : o \in DOMAIN m.key_to_sid <=> \E j \in 1..n : l.slab[w[j]].key = o
    BY <2>6 DEF Moved
  <2>12. Linked(l) /\ l.total_sz <= Total(l) /\ (~l.saturated => l.total_sz = Total(l))
    BY DEF Good, Summed
  <2>13. l.total_sz \in Nat /\ l.saturated \in BOOLEAN /\ Total(m) \in Nat /\ Total(l) \in Nat
    BY <2>10, <2>12, LinkedSized, LevelTypes
  <2>14. Total(m) = Total(l)
    <3>1. Rest(w, n, n) = {}
      BY <2>1 DEF Rest
    <3>2. SumIn(l.slab, {}) = 0
      BY SumOfNone
    <3>3. QED
      BY <2>10, <2>13, <3>1, <3>2
  <2>15. Linked(p) /\ Total(p) = Total(m) /\ SameOids(p, m) /\ SameSizes(p, m) /\ p.total_sz = l.total_sz
    BY <2>8, <2>10, <2>13, TotalIs
  <2>16. /\ Linked(r) /\ Total(r) = Total(p) /\ SameOids(r, p) /\ SameSizes(r, p)
         /\ r.total_sz = p.total_sz /\ r.saturated = l.saturated
    BY <2>9, <2>13, <2>15, FlagIs
  <2>17. Good(r)
    BY <2>12, <2>14, <2>15, <2>16 DEF Good, Summed
  <2>18. SameOids(m, l)
    <3>1. Keys(l.key_to_sid, l.slab)
      BY <1>1 DEF Shape
    <3>2. \A x : x \in DOMAIN l.slab <=> \E i \in 1..n : w[i] = x
      BY <1>1, WalkFacts
    <3>3. ASSUME NEW o \in DOMAIN l.key_to_sid PROVE \E j \in 1..n : l.slab[w[j]].key = o
      <4>1. l.key_to_sid[o] \in DOMAIN l.slab /\ l.slab[l.key_to_sid[o]].key = o
        BY <3>1 DEF Keys
      <4>2. PICK j \in 1..n : w[j] = l.key_to_sid[o]
        BY <3>2, <4>1
      <4>3. QED
        BY <4>1, <4>2
    <3>4. ASSUME NEW j \in 1..n PROVE l.slab[w[j]].key \in DOMAIN l.key_to_sid
      BY <3>1, <3>2 DEF Keys
    <3>5. QED
      BY <2>11, <3>3, <3>4 DEF SameOids
  <2>19. ASSUME Live(l) PROVE Live(r)
    <3>1. Live(m)
      BY <2>6, <2>19 DEF Moved
    <3>2. \A a : a \in DOMAIN p.key_to_sid => a \in DOMAIN m.key_to_sid
      BY <2>15 DEF SameOids
    <3>3. Live(p)
      BY <2>15, <3>1, <3>2, LiveToo
    <3>4. \A a : a \in DOMAIN r.key_to_sid => a \in DOMAIN p.key_to_sid
      BY <2>16 DEF SameOids
    <3>5. QED
      BY <2>16, <3>3, <3>4, LiveToo
  <2>20. QED
    BY <2>15, <2>16, <2>17, <2>18, <2>19 DEF SameOids
<1>4. QED
  BY <1>2, <1>3

-----------------------------------------------------------------------------
(* The levels of a book.                                                   *)

\* Level k of a book: some orders, all of that price and side.
Fits(l, k) == Good(l) /\ Live(l) /\ ~IsEmpty(l) /\ \A o \in DOMAIN l.key_to_sid : LevelOf(o) = k

\* The levels ls hold the orders I.
Stored(ls, I) ==
  /\ ls \in Maps(Level, LevelSet) /\ IsFiniteSet(DOMAIN ls) /\ I \subseteq Oid
  /\ \A k \in DOMAIN ls : Fits(ls[k], k)
  /\ \A o : o \in I <=> \E k \in DOMAIN ls : o \in DOMAIN ls[k].key_to_sid

Books == [oid_to_side_px : SUBSET Oid, levels : Maps(Level, LevelSet)]

\* The orders of a good level are orders, and it is empty when there are none.
LEMMA GoodOids ==
  ASSUME NEW l, Good(l)
  PROVE  l \in LevelSet /\ (\A o \in DOMAIN l.key_to_sid : o \in Oid)
         /\ (IsEmpty(l) <=> \A o : o \notin DOMAIN l.key_to_sid)
<1>1. Linked(l)
  BY DEF Good
<1>2. l \in LevelSet
  BY <1>1, LinkedSized
<1>3. l.key_to_sid \in Maps(Oid, Nat)
  BY <1>2, LevelTypes
<1>4. DOMAIN l.key_to_sid \subseteq Oid
  BY <1>3, MapIs
<1>5. QED
  BY <1>1, <1>2, <1>4, EmptyIs

\* An order that is stored stands in the level of its price.
LEMMA StandsAt ==
  ASSUME NEW ls, NEW I, Stored(ls, I), NEW k \in DOMAIN ls
  PROVE  /\ Good(ls[k]) /\ Live(ls[k]) /\ ~IsEmpty(ls[k]) /\ k \in Level
         /\ \A o : o \in DOMAIN ls[k].key_to_sid <=> o \in I /\ LevelOf(o) = k
<1>1. /\ Fits(ls[k], k) /\ \A j \in DOMAIN ls : Fits(ls[j], j)
      /\ \A o : o \in I <=> \E j \in DOMAIN ls : o \in DOMAIN ls[j].key_to_sid
  BY DEF Stored
<1>2. k \in Level
  <2>1. ls \in Maps(Level, LevelSet)
    BY DEF Stored
  <2>2. DOMAIN ls \subseteq Level
    BY <2>1, MapIs
  <2>3. QED
    BY <2>2
<1>3. ASSUME NEW o, o \in DOMAIN ls[k].key_to_sid PROVE o \in I /\ LevelOf(o) = k
  BY <1>1, <1>3 DEF Fits
<1>4. ASSUME NEW o \in I, LevelOf(o) = k PROVE o \in DOMAIN ls[k].key_to_sid
  <2>1. PICK j \in DOMAIN ls : o \in DOMAIN ls[j].key_to_sid
    BY <1>1
  <2>2. LevelOf(o) = j
    BY <1>1, <2>1 DEF Fits
  <2>3. QED
    BY <1>4, <2>1, <2>2
<1>5. QED
  BY <1>1, <1>2, <1>3, <1>4 DEF Fits

\* The level of an order's price is good, and holds the orders stored at that
\* price.
LEMMA LevelAtIs ==
  ASSUME NEW bk, NEW I, Stored(bk.levels, I), NEW o \in Oid, NEW l, l = LevelAt(bk, o)
  PROVE  Good(l) /\ Live(l) /\ \A p : p \in DOMAIN l.key_to_sid <=> p \in I /\ LevelOf(p) = LevelOf(o)
<1>1. PICK ls, k : ls = bk.levels /\ k = LevelOf(o)
  OBVIOUS
<1>2. Stored(ls, I)
  BY <1>1
<1>3. CASE k \in DOMAIN ls
  <2>1. l = ls[k]
    BY <1>1, <1>3 DEF LevelAt
  <2>2. Good(ls[k]) /\ Live(ls[k]) /\ \A p : p \in DOMAIN ls[k].key_to_sid <=> p \in I /\ LevelOf(p) = k
    BY <1>2, <1>3, StandsAt
  <2>3. QED
    BY <1>1, <2>1, <2>2
<1>4. CASE k \notin DOMAIN ls
  <2>1. l = NewLevel(0)
    BY <1>1, <1>4 DEF LevelAt
  <2>2. Good(l) /\ Live(l) /\ \A p : p \notin DOMAIN l.key_to_sid
    BY <2>1, NewLevelIs
  <2>3. ASSUME NEW p \in I, LevelOf(p) = k PROVE FALSE
    <3>1. PICK j \in DOMAIN ls : p \in DOMAIN ls[j].key_to_sid
      BY <1>2 DEF Stored
    <3>2. LevelOf(p) = j
      BY <1>2, <3>1, StandsAt
    <3>3. QED
      BY <1>4, <2>3, <3>2
  <2>4. QED
    BY <1>1, <2>2, <2>3
<1>5. QED
  BY <1>3, <1>4

\* The levels once level k is stored, or dropped when it is empty.
PutIn(ls, k, lv) == IF IsEmpty(lv) THEN Without(ls, k) ELSE With(ls, k, lv)

\* The levels once one of them is replaced hold that one's orders and those of
\* the others.
LEMMA PutStored ==
  ASSUME NEW ls, NEW I, Stored(ls, I), NEW k \in Level, NEW lv, Good(lv), Live(lv),
         \A o \in DOMAIN lv.key_to_sid : LevelOf(o) = k,
         NEW J, \A o : o \in J <=> (o \in I /\ LevelOf(o) # k) \/ o \in DOMAIN lv.key_to_sid,
         NEW r, r = PutIn(ls, k, lv)
  PROVE  /\ Stored(r, J) /\ \A j \in DOMAIN ls : j # k => j \in DOMAIN r
         /\ DOMAIN r \subseteq DOMAIN ls \cup {k} /\ (IsEmpty(lv) => k \notin DOMAIN r)
<1>1. /\ ls \in Maps(Level, LevelSet) /\ IsFiniteSet(DOMAIN ls) /\ I \subseteq Oid
      /\ \A j \in DOMAIN ls : Fits(ls[j], j)
      /\ \A o : o \in I <=> \E j \in DOMAIN ls : o \in DOMAIN ls[j].key_to_sid
  BY DEF Stored
<1>2. lv \in LevelSet /\ (\A o \in DOMAIN lv.key_to_sid : o \in Oid)
      /\ (IsEmpty(lv) <=> \A o : o \notin DOMAIN lv.key_to_sid)
  BY GoodOids
<1>3. \A j \in DOMAIN ls : \A o : o \in DOMAIN ls[j].key_to_sid <=> o \in I /\ LevelOf(o) = j
  BY StandsAt
<1>4. J \subseteq Oid
  BY <1>1, <1>2
<1>5. CASE IsEmpty(lv)
  <2>1. r = Without(ls, k)
    BY <1>5 DEF PutIn
  <2>2. /\ r \in Maps(Level, LevelSet) /\ \A y : y \in DOMAIN r <=> y \in DOMAIN ls /\ y # k
        /\ \A y \in DOMAIN r : r[y] = ls[y]
    BY <1>1, <2>1, WithoutIs
  <2>3. IsFiniteSet(DOMAIN r)
    <3>1. DOMAIN r \subseteq DOMAIN ls
      BY <2>2
    <3>2. QED
      BY <1>1, <3>1, FS_Subset
  <2>4. \A j \in DOMAIN r : Fits(r[j], j)
    BY <1>1, <2>2
  <2>5. ASSUME NEW o PROVE o \in J <=> \E j \in DOMAIN r : o \in DOMAIN r[j].key_to_sid
    <3>1. o \in J <=> o \in I /\ LevelOf(o) # k
      BY <1>2, <1>5
    <3>2. ASSUME o \in I, LevelOf(o) # k PROVE \E j \in DOMAIN r : o \in DOMAIN r[j].key_to_sid
      <4>1. PICK j \in DOMAIN ls : o \in DOMAIN ls[j].key_to_sid
        BY <1>1, <3>2
      <4>2. j # k
        BY <1>3, <3>2, <4>1
      <4>3. QED
        BY <2>2, <4>1, <4>2
    <3>3. ASSUME NEW j \in DOMAIN r, o \in DOMAIN r[j].key_to_sid PROVE o \in I /\ LevelOf(o) # k
      <4>1. j \in DOMAIN ls /\ j # k /\ o \in DOMAIN ls[j].key_to_sid
        BY <2>2, <3>3
      <4>2. QED
        BY <1>3, <4>1
    <3>4. QED
      BY <3>1, <3>2, <3>3
  <2>6. Stored(r, J)
    BY <1>4, <2>2, <2>3, <2>4, <2>5 DEF Stored
  <2>7. (\A j \in DOMAIN ls : j # k => j \in DOMAIN r) /\ DOMAIN r \subseteq DOMAIN ls \cup {k} /\ k \notin DOMAIN r
    BY <2>2
  <2>8. QED
    BY <2>6, <2>7
<1>6. CASE ~IsEmpty(lv)
  <2>1. r = With(ls, k, lv)
    BY <1>6 DEF PutIn
  <2>2. /\ r \in Maps(Level, LevelSet) /\ \A y : y \in DOMAIN r <=> y \in DOMAIN ls \/ y = k
        /\ r[k] = lv /\ \A y \in DOMAIN ls : y # k => r[y] = ls[y]
    BY <1>1, <1>2, <2>1, WithIs
  <2>3. IsFiniteSet(DOMAIN r)
    <3>1. DOMAIN r = DOMAIN ls \cup {k}
      BY <2>2
    <3>2. QED
      BY <1>1, <3>1, FS_AddElement
  <2>4. \A j \in DOMAIN r : Fits(r[j], j)
    BY <1>1, <1>6, <2>2 DEF Fits
  <2>5. ASSUME NEW o PROVE o \in J <=> \E j \in DOMAIN r : o \in DOMAIN r[j].key_to_sid
    <3>1. o \in J <=> (o \in I /\ LevelOf(o) # k) \/ o \in DOMAIN lv.key_to_sid
      OBVIOUS
    <3>2. ASSUME o \in I, LevelOf(o) # k PROVE \E j \in DOMAIN r : o \in DOMAIN r[j].key_to_sid
      <4>1. PICK j \in DOMAIN ls : o \in DOMAIN ls[j].key_to_sid
        BY <1>1, <3>2
      <4>2. j # k
        BY <1>3, <3>2, <4>1
      <4>3. QED
        BY <2>2, <4>1, <4>2
    <3>3. ASSUME o \in DOMAIN lv.key_to_sid PROVE \E j \in DOMAIN r : o \in DOMAIN r[j].key_to_sid
      BY <2>2, <3>3
    <3>4. ASSUME NEW j \in DOMAIN r, o \in DOMAIN r[j].key_to_sid
          PROVE  (o \in I /\ LevelOf(o) # k) \/ o \in DOMAIN lv.key_to_sid
      <4>1. CASE j = k
        BY <2>2, <3>4, <4>1
      <4>2. CASE j # k
        <5>1. j \in DOMAIN ls /\ o \in DOMAIN ls[j].key_to_sid
          BY <2>2, <3>4, <4>2
        <5>2. QED
          BY <1>3, <4>2, <5>1
      <4>3. QED
        BY <4>1, <4>2
    <3>5. QED
      BY <3>1, <3>2, <3>3, <3>4
  <2>6. Stored(r, J)
    BY <1>4, <2>2, <2>3, <2>4, <2>5 DEF Stored
  <2>7. (\A j \in DOMAIN ls : j # k => j \in DOMAIN r) /\ DOMAIN r \subseteq DOMAIN ls \cup {k}
    BY <2>2
  <2>8. QED
    BY <1>6, <2>6, <2>7
<1>7. QED
  BY <1>5, <1>6

\* PutLevel changes the levels and not the index.
LEMMA PutLevelIs ==
  ASSUME NEW bk \in Books, NEW k \in Level, NEW lv \in LevelSet, NEW r, r = PutLevel(bk, k, lv)
  PROVE  r \in Books /\ r.oid_to_side_px = bk.oid_to_side_px /\ r.levels = PutIn(bk.levels, k, lv)
<1>1. PICK ls, p : ls = bk.levels /\ p = PutIn(ls, k, lv)
  OBVIOUS
<1>2. ls \in Maps(Level, LevelSet)
  BY <1>1 DEF Books
<1>3. p \in Maps(Level, LevelSet)
  <2>1. CASE IsEmpty(lv)
    <3>1. p = Without(ls, k)
      BY <1>1, <2>1 DEF PutIn
    <3>2. QED
      BY <1>2, <3>1, WithoutIs
  <2>2. CASE ~IsEmpty(lv)
    <3>1. p = With(ls, k, lv)
      BY <1>1, <2>2 DEF PutIn
    <3>2. QED
      BY <1>2, <3>1, WithIs
  <2>3. QED
    BY <2>1, <2>2
<1>4. r = [bk EXCEPT !.levels = p]
  BY <1>1 DEF PutLevel, PutIn
<1>5. QED
  BY <1>1, <1>3, <1>4 DEF Books

-----------------------------------------------------------------------------
(* The levels of a side, best price first.                                 *)

Ahead(S, l) == {k \in S : Better(k, l)}

\* f gives each level of S the number of better ones.
Ranks(S, f) == f = [l \in S |-> Cardinality(Ahead(S, l))]

\* Better orders the levels of one side.
LEMMA SideOrdered ==
  ASSUME NEW S \in SUBSET Level, NEW sd, \A l \in S : l[1] = sd
  PROVE  /\ \A k, l \in S : k # l => Better(k, l) \/ Better(l, k)
         /\ \A k, l \in S : Better(k, l) => ~Better(l, k)
         /\ \A k, l, m \in S : Better(k, l) /\ Better(l, m) => Better(k, m)
<1>1. \A o \in Oid : px[o] \in Nat
  BY OrdersAssumption
<1>2. ASSUME NEW l \in S PROVE l = <<sd, l[2]>> /\ l[2] \in Nat
  <2>1. PICK o \in Oid : l = <<side[o], px[o]>>
    BY DEF Level
  <2>2. l[1] = side[o] /\ l[2] = px[o] /\ l[1] = sd
    BY <2>1
  <2>3. QED
    BY <1>1, <2>1, <2>2
<1>3. \A k, l \in S : k # l => k[2] # l[2]
  BY <1>2
<1>4. \A k, l \in S : Better(k, l) <=> IF sd = "Bid" THEN k[2] > l[2] ELSE k[2] < l[2]
  BY DEF Better
<1>5. CASE sd = "Bid"
  <2>1. \A k, l \in S : Better(k, l) <=> k[2] > l[2]
    BY <1>4, <1>5
  <2>2. \A l \in S : l[2] \in Nat
    BY <1>2
  <2>3. QED
    BY <1>3, <2>1, <2>2
<1>6. CASE sd # "Bid"
  <2>1. \A k, l \in S : Better(k, l) <=> k[2] < l[2]
    BY <1>4, <1>6
  <2>2. \A l \in S : l[2] \in Nat
    BY <1>2
  <2>3. QED
    BY <1>3, <2>1, <2>2
<1>7. QED
  BY <1>5, <1>6

\* Of two levels of a side, the better one has fewer ahead of it.
LEMMA AheadGrows ==
  ASSUME NEW S \in SUBSET Level, IsFiniteSet(S), NEW sd, \A l \in S : l[1] = sd,
         NEW k \in S, NEW l \in S, Better(k, l)
  PROVE  Cardinality(Ahead(S, k)) # Cardinality(Ahead(S, l))
<1>1. /\ \A i, j \in S : Better(i, j) => ~Better(j, i)
      /\ \A h, i, j \in S : Better(h, i) /\ Better(i, j) => Better(h, j)
  BY SideOrdered
<1>2. PICK A, B : A = Ahead(S, k) /\ B = Ahead(S, l)
  OBVIOUS
<1>3. A \subseteq B /\ k \in B /\ k \notin A /\ B \subseteq S
  BY <1>1, <1>2 DEF Ahead
<1>4. IsFiniteSet(B)
  BY <1>3, FS_Subset
<1>5. Cardinality(B) = Cardinality(A) => B = A
  BY <1>3, <1>4, FS_Subset
<1>6. QED
  BY <1>2, <1>3, <1>5

\* Each rank from 0 on is the rank of one level.
LEMMA RankTaken ==
  ASSUME NEW S \in SUBSET Level, IsFiniteSet(S), NEW sd, \A l \in S : l[1] = sd,
         NEW n, n = Cardinality(S), NEW f, Ranks(S, f)
  PROVE  /\ n \in Nat /\ \A i \in 1..n : \E l \in S : f[l] = i - 1
         /\ \A l \in S : f[l] \in Nat /\ f[l] + 1 \in 1..n
         /\ \A k, l \in S : f[k] = f[l] => k = l
<1>1. n \in Nat
  BY FS_CardinalityType
<1>2. PICK b \in Int : b = n - 1
  BY <1>1
<1>3. ASSUME NEW l \in S PROVE f[l] \in 0..b
  <2>1. PICK A : A = Ahead(S, l)
    OBVIOUS
  <2>2. A \subseteq S /\ l \notin A
    <3>1. ~Better(l, l)
      BY SideOrdered
    <3>2. QED
      BY <2>1, <3>1 DEF Ahead
  <2>3. IsFiniteSet(A) /\ Cardinality(A) <= Cardinality(S) /\ Cardinality(S) # Cardinality(A)
    <3>1. IsFiniteSet(A) /\ Cardinality(A) <= Cardinality(S)
      BY <2>2, FS_Subset
    <3>2. Cardinality(S) = Cardinality(A) => S = A
      BY <2>2, FS_Subset
    <3>3. QED
      BY <2>2, <3>1, <3>2
  <2>4. Cardinality(A) \in Nat
    BY <2>3, FS_CardinalityType
  <2>5. f[l] = Cardinality(A)
    BY <2>1 DEF Ranks
  <2>6. QED
    BY <1>1, <1>2, <2>3, <2>4, <2>5
<1>4. ASSUME NEW k \in S, NEW l \in S, f[k] = f[l] PROVE k = l
  <2> SUFFICES ASSUME k # l PROVE FALSE
    OBVIOUS
  <2>1. Better(k, l) \/ Better(l, k)
    BY SideOrdered
  <2>2. f[k] = Cardinality(Ahead(S, k)) /\ f[l] = Cardinality(Ahead(S, l))
    BY DEF Ranks
  <2>3. CASE Better(k, l)
    <3>1. Cardinality(Ahead(S, k)) # Cardinality(Ahead(S, l))
      BY <2>3, AheadGrows
    <3>2. QED
      BY <1>4, <2>2, <3>1
  <2>4. CASE Better(l, k)
    <3>1. Cardinality(Ahead(S, l)) # Cardinality(Ahead(S, k))
      BY <2>4, AheadGrows
    <3>2. QED
      BY <1>4, <2>2, <3>1
  <2>5. QED
    BY <2>1, <2>3, <2>4
<1>5. DOMAIN f = S /\ f = [l \in S |-> f[l]]
  BY DEF Ranks
<1>6. PICK T : T = 0..b
  OBVIOUS
<1>7. f \in [S -> T]
  BY <1>3, <1>5, <1>6
<1>8. f \in Injection(S, T)
  BY <1>4, <1>7 DEF Injection, IsInjective
<1>9. IsFiniteSet(T) /\ Cardinality(T) = Cardinality(S)
  <2>1. 0 \in Int
    OBVIOUS
  <2>2. IsFiniteSet(0..b) /\ Cardinality(0..b) = IF 0 > b THEN 0 ELSE b - 0 + 1
    BY <2>1, FS_Interval
  <2>3. (IF 0 > b THEN 0 ELSE b - 0 + 1) = n
    BY <1>1, <1>2
  <2>4. QED
    BY <1>6, <2>2, <2>3
<1>10. f \in Surjection(S, T)
  BY <1>8, <1>9, FS_Injection
<1>11. \A t \in T : \E l \in S : f[l] = t
  BY <1>10 DEF Surjection
<1>12. ASSUME NEW i \in 1..n PROVE \E l \in S : f[l] = i - 1
  <2>1. i - 1 \in T
    BY <1>1, <1>2, <1>6
  <2>2. QED
    BY <1>11, <2>1
<1>13. ASSUME NEW l \in S PROVE f[l] \in Nat /\ f[l] + 1 \in 1..n
  BY <1>1, <1>2, <1>3
<1>14. QED
  BY <1>1, <1>4, <1>12, <1>13

\* The levels q are levels of the book, each listed once.
Lists(q, n) ==
  /\ n \in Nat /\ \A i, j \in 1..n : q[i] = q[j] => i = j
  /\ \A i \in 1..n : q[i] \in Level

OnSide(ls, sd) == {l \in DOMAIN ls : l[1] = sd}

RankIn(S) == [l \in S |-> Cardinality(Ahead(S, l))]
Placed(S, f) == [i \in 1..Cardinality(S) |-> CHOOSE l \in S : f[l] = i - 1]

\* Every level of S is listed, and the first of the list has none ahead of it.
Covers(q, S) == \A l \in S : \E i \in 1..Len(q) : q[i] = l
StartsBest(q, S) == Len(q) # 0 => q[1] \in S /\ Ahead(S, q[1]) = {}

\* BestFirst places the levels of a side by their rank.
LEMMA BestFirstIs ==
  ASSUME NEW bk, NEW sd
  PROVE  BestFirst(bk, sd) = Placed(OnSide(bk.levels, sd), RankIn(OnSide(bk.levels, sd)))
BY DEF BestFirst, OnSide, Ahead, RankIn, Placed

\* Each level of the side has one place, and the first has none ahead of it.
LEMMA BestFirstPlaces ==
  ASSUME NEW bk, NEW I, Stored(bk.levels, I), NEW sd, NEW q, q = BestFirst(bk, sd)
  PROVE  /\ Lists(q, Len(q)) /\ q \in Seq(Level)
         /\ \A i \in 1..Len(q) : q[i] \in DOMAIN bk.levels
         /\ Covers(q, OnSide(bk.levels, sd)) /\ StartsBest(q, OnSide(bk.levels, sd))
<1>1. PICK S : S = OnSide(bk.levels, sd)
  OBVIOUS
<1>2. PICK f : f = RankIn(S)
  OBVIOUS
<1>3. PICK n : n = Cardinality(S)
  OBVIOUS
<1>4. S \in SUBSET Level /\ IsFiniteSet(S) /\ (\A l \in S : l[1] = sd) /\ S \subseteq DOMAIN bk.levels
  <2>1. IsFiniteSet(DOMAIN bk.levels) /\ bk.levels \in Maps(Level, LevelSet)
    BY DEF Stored
  <2>2. DOMAIN bk.levels \subseteq Level
    BY <2>1, MapIs
  <2>3. S \subseteq DOMAIN bk.levels /\ \A l \in S : l[1] = sd
    BY <1>1 DEF OnSide
  <2>4. IsFiniteSet(S)
    BY <2>1, <2>3, FS_Subset
  <2>5. QED
    BY <2>2, <2>3, <2>4
<1>5. /\ n \in Nat /\ \A i \in 1..n : \E l \in S : f[l] = i - 1
      /\ \A l \in S : f[l] \in Nat /\ f[l] + 1 \in 1..n
      /\ \A k, l \in S : f[k] = f[l] => k = l
  <2>1. Ranks(S, f)
    BY <1>2 DEF Ranks, RankIn
  <2>2. QED
    BY <1>3, <1>4, <2>1, RankTaken
<1>6. q = [i \in 1..n |-> CHOOSE l \in S : f[l] = i - 1]
  <2>1. q = Placed(S, f)
    BY <1>1, <1>2, BestFirstIs
  <2>2. QED
    BY <1>3, <2>1 DEF Placed
<1>7. \A i \in 1..n : q[i] \in S /\ f[q[i]] = i - 1
  <2> SUFFICES ASSUME NEW i \in 1..n PROVE q[i] \in S /\ f[q[i]] = i - 1
    OBVIOUS
  <2>1. \E l \in S : f[l] = i - 1
    BY <1>5
  <2>2. q[i] = CHOOSE l \in S : f[l] = i - 1
    BY <1>6
  <2>3. QED
    BY <2>1, <2>2
<1>8. DOMAIN q = 1..n /\ Len(q) = n
  BY <1>5, <1>6
<1>9. q \in Seq(Level) /\ \A i \in 1..n : q[i] \in DOMAIN bk.levels /\ q[i] \in Level
  <2>1. \A i \in 1..n : q[i] \in DOMAIN bk.levels /\ q[i] \in Level
    BY <1>4, <1>7
  <2>2. q \in [1..n -> Level]
    BY <1>6, <2>1
  <2>3. QED
    BY <1>5, <2>1, <2>2
<1>10. ASSUME NEW i \in 1..n, NEW j \in 1..n, q[i] = q[j] PROVE i = j
  <2>1. f[q[i]] = i - 1 /\ f[q[j]] = j - 1
    BY <1>7
  <2>2. QED
    BY <1>5, <1>10, <2>1
<1>11. Lists(q, n)
  BY <1>5, <1>9, <1>10 DEF Lists
<1>12. ASSUME NEW l \in S PROVE \E i \in 1..n : q[i] = l
  <2>1. PICK i \in 1..n : i = f[l] + 1
    BY <1>5
  <2>2. q[i] \in S /\ f[q[i]] = i - 1
    BY <1>7
  <2>3. f[l] \in Nat
    BY <1>5
  <2>4. f[q[i]] = f[l]
    BY <2>1, <2>2, <2>3
  <2>5. q[i] = l
    BY <1>5, <2>2, <2>4
  <2>6. QED
    BY <2>5
<1>13. ASSUME n # 0 PROVE q[1] \in S /\ Ahead(S, q[1]) = {}
  <2>1. q[1] \in S /\ f[q[1]] = 0
    <3>1. 1 \in 1..n
      BY <1>5, <1>13
    <3>2. QED
      BY <1>7, <3>1
  <2>2. PICK A : A = Ahead(S, q[1])
    OBVIOUS
  <2>3. Cardinality(A) = 0
    BY <1>2, <2>1, <2>2 DEF RankIn
  <2>4. IsFiniteSet(A)
    <3>1. A \subseteq S
      BY <2>2 DEF Ahead
    <3>2. QED
      BY <1>4, <3>1, FS_Subset
  <2>5. A = {}
    BY <2>3, <2>4, FS_EmptySet
  <2>6. QED
    BY <2>1, <2>2, <2>5
<1>14. Covers(q, S) /\ StartsBest(q, S)
  BY <1>8, <1>12, <1>13 DEF Covers, StartsBest
<1>15. QED
  BY <1>1, <1>8, <1>9, <1>11, <1>14

-----------------------------------------------------------------------------
(* A taker against the levels of a side.                                   *)

\* Unless the taker t is used up, the first i of the levels q that cross o are gone.
Swept(o, ls, t, q, i) == t = 0 \/ \A j \in 1..i : CrossedBy(o, q[j]) => q[j] \notin DOMAIN ls

\* What the first i of the levels q leave of a book with the orders I and the
\* levels S: the levels hold the orders that are not filled, the levels to come
\* are there, none is new, and those that crossed have been swept.
Met(o, S, I, q, n, i) ==
  {m \in [book : Books, taker : Nat, filled : SUBSET Oid] :
     /\ m.book.oid_to_side_px = I
     /\ Stored(m.book.levels, I \ m.filled)
     /\ \A j \in (i + 1)..n : q[j] \in DOMAIN m.book.levels
     /\ DOMAIN m.book.levels \subseteq S
     /\ Swept(o, m.book.levels, m.taker, q, i)}

\* What is left of a book after i levels, part by part.
LEMMA MetIs ==
  ASSUME NEW o, NEW S, NEW I, NEW q, NEW n, NEW i, NEW m \in Met(o, S, I, q, n, i)
  PROVE  /\ m.book \in Books /\ m.taker \in Nat /\ m.filled \subseteq Oid
         /\ m.book.oid_to_side_px = I /\ Stored(m.book.levels, I \ m.filled)
         /\ \A j \in (i + 1)..n : q[j] \in DOMAIN m.book.levels
         /\ DOMAIN m.book.levels \subseteq S /\ Swept(o, m.book.levels, m.taker, q, i)
BY DEF Met

\* What it takes to be what is left of a book after i levels.
LEMMA IsMet ==
  ASSUME NEW o, NEW S, NEW I, NEW q, NEW n, NEW i, NEW b \in Books, NEW t \in Nat, NEW f \in SUBSET Oid,
         b.oid_to_side_px = I, Stored(b.levels, I \ f), \A j \in (i + 1)..n : q[j] \in DOMAIN b.levels,
         DOMAIN b.levels \subseteq S, Swept(o, b.levels, t, q, i),
         NEW m, m = [book |-> b, taker |-> t, filled |-> f]
  PROVE  m \in Met(o, S, I, q, n, i)
<1>1. m \in [book : Books, taker : Nat, filled : SUBSET Oid] /\ m.book = b /\ m.taker = t /\ m.filled = f
  OBVIOUS
<1>2. QED
  BY <1>1 DEF Met

\* A level that does not cross may be passed by, and so may any once the taker is
\* used up.
LEMMA MetOnward ==
  ASSUME NEW o, NEW S, NEW I, NEW q, NEW n \in Nat, NEW i \in 1..n, NEW m \in Met(o, S, I, q, n, i - 1),
         m.taker = 0 \/ ~CrossedBy(o, q[i])
  PROVE  m \in Met(o, S, I, q, n, i)
<1>1. \A j \in (i + 1)..n : j \in ((i - 1) + 1)..n
  OBVIOUS
<1>2. Swept(o, m.book.levels, m.taker, q, i - 1)
  BY MetIs
<1>3. \A j \in 1..i : j = i \/ j \in 1..(i - 1)
  OBVIOUS
<1>4. Swept(o, m.book.levels, m.taker, q, i)
  BY <1>2, <1>3 DEF Swept
<1>5. QED
  BY <1>1, <1>4 DEF Met

\* A taker against the next level leaves a book without the makers it filled
\* there.
LEMMA MatchLevelMet ==
  ASSUME NEW o, NEW S, NEW I, NEW q, NEW n, Lists(q, n), NEW i \in 1..n, NEW m \in Met(o, S, I, q, n, i - 1)
  PROVE  MatchLevel(m, q[i]) \in Met(o, S, I, q, n, i)
<1>1. n \in Nat /\ (\A j, k \in 1..n : q[j] = q[k] => j = k) /\ \A j \in 1..n : q[j] \in Level
  BY DEF Lists
<1>2. PICK l, ls, t, f, X : l = q[i] /\ ls = m.book.levels /\ t = m.taker /\ f = m.filled /\ X = I \ f
  OBVIOUS
<1>3. /\ m.book \in Books /\ t \in Nat /\ f \subseteq Oid /\ m.book.oid_to_side_px = I /\ Stored(ls, X)
      /\ (\A j \in i..n : q[j] \in DOMAIN ls) /\ DOMAIN ls \subseteq S /\ Swept(o, ls, t, q, i - 1)
  <2>1. /\ m.book \in Books /\ m.taker \in Nat /\ m.filled \subseteq Oid
        /\ m.book.oid_to_side_px = I /\ Stored(m.book.levels, I \ m.filled)
        /\ \A j \in ((i - 1) + 1)..n : q[j] \in DOMAIN m.book.levels
        /\ DOMAIN m.book.levels \subseteq S /\ Swept(o, m.book.levels, m.taker, q, i - 1)
    BY MetIs
  <2>2. (i - 1) + 1 = i
    BY <1>1
  <2>3. QED
    BY <1>2, <2>1, <2>2
<1>4. l \in DOMAIN ls /\ l \in Level
  BY <1>1, <1>2, <1>3
<1>5. CASE t = 0
  <2>1. MatchLevel(m, l) = m
    BY <1>2, <1>5 DEF MatchLevel
  <2>2. m \in Met(o, S, I, q, n, i)
    BY <1>1, <1>2, <1>5, MetOnward
  <2>3. QED
    BY <1>2, <2>1, <2>2
<1>6. CASE t # 0
  <2>1. PICK r : r = match_against(ls[l], t)
    OBVIOUS
  <2>2. PICK K : K = DOMAIN ls[l].key_to_sid
    OBVIOUS
  <2>3. Good(ls[l]) /\ Live(ls[l]) /\ \A p : p \in K <=> p \in X /\ LevelOf(p) = l
    BY <1>3, <1>4, <2>2, StandsAt
  <2>4. r \in Turned(K, LenOf(ls[l])) /\ (r.taker = 0 \/ IsEmpty(r.level))
    <3>1. r \in Turned(K, LenOf(ls[l]))
      BY <1>3, <2>1, <2>2, <2>3, MatchAgainstTurned
    <3>2. r.taker = 0 \/ IsEmpty(r.level)
      BY <1>3, <2>1, <2>3, MatchAgainstSweeps
    <3>3. QED
      BY <3>1, <3>2
  <2>5. /\ r.level \in LevelSet /\ r.taker \in Nat /\ r.filled \subseteq K /\ Good(r.level) /\ Live(r.level)
        /\ \A p : p \in DOMAIN r.level.key_to_sid <=> p \in K /\ p \notin r.filled
    BY <2>4, TurnedIs
  <2>6. PICK b : b = PutLevel(m.book, l, r.level)
    OBVIOUS
  <2>7. b \in Books /\ b.oid_to_side_px = I /\ b.levels = PutIn(ls, l, r.level)
    <3>1. b \in Books /\ b.oid_to_side_px = m.book.oid_to_side_px /\ b.levels = PutIn(m.book.levels, l, r.level)
      BY <1>3, <1>4, <2>5, <2>6, PutLevelIs
    <3>2. QED
      BY <1>2, <1>3, <3>1
  <2>8. PICK F, J : F = f \cup r.filled /\ J = I \ F
    OBVIOUS
  <2>9. \A p : p \in J <=> (p \in X /\ LevelOf(p) # l) \/ p \in DOMAIN r.level.key_to_sid
    BY <1>2, <2>3, <2>5, <2>8
  <2>10. \A p \in DOMAIN r.level.key_to_sid : LevelOf(p) = l
    BY <2>3, <2>5
  <2>11. /\ Stored(b.levels, J) /\ \A j \in DOMAIN ls : j # l => j \in DOMAIN b.levels
         /\ DOMAIN b.levels \subseteq DOMAIN ls \cup {l} /\ (IsEmpty(r.level) => l \notin DOMAIN b.levels)
    BY <1>3, <1>4, <2>5, <2>7, <2>9, <2>10, PutStored
  <2>12. F \in SUBSET Oid
    <3>1. X \subseteq Oid
      BY <1>3 DEF Stored
    <3>2. K \subseteq Oid
      BY <2>3, <3>1
    <3>3. QED
      BY <1>3, <2>5, <2>8, <3>2
  <2>13. \A j \in (i + 1)..n : q[j] \in DOMAIN b.levels
    <3> SUFFICES ASSUME NEW j \in (i + 1)..n PROVE q[j] \in DOMAIN b.levels
      OBVIOUS
    <3>1. j \in i..n /\ j \in 1..n /\ j # i
      BY <1>1
    <3>2. q[j] \in DOMAIN ls /\ q[j] # l
      BY <1>1, <1>2, <1>3, <3>1
    <3>3. QED
      BY <2>11, <3>2
  <2>14. MatchLevel(m, l) = [book |-> b, taker |-> r.taker, filled |-> F]
    BY <1>2, <1>6, <2>1, <2>6, <2>8 DEF MatchLevel
  <2>15. DOMAIN b.levels \subseteq S
    BY <1>3, <1>4, <2>11
  <2>16. Swept(o, b.levels, r.taker, q, i)
    <3> SUFFICES ASSUME r.taker # 0, NEW j \in 1..i, CrossedBy(o, q[j]) PROVE q[j] \notin DOMAIN b.levels
      BY DEF Swept
    <3>1. l \notin DOMAIN b.levels
      BY <2>4, <2>11
    <3>2. CASE j = i
      BY <1>2, <3>1, <3>2
    <3>3. CASE j # i
      <4>1. j \in 1..(i - 1)
        BY <1>1, <3>3
      <4>2. q[j] \notin DOMAIN ls
        BY <1>3, <1>6, <4>1 DEF Swept
      <4>3. QED
        BY <1>4, <2>11, <4>2
    <3>4. QED
      BY <3>2, <3>3
  <2>17. MatchLevel(m, l) \in Met(o, S, I, q, n, i)
    <3>1. b \in Books /\ b.oid_to_side_px = I /\ Stored(b.levels, I \ F)
      BY <2>7, <2>8, <2>11
    <3>2. r.taker \in Nat
      BY <2>5
    <3>3. QED
      BY <2>12, <2>13, <2>14, <2>15, <2>16, <3>1, <3>2, IsMet
  <2>18. QED
    BY <1>2, <2>17
<1>7. QED
  BY <1>5, <1>6

\* One step of match_order's loop.
Meet(o, m, l) == IF CrossedBy(o, l) THEN MatchLevel(m, l) ELSE m

Untouched(bk, s) == [book |-> bk, taker |-> s, filled |-> {}]

\* f is the run of order o of size s against the levels q.
Meets(bk, o, s, q, f) ==
  f = [i \in 0..Len(q) |->
         IF i = 0 THEN Untouched(bk, s)
         ELSE IF CrossedBy(o, q[i]) THEN MatchLevel(f[i - 1], q[i])
         ELSE f[i - 1]]

\* match_order is the last of the steps through the levels.
LEMMA MatchOrderIs ==
  ASSUME NEW bk, NEW o, NEW s
  PROVE  match_order(bk, o, s) =
           (CHOOSE f : Meets(bk, o, s, BestFirst(bk, IF side[o] = "Ask" THEN "Bid" ELSE "Ask"), f))
             [Len(BestFirst(bk, IF side[o] = "Ask" THEN "Bid" ELSE "Ask"))]
BY DEF match_order, Meets, Untouched

\* A step of match_order's loop, whether the level crosses or not.
LEMMA MeetMet ==
  ASSUME NEW o, NEW S, NEW I, NEW q, NEW n, Lists(q, n), NEW i \in 1..n, NEW m \in Met(o, S, I, q, n, i - 1)
  PROVE  Meet(o, m, q[i]) \in Met(o, S, I, q, n, i)
<1>1. n \in Nat
  BY DEF Lists
<1>2. MatchLevel(m, q[i]) \in Met(o, S, I, q, n, i)
  BY MatchLevelMet
<1>3. ~CrossedBy(o, q[i]) => m \in Met(o, S, I, q, n, i)
  BY <1>1, MetOnward
<1>4. QED
  BY <1>2, <1>3 DEF Meet

\* The run of the loop, step by step.
LEMMA MeetsIs ==
  ASSUME NEW bk, NEW o, NEW s, NEW q, NEW f, Meets(bk, o, s, q, f), NEW i \in 0..Len(q)
  PROVE  f[i] = IF i = 0 THEN Untouched(bk, s) ELSE Meet(o, f[i - 1], q[i])
<1>1. f[i] = IF i = 0 THEN Untouched(bk, s)
             ELSE IF CrossedBy(o, q[i]) THEN MatchLevel(f[i - 1], q[i])
             ELSE f[i - 1]
  BY DEF Meets
<1>2. QED
  BY <1>1 DEF Meet

\* match_order leaves a book without the makers it filled, over all levels.
LEMMA AllMet ==
  ASSUME NEW bk \in Books, NEW o, NEW s \in Nat, NEW I, I = bk.oid_to_side_px, Stored(bk.levels, I),
         NEW S, S = DOMAIN bk.levels,
         NEW q, NEW n, Lists(q, n), n = Len(q), \A i \in 1..n : q[i] \in DOMAIN bk.levels,
         NEW c, c = CHOOSE f : Meets(bk, o, s, q, f)
  PROVE  c[n] \in Met(o, S, I, q, n, n)
<1>1. n \in Nat
  BY DEF Lists
<1>2. PICK base : base = Untouched(bk, s)
  OBVIOUS
<1>3. base \in Met(o, S, I, q, n, 0)
  <2>1. I \ {} = I /\ {} \in SUBSET Oid
    OBVIOUS
  <2>2. Stored(bk.levels, I \ {})
    BY <2>1
  <2>3. \A j \in (0 + 1)..n : q[j] \in DOMAIN bk.levels
    BY <1>1
  <2>4. Swept(o, bk.levels, s, q, 0) /\ DOMAIN bk.levels \subseteq S
    BY DEF Swept
  <2>5. base = [book |-> bk, taker |-> s, filled |-> {}]
    BY <1>2 DEF Untouched
  <2>6. QED
    BY <2>1, <2>2, <2>3, <2>4, <2>5, IsMet
<1>4. PICK V : V = [i \in 0..n |-> Met(o, S, I, q, n, i)]
  OBVIOUS
<1>5. PICK U : U = [book : Books, taker : Nat, filled : SUBSET Oid]
  OBVIOUS
<1>6. PICK meet : meet = [z \in (1..n) \X U |-> Meet(o, z[2], q[z[1]])]
  OBVIOUS
<1>7. ASSUME NEW i \in 1..n, NEW m \in Met(o, S, I, q, n, i - 1)
      PROVE  meet[<<i, m>>] = Meet(o, m, q[i]) /\ Meet(o, m, q[i]) \in Met(o, S, I, q, n, i)
  <2>1. m \in U
    BY <1>5 DEF Met
  <2>2. <<i, m>> \in (1..n) \X U
    BY <2>1
  <2>3. meet[<<i, m>>] = Meet(o, m, q[i])
    BY <1>6, <2>2
  <2>4. Meet(o, m, q[i]) \in Met(o, S, I, q, n, i)
    BY MeetMet
  <2>5. QED
    BY <2>3, <2>4
<1>8. PICK f : Runs(n, base, meet, f) /\ \A i \in 0..n : f[i] \in V[i]
  <2>1. base \in V[0]
    BY <1>1, <1>3, <1>4
  <2>2. \A i \in 1..n : \A v \in V[i - 1] : meet[<<i, v>>] \in V[i]
    <3> SUFFICES ASSUME NEW i \in 1..n, NEW v \in V[i - 1] PROVE meet[<<i, v>>] \in V[i]
      OBVIOUS
    <3>1. V[i - 1] = Met(o, S, I, q, n, i - 1) /\ V[i] = Met(o, S, I, q, n, i)
      BY <1>1, <1>4
    <3>2. QED
      BY <1>7, <3>1
  <2>3. QED
    BY <1>1, <2>1, <2>2, Recursion
<1>9. Meets(bk, o, s, q, f)
  <2>1. ASSUME NEW i \in 0..n
        PROVE  f[i] = IF i = 0 THEN base ELSE Meet(o, f[i - 1], q[i])
    <3>1. CASE i = 0
      BY <1>8, <3>1 DEF Runs
    <3>2. CASE i # 0
      <4>1. i \in 1..n /\ i - 1 \in 0..n
        BY <1>1, <3>2
      <4>2. f[i - 1] \in Met(o, S, I, q, n, i - 1)
        BY <1>4, <1>8, <4>1
      <4>3. f[i] = meet[<<i, f[i - 1]>>]
        BY <1>8, <3>2 DEF Runs
      <4>4. meet[<<i, f[i - 1]>>] = Meet(o, f[i - 1], q[i])
        BY <1>7, <4>1, <4>2
      <4>5. QED
        BY <3>2, <4>3, <4>4
    <3>3. QED
      BY <3>1, <3>2
  <2>2. PICK g : g = [i \in 0..n |-> IF i = 0 THEN base ELSE Meet(o, f[i - 1], q[i])]
    OBVIOUS
  <2>3. f = g
    <3>1. \A i \in 0..n : f[i] = g[i]
      BY <2>1, <2>2
    <3>2. QED
      BY <1>8, <2>2, <3>1 DEF Runs
  <2>4. QED
    BY <1>2, <2>2, <2>3 DEF Meets, Meet
<1>10. Meets(bk, o, s, q, c)
  BY <1>9
<1>11. c[0] = base /\ \A i \in 1..n : c[i] = Meet(o, c[i - 1], q[i])
  <2>1. PICK d : d = c
    OBVIOUS
  <2>2. \A i \in 0..n : d[i] = IF i = 0 THEN base ELSE Meet(o, d[i - 1], q[i])
    <3> SUFFICES ASSUME NEW i \in 0..n PROVE d[i] = IF i = 0 THEN base ELSE Meet(o, d[i - 1], q[i])
      OBVIOUS
    <3>1. i \in 0..Len(q)
      OBVIOUS
    <3>2. Meets(bk, o, s, q, d)
      BY <1>10, <2>1
    <3>3. d[i] = IF i = 0 THEN Untouched(bk, s) ELSE Meet(o, d[i - 1], q[i])
      BY <3>1, <3>2, MeetsIs
    <3>4. QED
      BY <1>2, <3>3
  <2>3. 0 \in 0..n /\ \A i \in 1..n : i \in 0..n /\ i # 0
    BY <1>1
  <2>4. QED
    BY <2>1, <2>2, <2>3
<1>12. PICK P : P = {i \in 0..n : c[i] \in Met(o, S, I, q, n, i)}
  OBVIOUS
<1>13. 0 \in P
  <2>1. 0 \in 0..n /\ c[0] = base
    BY <1>1, <1>11
  <2>2. QED
    BY <1>3, <1>12, <2>1
<1>14. \A i \in 1..n : i - 1 \in P => i \in P
  <2> SUFFICES ASSUME NEW i \in 1..n, i - 1 \in P PROVE i \in P
    OBVIOUS
  <2>1. i \in 0..n /\ c[i - 1] \in Met(o, S, I, q, n, i - 1)
    BY <1>1, <1>12
  <2>2. c[i] \in Met(o, S, I, q, n, i)
    BY <1>11, <2>1, MeetMet
  <2>3. QED
    BY <1>12, <2>1, <2>2
<1>15. \A i \in 0..n : i \in P
  BY <1>1, <1>13, <1>14, UpwardsTo
<1>16. n \in P
  BY <1>1, <1>15
<1>17. QED
  BY <1>12, <1>16

\* The levels of m's book, all among S, hold those of the orders I that are not
\* filled, and unless the taker is used up, none of them crosses o.
Leaves(m, I, S, o) ==
  /\ m.book \in Books /\ m.taker \in Nat /\ m.filled \subseteq Oid
  /\ m.book.oid_to_side_px = I /\ Stored(m.book.levels, I \ m.filled)
  /\ DOMAIN m.book.levels \subseteq S
  /\ m.taker = 0 \/ \A k \in DOMAIN m.book.levels : ~CrossedBy(o, k)

\* What is left of a book that an order has been matched against.
LEMMA MatchOrderLeaves ==
  ASSUME NEW bk \in Books, NEW I, I = bk.oid_to_side_px, Stored(bk.levels, I),
         NEW o \in Oid, NEW s \in Nat, NEW m, m = match_order(bk, o, s)
  PROVE  Leaves(m, I, DOMAIN bk.levels, o)
<1>1. PICK sd : sd = IF side[o] = "Ask" THEN "Bid" ELSE "Ask"
  OBVIOUS
<1>2. PICK q : q = BestFirst(bk, sd)
  OBVIOUS
<1>3. PICK n : n = Len(q)
  OBVIOUS
<1>4. /\ Lists(q, Len(q)) /\ \A i \in 1..Len(q) : q[i] \in DOMAIN bk.levels
      /\ \A l \in OnSide(bk.levels, sd) : \E i \in 1..Len(q) : q[i] = l
  <2>1. Lists(q, Len(q))
    BY <1>2, BestFirstPlaces
  <2>2. \A i \in 1..Len(q) : q[i] \in DOMAIN bk.levels
    BY <1>2, BestFirstPlaces
  <2>3. Covers(q, OnSide(bk.levels, sd))
    BY <1>2, BestFirstPlaces
  <2>4. QED
    BY <2>1, <2>2, <2>3 DEF Covers
<1>5. /\ Lists(q, n) /\ \A i \in 1..n : q[i] \in DOMAIN bk.levels
      /\ \A l \in OnSide(bk.levels, sd) : \E i \in 1..n : q[i] = l
  BY <1>3, <1>4
<1>6. PICK S : S = DOMAIN bk.levels
  OBVIOUS
<1>7. PICK c : c = CHOOSE f : Meets(bk, o, s, q, f)
  OBVIOUS
<1>8. c[n] \in Met(o, S, I, q, n, n)
  BY <1>3, <1>5, <1>6, <1>7, AllMet
<1>9. m = c[n]
  BY <1>1, <1>2, <1>3, <1>7, MatchOrderIs
<1>10. m \in Met(o, S, I, q, n, n)
  BY <1>8, <1>9
<1>11. /\ m.book \in Books /\ m.taker \in Nat /\ m.filled \subseteq Oid
       /\ m.book.oid_to_side_px = I /\ Stored(m.book.levels, I \ m.filled)
       /\ DOMAIN m.book.levels \subseteq S /\ Swept(o, m.book.levels, m.taker, q, n)
  BY <1>10 DEF Met
<1>12. ASSUME m.taker # 0, NEW k \in DOMAIN m.book.levels PROVE ~CrossedBy(o, k)
  <2> SUFFICES ASSUME CrossedBy(o, k) PROVE FALSE
    OBVIOUS
  <2>1. k \in DOMAIN bk.levels
    BY <1>6, <1>11
  <2>2. k[1] = sd
    <3>1. k \in Level
      BY <2>1, StandsAt
    <3>2. PICK p \in Oid : k = <<side[p], px[p]>>
      BY <3>1 DEF Level
    <3>3. k[1] = side[p] /\ side[p] \in {"Bid", "Ask"} /\ side[o] \in {"Bid", "Ask"}
      BY <3>2, OrdersAssumption
    <3>4. side[o] # k[1]
      BY DEF CrossedBy
    <3>5. QED
      BY <1>1, <3>3, <3>4
  <2>3. k \in OnSide(bk.levels, sd)
    BY <2>1, <2>2 DEF OnSide
  <2>4. PICK j \in 1..n : q[j] = k
    BY <1>5, <2>3
  <2>5. q[j] \notin DOMAIN m.book.levels
    BY <1>11, <1>12, <2>4 DEF Swept
  <2>6. QED
    BY <1>12, <2>4, <2>5
<1>13. QED
  BY <1>6, <1>11, <1>12 DEF Leaves

-----------------------------------------------------------------------------
(* The operations of a book.                                               *)

\* No bid among the levels is at or above an ask.
Uncrossed(S) == \A k, l \in S : k[1] = "Bid" /\ l[1] = "Ask" => k[2] < l[2]

\* The levels hold exactly the orders of the index, and do not cross.
BookInv(bk) == bk \in Books /\ Stored(bk.levels, bk.oid_to_side_px) /\ Uncrossed(DOMAIN bk.levels)

\* Fewer levels do not cross either.
LEMMA FewerUncrossed ==
  ASSUME NEW S, Uncrossed(S), NEW T, T \subseteq S
  PROVE  Uncrossed(T)
BY DEF Uncrossed

\* A level that crosses none of the others may join them.
LEMMA OneMoreUncrossed ==
  ASSUME NEW S \in SUBSET Level, Uncrossed(S), NEW o \in Oid, \A k \in S : ~CrossedBy(o, k)
  PROVE  Uncrossed(S \cup {LevelOf(o)})
<1>1. LevelOf(o)[1] = side[o] /\ LevelOf(o)[2] = px[o] /\ side[o] \in {"Bid", "Ask"} /\ px[o] \in Nat
  BY OrdersAssumption DEF LevelOf
<1>2. ASSUME NEW k \in S PROVE k[1] \in {"Bid", "Ask"} /\ k[2] \in Nat
  <2>1. PICK p \in Oid : k = <<side[p], px[p]>>
    BY DEF Level
  <2>2. k[1] = side[p] /\ k[2] = px[p]
    BY <2>1
  <2>3. QED
    BY <2>2, OrdersAssumption
<1>3. ASSUME NEW k \in S \cup {LevelOf(o)}, NEW l \in S \cup {LevelOf(o)}, k[1] = "Bid", l[1] = "Ask"
      PROVE  k[2] < l[2]
  <2>1. CASE k \in S /\ l \in S
    BY <1>3, <2>1 DEF Uncrossed
  <2>2. CASE k \in S /\ l = LevelOf(o)
    <3>1. side[o] = "Ask" /\ l[2] = px[o] /\ k[2] \in Nat
      BY <1>1, <1>2, <1>3, <2>2
    <3>2. ~(k[2] >= px[o])
      BY <1>3, <2>2, <3>1 DEF CrossedBy
    <3>3. QED
      BY <1>1, <3>1, <3>2
  <2>3. CASE k = LevelOf(o) /\ l \in S
    <3>1. side[o] = "Bid" /\ k[2] = px[o] /\ l[2] \in Nat
      BY <1>1, <1>2, <1>3, <2>3
    <3>2. ~(l[2] <= px[o])
      BY <1>3, <2>3, <3>1 DEF CrossedBy
    <3>3. QED
      BY <1>1, <3>1, <3>2
  <2>4. CASE k = LevelOf(o) /\ l = LevelOf(o)
    BY <1>3, <2>4
  <2>5. QED
    BY <2>1, <2>2, <2>3, <2>4
<1>4. QED
  BY <1>3 DEF Uncrossed

\* A book with another index.
LEMMA SetIndex ==
  ASSUME NEW bk \in Books, NEW v \in SUBSET Oid, NEW r, r = [bk EXCEPT !.oid_to_side_px = v]
  PROVE  r \in Books /\ r.oid_to_side_px = v /\ r.levels = bk.levels
BY DEF Books

\* The types of a book's fields.
LEMMA BookParts ==
  ASSUME NEW bk \in Books
  PROVE  bk.oid_to_side_px \subseteq Oid /\ bk.levels \in Maps(Level, LevelSet)
BY DEF Books

\* A level put back into the book.
LEMMA PutKeeps ==
  ASSUME NEW bk \in Books, NEW I, Stored(bk.levels, I), NEW o \in Oid, NEW lv, Good(lv), Live(lv),
         Uncrossed(DOMAIN bk.levels \cup {LevelOf(o)}),
         \A p : p \in bk.oid_to_side_px <=> (p \in I /\ LevelOf(p) # LevelOf(o)) \/ p \in DOMAIN lv.key_to_sid,
         \A p \in DOMAIN lv.key_to_sid : LevelOf(p) = LevelOf(o),
         NEW r, r = PutLevel(bk, LevelOf(o), lv)
  PROVE  BookInv(r) /\ r.oid_to_side_px = bk.oid_to_side_px
<1>1. PICK k, J, ls : k = LevelOf(o) /\ J = bk.oid_to_side_px /\ ls = bk.levels
  OBVIOUS
<1>2. k \in Level
  BY <1>1 DEF Level, LevelOf
<1>3. lv \in LevelSet
  BY GoodOids
<1>4. r = PutLevel(bk, k, lv)
  BY <1>1
<1>5. r \in Books /\ r.oid_to_side_px = J /\ r.levels = PutIn(ls, k, lv)
  <2>1. r \in Books /\ r.oid_to_side_px = bk.oid_to_side_px /\ r.levels = PutIn(bk.levels, k, lv)
    BY <1>2, <1>3, <1>4, PutLevelIs
  <2>2. QED
    BY <1>1, <2>1
<1>6. /\ Stored(ls, I) /\ \A p : p \in J <=> (p \in I /\ LevelOf(p) # k) \/ p \in DOMAIN lv.key_to_sid
      /\ \A p \in DOMAIN lv.key_to_sid : LevelOf(p) = k
  BY <1>1
<1>7. Stored(r.levels, J) /\ DOMAIN r.levels \subseteq DOMAIN ls \cup {k}
  BY <1>2, <1>5, <1>6, PutStored
<1>8. Uncrossed(DOMAIN r.levels)
  <2>1. PICK S : S = DOMAIN ls \cup {k}
    OBVIOUS
  <2>2. Uncrossed(S)
    BY <1>1, <2>1
  <2>3. DOMAIN r.levels \subseteq S
    BY <1>7, <2>1
  <2>4. QED
    BY <2>2, <2>3, FewerUncrossed
<1>9. QED
  BY <1>1, <1>5, <1>7, <1>8 DEF BookInv

\* The order is not in the index that the levels agree with, and is in the new one.
LEMMA AddToBookInv ==
  ASSUME NEW bk \in Books, NEW I, Stored(bk.levels, I), NEW o \in Oid, o \notin I,
         \A p : p \in bk.oid_to_side_px <=> p \in I \/ p = o, NEW s \in Nat, s # 0, NEW b,
         Uncrossed(DOMAIN bk.levels \cup {LevelOf(o)}),
         NEW r, r = add_order_to_book(bk, o, s, b)
  PROVE  BookInv(r) /\ r.oid_to_side_px = bk.oid_to_side_px
<1>1. PICK l : l = LevelAt(bk, o)
  OBVIOUS
<1>2. Good(l) /\ Live(l) /\ \A p : p \in DOMAIN l.key_to_sid <=> p \in I /\ LevelOf(p) = LevelOf(o)
  BY <1>1, LevelAtIs
<1>3. o \notin DOMAIN l.key_to_sid
  BY <1>2
<1>4. PICK v : v = IF b \in DOMAIN l.key_to_sid THEN insert_before(l, b, o, s) ELSE push_back(l, o, s)
  OBVIOUS
<1>5. Good(v) /\ Live(v) /\ \A p : p \in DOMAIN v.key_to_sid <=> p \in DOMAIN l.key_to_sid \/ p = o
  <2>1. CASE b \in DOMAIN l.key_to_sid
    <3>1. v = insert_before(l, b, o, s)
      BY <1>4, <2>1
    <3>2. QED
      BY <1>2, <1>3, <2>1, <3>1, InsertBeforeGood
  <2>2. CASE b \notin DOMAIN l.key_to_sid
    <3>1. v = push_back(l, o, s)
      BY <1>4, <2>2
    <3>2. QED
      BY <1>2, <1>3, <3>1, PushBackGood
  <2>3. QED
    BY <2>1, <2>2
<1>6. r = PutLevel(bk, LevelOf(o), v)
  BY <1>1, <1>4 DEF add_order_to_book
<1>7. \A p : p \in bk.oid_to_side_px <=> (p \in I /\ LevelOf(p) # LevelOf(o)) \/ p \in DOMAIN v.key_to_sid
  BY <1>2, <1>5
<1>8. \A p \in DOMAIN v.key_to_sid : LevelOf(p) = LevelOf(o)
  BY <1>2, <1>5
<1>9. QED
  BY <1>5, <1>6, <1>7, <1>8, PutKeeps

\* The level of an order that stands in the book is there already.
LEMMA StoredUncrossed ==
  ASSUME NEW ls, NEW I, Stored(ls, I), NEW o \in I, Uncrossed(DOMAIN ls)
  PROVE  Uncrossed(DOMAIN ls \cup {LevelOf(o)})
<1>1. PICK k \in DOMAIN ls : o \in DOMAIN ls[k].key_to_sid
  BY DEF Stored
<1>2. LevelOf(o) = k
  BY <1>1, StandsAt
<1>3. DOMAIN ls \cup {LevelOf(o)} = DOMAIN ls
  BY <1>2
<1>4. QED
  BY <1>3

\* add_order_before keeps the index and the levels in agreement: the filled
\* makers leave both, and what is left of the order enters both.
LEMMA AddOrderInv ==
  ASSUME NEW bk, BookInv(bk), NEW o \in Oid, NEW s \in Nat, NEW b, NEW r, r = add_order_before(bk, o, s, b).book
  PROVE  BookInv(r)
<1>1. PICK I : I = bk.oid_to_side_px
  OBVIOUS
<1>2. bk \in Books /\ Stored(bk.levels, I) /\ I \subseteq Oid /\ Uncrossed(DOMAIN bk.levels)
  <2>1. bk \in Books /\ Stored(bk.levels, bk.oid_to_side_px) /\ Uncrossed(DOMAIN bk.levels)
    BY DEF BookInv
  <2>2. QED
    BY <1>1, <2>1, BookParts
<1>3. CASE o \in I
  <2>1. r = bk
    BY <1>1, <1>3 DEF add_order_before
  <2>2. QED
    BY <2>1
<1>4. CASE o \notin I
  <2>1. PICK m : m = match_order(bk, o, s)
    OBVIOUS
  <2>2. PICK t : t = m.taker
    OBVIOUS
  <2>3. /\ m.book \in Books /\ m.taker \in Nat /\ m.filled \subseteq Oid
        /\ m.book.oid_to_side_px = I /\ Stored(m.book.levels, I \ m.filled)
        /\ DOMAIN m.book.levels \subseteq DOMAIN bk.levels
        /\ m.taker = 0 \/ \A k \in DOMAIN m.book.levels : ~CrossedBy(o, k)
    <3>1. Leaves(m, I, DOMAIN bk.levels, o)
      BY <1>1, <1>2, <2>1, MatchOrderLeaves
    <3>2. QED
      BY <3>1 DEF Leaves
  <2>4. PICK X : X = I \ m.filled
    OBVIOUS
  <2>5. PICK f : f = Filled(m)
    OBVIOUS
  <2>6. /\ f \in Books /\ f.oid_to_side_px = X /\ Stored(f.levels, X) /\ X \subseteq Oid /\ o \notin X
        /\ f.levels = m.book.levels
    <3>1. f = [m.book EXCEPT !.oid_to_side_px = X]
      BY <2>3, <2>4, <2>5 DEF Filled
    <3>2. X \in SUBSET Oid
      BY <1>2, <2>4
    <3>3. f \in Books /\ f.oid_to_side_px = X /\ f.levels = m.book.levels
      <4>1. m.book \in Books
        BY <2>3
      <4>2. QED
        BY <3>1, <3>2, <4>1, SetIndex
    <3>4. QED
      BY <1>4, <2>3, <2>4, <3>2, <3>3
  <2>7. Uncrossed(DOMAIN f.levels)
    BY <1>2, <2>3, <2>6, FewerUncrossed
  <2>8. CASE t = 0
    <3>1. r = f
      BY <1>1, <1>4, <2>1, <2>2, <2>5, <2>8 DEF add_order_before
    <3>2. QED
      BY <2>6, <2>7, <3>1 DEF BookInv
  <2>9. CASE t # 0
    <3>1. PICK Y : Y = X \cup {o}
      OBVIOUS
    <3>2. PICK g : g = [f EXCEPT !.oid_to_side_px = Y]
      OBVIOUS
    <3>3. Y \in SUBSET Oid
      BY <2>6, <3>1
    <3>4. g \in Books /\ g.oid_to_side_px = Y /\ g.levels = f.levels
      BY <2>6, <3>2, <3>3, SetIndex
    <3>5. r = add_order_to_book(g, o, t, b)
      <4>1. g = [f EXCEPT !.oid_to_side_px = @ \cup {o}]
        BY <2>6, <3>1, <3>2
      <4>2. QED
        BY <1>1, <1>4, <2>1, <2>2, <2>5, <2>9, <4>1 DEF add_order_before
    <3>6. t \in Nat /\ t # 0
      BY <2>2, <2>3, <2>9
    <3>7. Stored(g.levels, X) /\ \A p : p \in g.oid_to_side_px <=> p \in X \/ p = o
      BY <2>6, <3>1, <3>4
    <3>8. Uncrossed(DOMAIN g.levels \cup {LevelOf(o)})
      <4>1. PICK S : S = DOMAIN f.levels
        OBVIOUS
      <4>2. S \in SUBSET Level
        <5>1. f.levels \in Maps(Level, LevelSet)
          BY <2>6, BookParts
        <5>2. QED
          BY <4>1, <5>1, MapIs
      <4>3. Uncrossed(S) /\ \A k \in S : ~CrossedBy(o, k)
        BY <2>2, <2>3, <2>6, <2>7, <2>9, <4>1
      <4>4. Uncrossed(S \cup {LevelOf(o)})
        BY <4>2, <4>3, OneMoreUncrossed
      <4>5. QED
        BY <3>4, <4>1, <4>4
    <3>9. BookInv(r) /\ r.oid_to_side_px = g.oid_to_side_px
      BY <2>6, <3>4, <3>5, <3>6, <3>7, <3>8, AddToBookInv
    <3>10. QED
      BY <3>9
  <2>10. QED
    BY <2>8, <2>9
<1>5. QED
  BY <1>3, <1>4

\* cancel_order keeps the index and the levels in agreement.
LEMMA CancelInv ==
  ASSUME NEW bk, BookInv(bk), NEW o \in Oid, NEW r, r = cancel_order(bk, o)
  PROVE  BookInv(r)
<1>1. PICK I : I = bk.oid_to_side_px
  OBVIOUS
<1>2. bk \in Books /\ Stored(bk.levels, I) /\ I \subseteq Oid /\ Uncrossed(DOMAIN bk.levels)
  <2>1. bk \in Books /\ Stored(bk.levels, bk.oid_to_side_px) /\ Uncrossed(DOMAIN bk.levels)
    BY DEF BookInv
  <2>2. QED
    BY <1>1, <2>1, BookParts
<1>3. CASE o \notin I
  <2>1. r = bk
    BY <1>1, <1>3 DEF cancel_order
  <2>2. QED
    BY <2>1
<1>4. CASE o \in I
  <2>1. PICK Y : Y = I \ {o}
    OBVIOUS
  <2>2. PICK g : g = [bk EXCEPT !.oid_to_side_px = Y]
    OBVIOUS
  <2>3. g \in Books /\ g.oid_to_side_px = Y /\ g.levels = bk.levels
    <3>1. Y \in SUBSET Oid
      BY <1>2, <2>1
    <3>2. QED
      BY <1>2, <2>2, <3>1, SetIndex
  <2>4. PICK l : l = LevelAt(bk, o)
    OBVIOUS
  <2>5. Good(l) /\ Live(l) /\ \A p : p \in DOMAIN l.key_to_sid <=> p \in I /\ LevelOf(p) = LevelOf(o)
    BY <1>2, <2>4, LevelAtIs
  <2>6. PICK v : v = remove(l, o)
    OBVIOUS
  <2>7. Good(v) /\ Live(v) /\ \A p : p \in DOMAIN v.key_to_sid <=> p \in DOMAIN l.key_to_sid /\ p # o
    <3>1. o \in DOMAIN l.key_to_sid
      BY <1>4, <2>5
    <3>2. QED
      BY <2>5, <2>6, <3>1, RemoveGood
  <2>8. r = PutLevel(g, LevelOf(o), v)
    BY <1>1, <1>4, <2>1, <2>2, <2>4, <2>6 DEF cancel_order
  <2>9. \A p : p \in g.oid_to_side_px <=> (p \in I /\ LevelOf(p) # LevelOf(o)) \/ p \in DOMAIN v.key_to_sid
    BY <2>1, <2>3, <2>5, <2>7
  <2>10. \A p \in DOMAIN v.key_to_sid : LevelOf(p) = LevelOf(o)
    BY <2>5, <2>7
  <2>11. Stored(g.levels, I)
    BY <1>2, <2>3
  <2>12. g \in Books /\ Good(v) /\ Live(v)
    BY <2>3, <2>7
  <2>13. Uncrossed(DOMAIN g.levels \cup {LevelOf(o)})
    <3>1. PICK ls : ls = bk.levels
      OBVIOUS
    <3>2. Stored(ls, I) /\ Uncrossed(DOMAIN ls)
      BY <1>2, <3>1
    <3>3. Uncrossed(DOMAIN ls \cup {LevelOf(o)})
      BY <1>4, <3>2, StoredUncrossed
    <3>4. QED
      BY <2>3, <3>1, <3>3
  <2>14. QED
    BY <2>8, <2>9, <2>10, <2>11, <2>12, <2>13, PutKeeps
<1>5. QED
  BY <1>3, <1>4

\* modify_sz keeps the index and the levels in agreement.
LEMMA ModifyInv ==
  ASSUME NEW bk, BookInv(bk), NEW o \in Oid, NEW s \in Nat, NEW r, r = modify_sz(bk, o, s)
  PROVE  BookInv(r)
<1>1. PICK I : I = bk.oid_to_side_px
  OBVIOUS
<1>2. bk \in Books /\ Stored(bk.levels, I) /\ I \subseteq Oid /\ Uncrossed(DOMAIN bk.levels)
  <2>1. bk \in Books /\ Stored(bk.levels, bk.oid_to_side_px) /\ Uncrossed(DOMAIN bk.levels)
    BY DEF BookInv
  <2>2. QED
    BY <1>1, <2>1, BookParts
<1>3. CASE s = 0
  <2>1. r = cancel_order(bk, o)
    BY <1>3 DEF modify_sz
  <2>2. QED
    BY <2>1, CancelInv
<1>4. CASE s # 0 /\ o \notin I
  <2>1. r = bk
    BY <1>1, <1>4 DEF modify_sz
  <2>2. QED
    BY <2>1
<1>5. CASE s # 0 /\ o \in I
  <2>1. PICK l : l = LevelAt(bk, o)
    OBVIOUS
  <2>2. Good(l) /\ Live(l) /\ \A p : p \in DOMAIN l.key_to_sid <=> p \in I /\ LevelOf(p) = LevelOf(o)
    BY <1>2, <2>1, LevelAtIs
  <2>3. PICK v : v = modify_order_sz(l, o, s)
    OBVIOUS
  <2>4. Good(v) /\ Live(v) /\ SameOids(v, l)
    <3>1. o \in DOMAIN l.key_to_sid
      BY <1>5, <2>2
    <3>2. QED
      BY <1>5, <2>2, <2>3, <3>1, ModifyGood
  <2>5. r = PutLevel(bk, LevelOf(o), v)
    BY <1>1, <1>5, <2>1, <2>3 DEF modify_sz
  <2>6. \A p : p \in bk.oid_to_side_px <=> (p \in I /\ LevelOf(p) # LevelOf(o)) \/ p \in DOMAIN v.key_to_sid
    BY <1>1, <2>2, <2>4 DEF SameOids
  <2>7. \A p \in DOMAIN v.key_to_sid : LevelOf(p) = LevelOf(o)
    BY <2>2, <2>4 DEF SameOids
  <2>8. Uncrossed(DOMAIN bk.levels \cup {LevelOf(o)})
    BY <1>2, <1>5, StoredUncrossed
  <2>9. QED
    BY <1>2, <2>4, <2>5, <2>6, <2>7, <2>8, PutKeeps
<1>6. QED
  BY <1>3, <1>4, <1>5

\* Every level compacted.
LEMMA CompactInv ==
  ASSUME NEW bk, BookInv(bk), NEW r, r = [bk EXCEPT !.levels = [k \in DOMAIN @ |-> compact(@[k])]]
  PROVE  BookInv(r) /\ r.oid_to_side_px = bk.oid_to_side_px
<1>1. PICK I, ls : I = bk.oid_to_side_px /\ ls = bk.levels
  OBVIOUS
<1>2. bk \in Books /\ Stored(ls, I) /\ Uncrossed(DOMAIN ls)
  BY <1>1 DEF BookInv
<1>3. PICK L : L = [k \in DOMAIN ls |-> compact(ls[k])]
  OBVIOUS
<1>4. r = [bk EXCEPT !.levels = L]
  BY <1>1, <1>3
<1>5. /\ ls \in Maps(Level, LevelSet) /\ IsFiniteSet(DOMAIN ls) /\ I \subseteq Oid
      /\ \A k \in DOMAIN ls : Fits(ls[k], k)
      /\ \A o : o \in I <=> \E k \in DOMAIN ls : o \in DOMAIN ls[k].key_to_sid
  BY <1>2 DEF Stored
<1>6. ASSUME NEW k \in DOMAIN ls PROVE L[k] \in LevelSet /\ Fits(L[k], k) /\ SameOids(L[k], ls[k])
  <2>1. PICK l, v : l = ls[k] /\ v = compact(l)
    OBVIOUS
  <2>2. Good(l) /\ Live(l) /\ ~IsEmpty(l) /\ \A o \in DOMAIN l.key_to_sid : LevelOf(o) = k
    BY <1>5, <2>1 DEF Fits
  <2>3. Good(v) /\ Live(v) /\ SameOids(v, l)
    BY <2>1, <2>2, CompactGood
  <2>4. v \in LevelSet /\ (IsEmpty(v) <=> \A o : o \notin DOMAIN v.key_to_sid)
    BY <2>3, GoodOids
  <2>5. IsEmpty(l) <=> \A o : o \notin DOMAIN l.key_to_sid
    BY <2>2, GoodOids
  <2>6. ~IsEmpty(v) /\ \A o \in DOMAIN v.key_to_sid : LevelOf(o) = k
    BY <2>2, <2>3, <2>4, <2>5 DEF SameOids
  <2>7. L[k] = v
    BY <1>3, <2>1
  <2>8. QED
    BY <2>1, <2>3, <2>4, <2>6, <2>7 DEF Fits
<1>7. DOMAIN L = DOMAIN ls
  BY <1>3
<1>8. L \in Maps(Level, LevelSet)
  <2>1. DOMAIN ls \subseteq Level
    BY <1>5, MapIs
  <2>2. L \in [DOMAIN L -> LevelSet]
    BY <1>3, <1>6
  <2>3. DOMAIN L \subseteq Level
    BY <1>7, <2>1
  <2>4. QED
    BY <2>2, <2>3, MapIs
<1>9. Stored(L, I)
  <2>1. IsFiniteSet(DOMAIN L) /\ \A k \in DOMAIN L : Fits(L[k], k)
    BY <1>5, <1>6, <1>7
  <2>2. \A o : o \in I <=> \E k \in DOMAIN L : o \in DOMAIN L[k].key_to_sid
    BY <1>5, <1>6, <1>7 DEF SameOids
  <2>3. QED
    BY <1>5, <1>8, <2>1, <2>2 DEF Stored
<1>10. r \in Books /\ r.levels = L /\ r.oid_to_side_px = I
  BY <1>1, <1>2, <1>4, <1>8 DEF Books
<1>11. QED
  BY <1>1, <1>2, <1>7, <1>9, <1>10 DEF BookInv

-----------------------------------------------------------------------------
(* The dump of a book, and the book built from it.                         *)

\* f joins the first i of the sequences.
Joins(seqs, f) == f = [i \in 1..Len(seqs) |-> IF i = 1 THEN seqs[i] ELSE f[i - 1] \o seqs[i]]

\* The joined sequences are the last of the joins.
LEMMA FlattenIs ==
  ASSUME NEW seqs
  PROVE  SX!FlattenSeq(seqs) =
           IF Len(seqs) = 0 THEN seqs ELSE (CHOOSE f : Joins(seqs, f))[Len(seqs)]
BY DEF SX!FlattenSeq, Joins

\* The joins, step by step.
LEMMA JoinsIs ==
  ASSUME NEW seqs, NEW f, Joins(seqs, f), NEW i \in 1..Len(seqs)
  PROVE  f[i] = IF i = 1 THEN seqs[i] ELSE f[i - 1] \o seqs[i]
BY DEF Joins

\* The recursion that defines the joins has a solution.
LEMMA CanJoin ==
  ASSUME NEW T, NEW seqs, NEW n \in Nat, n = Len(seqs), \A i \in 1..n : seqs[i] \in Seq(T)
  PROVE  \E f : Joins(seqs, f)
<1>1. PICK base : base = <<>>
  OBVIOUS
<1>2. PICK V : V = [i \in 0..n |-> Seq(T)]
  OBVIOUS
<1>3. PICK join : join = [z \in (1..n) \X Seq(T) |-> IF z[1] = 1 THEN seqs[z[1]] ELSE z[2] \o seqs[z[1]]]
  OBVIOUS
<1>4. ASSUME NEW i \in 1..n, NEW v \in Seq(T)
      PROVE  join[<<i, v>>] = (IF i = 1 THEN seqs[i] ELSE v \o seqs[i]) /\ join[<<i, v>>] \in Seq(T)
  <2>1. <<i, v>> \in (1..n) \X Seq(T)
    OBVIOUS
  <2>2. join[<<i, v>>] = IF i = 1 THEN seqs[i] ELSE v \o seqs[i]
    BY <1>3, <2>1
  <2>3. seqs[i] \in Seq(T)
    OBVIOUS
  <2>4. v \o seqs[i] \in Seq(T)
    BY <2>3
  <2>5. QED
    BY <2>2, <2>3, <2>4
<1>5. PICK f : Runs(n, base, join, f) /\ \A i \in 0..n : f[i] \in V[i]
  <2>1. base \in V[0]
    BY <1>1, <1>2
  <2>2. \A i \in 1..n : \A v \in V[i - 1] : join[<<i, v>>] \in V[i]
    <3> SUFFICES ASSUME NEW i \in 1..n, NEW v \in V[i - 1] PROVE join[<<i, v>>] \in V[i]
      OBVIOUS
    <3>1. V[i - 1] = Seq(T) /\ V[i] = Seq(T)
      BY <1>2
    <3>2. QED
      BY <1>4, <3>1
  <2>3. QED
    BY <2>1, <2>2, Recursion
<1>6. PICK g : g = [i \in 1..n |-> f[i]]
  OBVIOUS
<1>7. ASSUME NEW i \in 1..n PROVE g[i] = IF i = 1 THEN seqs[i] ELSE g[i - 1] \o seqs[i]
  <2>1. i \in 0..n /\ i - 1 \in 0..n /\ i # 0
    OBVIOUS
  <2>2. f[i - 1] \in Seq(T)
    BY <1>2, <1>5, <2>1
  <2>3. f[i] = join[<<i, f[i - 1]>>]
    BY <1>5, <2>1 DEF Runs
  <2>4. f[i] = IF i = 1 THEN seqs[i] ELSE f[i - 1] \o seqs[i]
    BY <1>4, <2>2, <2>3
  <2>5. CASE i = 1
    BY <1>6, <2>4, <2>5
  <2>6. CASE i # 1
    <3>1. i - 1 \in 1..n
      BY <2>6
    <3>2. g[i - 1] = f[i - 1]
      BY <1>6, <3>1
    <3>3. QED
      BY <1>6, <2>4, <2>6, <3>2
  <2>7. QED
    BY <2>5, <2>6
<1>8. PICK h : h = [i \in 1..n |-> IF i = 1 THEN seqs[i] ELSE g[i - 1] \o seqs[i]]
  OBVIOUS
<1>9. g = h
  <2>1. \A i \in 1..n : g[i] = h[i]
    BY <1>7, <1>8
  <2>2. QED
    BY <1>6, <1>8, <2>1
<1>10. Joins(seqs, g)
  BY <1>8, <1>9 DEF Joins
<1>11. QED
  BY <1>10

\* Sequences over T joined are a sequence over T.
LEMMA FlattenSeqOf ==
  ASSUME NEW T, NEW seqs \in Seq(Seq(T))
  PROVE  SX!FlattenSeq(seqs) \in Seq(T)
<1>1. PICK n \in Nat : n = Len(seqs)
  OBVIOUS
<1>2. \A i \in 1..n : seqs[i] \in Seq(T)
  BY <1>1
<1>3. CASE n = 0
  <2>1. SX!FlattenSeq(seqs) = seqs
    BY <1>1, <1>3, FlattenIs
  <2>2. seqs \in [1..n -> Seq(T)]
    BY <1>1
  <2>3. seqs \in [1..0 -> Seq(T)]
    BY <1>3, <2>2
  <2>4. seqs \in [1..0 -> T]
    <3>1. \A i \in 1..0 : seqs[i] \in T
      OBVIOUS
    <3>2. QED
      BY <2>3, <3>1
  <2>5. seqs \in Seq(T)
    BY <2>4
  <2>6. QED
    BY <2>1, <2>5
<1>4. CASE n # 0
  <2>1. PICK c : c = CHOOSE f : Joins(seqs, f)
    OBVIOUS
  <2>2. Joins(seqs, c)
    <3>1. \E f : Joins(seqs, f)
      BY <1>1, <1>2, CanJoin
    <3>2. QED
      BY <2>1, <3>1
  <2>3. \A i \in 1..n : c[i] = IF i = 1 THEN seqs[i] ELSE c[i - 1] \o seqs[i]
    BY <1>1, <2>2, JoinsIs
  <2>4. PICK P : P = {i \in 0..n : i = 0 \/ c[i] \in Seq(T)}
    OBVIOUS
  <2>5. 0 \in P
    BY <2>4
  <2>6. \A i \in 1..n : i - 1 \in P => i \in P
    <3> SUFFICES ASSUME NEW i \in 1..n, i - 1 \in P PROVE i \in P
      OBVIOUS
    <3>1. CASE i = 1
      <4>1. c[i] = seqs[i]
        BY <2>3, <3>1
      <4>2. c[i] \in Seq(T) /\ i \in 0..n
        BY <1>2, <4>1
      <4>3. QED
        BY <2>4, <4>2
    <3>2. CASE i # 1
      <4>1. c[i - 1] \in Seq(T)
        BY <2>4, <3>2
      <4>2. c[i] = c[i - 1] \o seqs[i] /\ seqs[i] \in Seq(T)
        BY <1>2, <2>3, <3>2
      <4>3. c[i] \in Seq(T) /\ i \in 0..n
        BY <4>1, <4>2
      <4>4. QED
        BY <2>4, <4>3
    <3>3. QED
      BY <3>1, <3>2
  <2>7. \A i \in 0..n : i \in P
    BY <2>5, <2>6, UpwardsTo
  <2>8. c[n] \in Seq(T)
    <3>1. n \in 0..n
      OBVIOUS
    <3>2. n \in P
      BY <2>7, <3>1
    <3>3. QED
      BY <1>4, <2>4, <3>2
  <2>9. SX!FlattenSeq(seqs) = c[n]
    BY <1>1, <1>4, <2>1, FlattenIs
  <2>10. QED
    BY <2>8, <2>9
<1>5. QED
  BY <1>3, <1>4

\* Some number up to n that is in S is the largest one there.
LEMMA MaxIs ==
  ASSUME NEW n \in Nat, NEW S \in SUBSET (1..n), S # {}
  PROVE  Max(S) \in 1..n
<1>1. PICK P : P = {i \in 0..n : (\E k \in S : k <= i) => \E x \in S : \A y \in S : y <= i => x >= y}
  OBVIOUS
<1>2. 0 \in P
  BY <1>1
<1>3. \A i \in 1..n : i - 1 \in P => i \in P
  <2> SUFFICES ASSUME NEW i \in 1..n, i - 1 \in P PROVE i \in P
    OBVIOUS
  <2>1. CASE i \in S
    <3>1. \A y \in S : y <= i => i >= y
      OBVIOUS
    <3>2. i \in 0..n
      OBVIOUS
    <3>3. QED
      BY <1>1, <2>1, <3>1, <3>2
  <2>2. CASE i \notin S
    <3>1. \A y \in S : y <= i <=> y <= i - 1
      BY <2>2
    <3>2. (\E k \in S : k <= i - 1) => \E x \in S : \A y \in S : y <= i - 1 => x >= y
      BY <1>1
    <3>3. (\E k \in S : k <= i) => \E x \in S : \A y \in S : y <= i => x >= y
      BY <3>1, <3>2
    <3>4. i \in 0..n
      OBVIOUS
    <3>5. QED
      BY <1>1, <3>3, <3>4
  <2>3. QED
    BY <2>1, <2>2
<1>4. \A i \in 0..n : i \in P
  BY <1>2, <1>3, UpwardsTo
<1>5. n \in P
  <2>1. n \in 0..n
    OBVIOUS
  <2>2. QED
    BY <1>4, <2>1
<1>6. (\E k \in S : k <= n) => \E x \in S : \A y \in S : y <= n => x >= y
  BY <1>1, <1>5
<1>7. \E x \in S : \A y \in S : x >= y
  <2>1. PICK k : k \in S
    OBVIOUS
  <2>2. k <= n /\ \A y \in S : y <= n
    BY <2>1
  <2>3. QED
    BY <1>6, <2>1, <2>2
<1>8. Max(S) \in S
  BY <1>7 DEF Max
<1>9. QED
  BY <1>8

\* What is left of a dump's side without the stop orders is a sequence of nodes.
LEMMA WithoutTriggersIs ==
  ASSUME NEW s \in Seq(Node), NEW other
  PROVE  WithoutTriggers(s, other) \in Seq(Node)
<1>1. PICK n \in Nat : n = Len(s) /\ DOMAIN s = 1..n
  OBVIOUS
<1>2. PICK kept : kept = {i \in DOMAIN s : ~\E j \in DOMAIN other : other[j].key = s[i].key}
  OBVIOUS
<1>3. WithoutTriggers(s, other) = IF kept = {} THEN <<>> ELSE SubSeq(s, 1, Max(kept))
  BY <1>2 DEF WithoutTriggers
<1>4. CASE kept = {}
  BY <1>3, <1>4
<1>5. CASE kept # {}
  <2>1. kept \in SUBSET (1..n)
    BY <1>1, <1>2
  <2>2. PICK m \in 1..n : m = Max(kept)
    BY <1>5, <2>1, MaxIs
  <2>3. \A i \in 1..m : s[i] \in Node
    BY <1>1
  <2>4. SubSeq(s, 1, m) \in Seq(Node)
    BY <1>1
  <2>5. QED
    BY <1>3, <1>5, <2>2, <2>4
<1>6. QED
  BY <1>4, <1>5

\* f is the run of additions of the orders all.
Builds(all, f) ==
  f = [i \in 0..Len(all) |->
         IF i = 0 THEN NewBook
         ELSE add_order_before(f[i - 1], all[i].key, all[i].sz, NoOid).book]

\* from_snapshot is the last of the additions.
LEMMA FromSnapshotIs ==
  ASSUME NEW bids, NEW asks, NEW all, all = WithoutTriggers(bids, asks) \o WithoutTriggers(asks, bids)
  PROVE  from_snapshot(bids, asks) = (CHOOSE f : Builds(all, f))[Len(all)]
BY DEF from_snapshot, Builds

\* The additions, step by step.
LEMMA BuildsIs ==
  ASSUME NEW all, NEW f, Builds(all, f), NEW i \in 0..Len(all)
  PROVE  f[i] = IF i = 0 THEN NewBook ELSE add_order_before(f[i - 1], all[i].key, all[i].sz, NoOid).book
BY DEF Builds

\* A new book is empty in its index and its levels.
LEMMA NewBookInv == BookInv(NewBook)
<1>1. PICK bk : bk = NewBook
  OBVIOUS
<1>2. PICK e : e = <<>>
  OBVIOUS
<1>3. DOMAIN e = {}
  BY <1>2
<1>4. bk = [oid_to_side_px |-> {}, levels |-> e]
  BY <1>1, <1>2 DEF NewBook
<1>5. e \in Maps(Level, LevelSet)
  <2>1. e \in [DOMAIN e -> LevelSet] /\ DOMAIN e \subseteq Level
    BY <1>2, <1>3
  <2>2. QED
    BY <2>1, MapIs
<1>6. bk \in Books /\ bk.levels = e /\ bk.oid_to_side_px = {}
  BY <1>4, <1>5 DEF Books
<1>7. Stored(e, {})
  BY <1>3, <1>5, FS_EmptySet DEF Stored
<1>8. Uncrossed(DOMAIN e)
  BY <1>3 DEF Uncrossed
<1>9. QED
  BY <1>1, <1>6, <1>7, <1>8 DEF BookInv

GoodBooks == {bk \in Books : BookInv(bk)}

\* A book built from any sequence of nodes has its index and its levels in
\* agreement.
LEMMA BuiltInv ==
  ASSUME NEW all \in Seq(Node), NEW c, c = CHOOSE f : Builds(all, f)
  PROVE  BookInv(c[Len(all)])
<1>1. PICK n \in Nat : n = Len(all) /\ \A i \in 1..n : all[i] \in Node
  OBVIOUS
<1>2. PICK base : base = NewBook
  OBVIOUS
<1>3. base \in GoodBooks
  BY <1>2, NewBookInv DEF GoodBooks, BookInv
<1>4. PICK V : V = [i \in 0..n |-> GoodBooks]
  OBVIOUS
<1>5. PICK add : add = [z \in (1..n) \X GoodBooks |-> add_order_before(z[2], all[z[1]].key, all[z[1]].sz, NoOid).book]
  OBVIOUS
<1>6. ASSUME NEW i \in 1..n, NEW v \in GoodBooks
      PROVE  /\ add[<<i, v>>] = add_order_before(v, all[i].key, all[i].sz, NoOid).book
             /\ add_order_before(v, all[i].key, all[i].sz, NoOid).book \in GoodBooks
  <2>1. <<i, v>> \in (1..n) \X GoodBooks
    OBVIOUS
  <2>2. add[<<i, v>>] = add_order_before(v, all[i].key, all[i].sz, NoOid).book
    BY <1>5, <2>1
  <2>3. PICK r, o, s : o = all[i].key /\ s = all[i].sz /\ r = add_order_before(v, o, s, NoOid).book
    OBVIOUS
  <2>4. o \in Oid /\ s \in Nat /\ BookInv(v)
    BY <1>1, <2>3, NodeTypes DEF GoodBooks
  <2>5. BookInv(r)
    BY <2>3, <2>4, AddOrderInv
  <2>6. r \in GoodBooks
    BY <2>5 DEF GoodBooks, BookInv
  <2>7. QED
    BY <2>2, <2>3, <2>6
<1>7. PICK f : Runs(n, base, add, f) /\ \A i \in 0..n : f[i] \in V[i]
  <2>1. base \in V[0]
    BY <1>3, <1>4
  <2>2. \A i \in 1..n : \A v \in V[i - 1] : add[<<i, v>>] \in V[i]
    <3> SUFFICES ASSUME NEW i \in 1..n, NEW v \in V[i - 1] PROVE add[<<i, v>>] \in V[i]
      OBVIOUS
    <3>1. V[i - 1] = GoodBooks /\ V[i] = GoodBooks
      BY <1>4
    <3>2. QED
      BY <1>6, <3>1
  <2>3. QED
    BY <2>1, <2>2, Recursion
<1>8. Builds(all, f)
  <2>1. ASSUME NEW i \in 0..n
        PROVE  f[i] = IF i = 0 THEN base ELSE add_order_before(f[i - 1], all[i].key, all[i].sz, NoOid).book
    <3>1. CASE i = 0
      BY <1>7, <3>1 DEF Runs
    <3>2. CASE i # 0
      <4>1. i \in 1..n /\ i - 1 \in 0..n
        BY <3>2
      <4>2. f[i - 1] \in GoodBooks
        BY <1>4, <1>7, <4>1
      <4>3. f[i] = add[<<i, f[i - 1]>>]
        BY <1>7, <3>2 DEF Runs
      <4>4. add[<<i, f[i - 1]>>] = add_order_before(f[i - 1], all[i].key, all[i].sz, NoOid).book
        BY <1>6, <4>1, <4>2
      <4>5. QED
        BY <3>2, <4>3, <4>4
    <3>3. QED
      BY <3>1, <3>2
  <2>2. PICK g : g = [i \in 0..n |-> IF i = 0 THEN base
                                     ELSE add_order_before(f[i - 1], all[i].key, all[i].sz, NoOid).book]
    OBVIOUS
  <2>3. f = g
    <3>1. \A i \in 0..n : f[i] = g[i]
      BY <2>1, <2>2
    <3>2. QED
      BY <1>7, <2>2, <3>1 DEF Runs
  <2>4. QED
    BY <1>1, <1>2, <2>2, <2>3 DEF Builds
<1>9. Builds(all, c)
  BY <1>8
<1>10. \A i \in 0..n : c[i] = IF i = 0 THEN base ELSE add_order_before(c[i - 1], all[i].key, all[i].sz, NoOid).book
  BY <1>1, <1>2, <1>9, BuildsIs
<1>11. PICK P : P = {i \in 0..n : c[i] \in GoodBooks}
  OBVIOUS
<1>12. 0 \in P
  <2>1. 0 \in 0..n /\ c[0] = base
    BY <1>10
  <2>2. QED
    BY <1>3, <1>11, <2>1
<1>13. \A i \in 1..n : i - 1 \in P => i \in P
  <2> SUFFICES ASSUME NEW i \in 1..n, i - 1 \in P PROVE i \in P
    OBVIOUS
  <2>1. i \in 0..n /\ i # 0 /\ c[i - 1] \in GoodBooks
    BY <1>11
  <2>2. c[i] = add_order_before(c[i - 1], all[i].key, all[i].sz, NoOid).book
    BY <1>10, <2>1
  <2>3. c[i] \in GoodBooks
    BY <1>6, <2>1, <2>2
  <2>4. QED
    BY <1>11, <2>1, <2>3
<1>14. \A i \in 0..n : i \in P
  BY <1>12, <1>13, UpwardsTo
<1>15. n \in P
  BY <1>14
<1>16. QED
  BY <1>1, <1>11, <1>15 DEF GoodBooks

\* A dump is a sequence of nodes.
LEMMA DumpIs ==
  ASSUME BookInv(book), NEW sd, NEW lo, NEW hi
  PROVE  to_snapshot_in_band(sd, lo, hi) \in Seq(Node)
<1>1. PICK q : q = BestFirst(book, sd)
  OBVIOUS
<1>2. Stored(book.levels, book.oid_to_side_px)
  BY DEF BookInv
<1>3. q \in Seq(Level) /\ \A i \in 1..Len(q) : q[i] \in DOMAIN book.levels
  BY <1>1, <1>2, BestFirstPlaces
<1>4. PICK n \in Nat : n = Len(q) /\ DOMAIN q = 1..n
  BY <1>3
<1>5. PICK os : os = [k \in DOMAIN book.levels |->
                        [j \in DOMAIN Slots(book.levels[k]) |-> book.levels[k].slab[Slots(book.levels[k])[j]]]]
  OBVIOUS
<1>6. ASSUME NEW k \in DOMAIN book.levels PROVE os[k] \in Seq(Node)
  <2>1. PICK l : l = book.levels[k]
    OBVIOUS
  <2>2. Good(l)
    BY <1>2, <2>1, StandsAt
  <2>3. PICK w, m : Shape(l, w, m)
    BY <2>2 DEF Good, Linked
  <2>4. Slots(l) = w
    BY <2>3, SlotsWalk
  <2>5. m \in Nat /\ DOMAIN w = 1..m /\ \A j \in 1..m : l.slab[w[j]] \in Node
    BY <2>3 DEF Shape, Cells
  <2>6. os[k] = [j \in 1..m |-> l.slab[w[j]]]
    BY <1>5, <2>1, <2>4, <2>5
  <2>7. QED
    BY <2>5, <2>6
<1>7. PICK S : S = [i \in DOMAIN q |-> IF q[i][2] \in lo..hi THEN os[q[i]] ELSE <<>>]
  OBVIOUS
<1>8. S \in Seq(Seq(Node))
  <2>1. ASSUME NEW i \in 1..n PROVE S[i] \in Seq(Node)
    <3>1. os[q[i]] \in Seq(Node)
      BY <1>3, <1>4, <1>6
    <3>2. S[i] = IF q[i][2] \in lo..hi THEN os[q[i]] ELSE <<>>
      BY <1>4, <1>7
    <3>3. QED
      BY <3>1, <3>2
  <2>2. S \in [1..n -> Seq(Node)]
    BY <1>4, <1>7, <2>1
  <2>3. QED
    BY <2>2
<1>9. to_snapshot_in_band(sd, lo, hi) = SX!FlattenSeq(S)
  <2>1. \A i \in DOMAIN q : os[q[i]] = [j \in DOMAIN Slots(book.levels[q[i]]) |->
                                         book.levels[q[i]].slab[Slots(book.levels[q[i]])[j]]]
    BY <1>3, <1>4, <1>5
  <2>2. PICK R : R = [i \in DOMAIN q |->
                        IF q[i][2] \in lo..hi
                          THEN [j \in DOMAIN Slots(book.levels[q[i]]) |->
                                  book.levels[q[i]].slab[Slots(book.levels[q[i]])[j]]]
                          ELSE <<>>]
    OBVIOUS
  <2>3. to_snapshot_in_band(sd, lo, hi) = SX!FlattenSeq(R)
    BY <1>1, <2>2 DEF to_snapshot_in_band
  <2>4. R = S
    <3>1. \A i \in DOMAIN q : R[i] = S[i]
      BY <1>7, <2>1, <2>2
    <3>2. QED
      BY <1>7, <2>2, <3>1
  <2>5. QED
    BY <2>3, <2>4
<1>10. QED
  BY <1>8, <1>9, FlattenSeqOf

\* The book built again from its own dump.
LEMMA RedumpedInv ==
  ASSUME BookInv(book), NEW r, r = Redumped(<<>>)
  PROVE  BookInv(r)
<1>1. PICK hi, stops : /\ hi = Max({px[o] : o \in Oid})
                       /\ stops = [i \in DOMAIN <<>> |-> [key |-> <<>>[i], sz |-> 1, next |-> None, prev |-> None]]
  OBVIOUS
<1>2. stops \in Seq(Node)
  <2>1. DOMAIN stops = {} /\ stops = [i \in {} |-> stops[i]]
    BY <1>1
  <2>2. stops \in [1..0 -> Node]
    BY <2>1
  <2>3. QED
    BY <2>2
<1>3. PICK bids, asks : /\ bids = to_snapshot_in_band("Bid", 0, hi) \o stops
                        /\ asks = to_snapshot_in_band("Ask", 0, hi) \o stops
  OBVIOUS
<1>4. bids \in Seq(Node) /\ asks \in Seq(Node)
  <2>1. to_snapshot_in_band("Bid", 0, hi) \in Seq(Node) /\ to_snapshot_in_band("Ask", 0, hi) \in Seq(Node)
    BY DumpIs
  <2>2. QED
    BY <1>2, <1>3, <2>1
<1>5. r = from_snapshot(bids, asks)
  BY <1>1, <1>3 DEF Redumped
<1>6. PICK all : all = WithoutTriggers(bids, asks) \o WithoutTriggers(asks, bids)
  OBVIOUS
<1>7. all \in Seq(Node)
  <2>1. WithoutTriggers(bids, asks) \in Seq(Node) /\ WithoutTriggers(asks, bids) \in Seq(Node)
    BY <1>4, WithoutTriggersIs
  <2>2. QED
    BY <1>6, <2>1
<1>8. PICK c : c = CHOOSE f : Builds(all, f)
  OBVIOUS
<1>9. r = c[Len(all)]
  BY <1>5, <1>6, <1>8, FromSnapshotIs
<1>10. QED
  BY <1>7, <1>8, <1>9, BuiltInv

-----------------------------------------------------------------------------
(* The inductive invariant, and what follows from it.                      *)

\* The index and the levels agree, and a book with orders is in the map of books.
IInv ==
  /\ BookInv(book)
  /\ present \in BOOLEAN
  /\ book.oid_to_side_px # {} => present

\* The invariant holds at first.
LEMMA InitIInv == Init => IInv
<1> SUFFICES ASSUME Init PROVE IInv
  OBVIOUS
<1>1. book = NewBook /\ present = FALSE
  BY DEF Init
<1>2. BookInv(book)
  BY <1>1, NewBookInv
<1>3. book.oid_to_side_px = {}
  BY <1>1 DEF NewBook
<1>4. QED
  BY <1>1, <1>2, <1>3 DEF IInv

\* Every operation keeps the invariant.
LEMMA NextIInv == IInv /\ [Next]_vars => IInv'
<1> SUFFICES ASSUME IInv, [Next]_vars PROVE IInv'
  OBVIOUS
<1>1. BookInv(book) /\ present \in BOOLEAN /\ (book.oid_to_side_px # {} => present)
  BY DEF IInv
<1>2. ASSUME NEW o \in Oid, NEW s \in Size, NEW b \in Oid \cup {NoOid}, AddOrder(o, s, b) PROVE IInv'
  <2>1. PICK r : r = add_order_before(book, o, s, b).book
    OBVIOUS
  <2>2. s \in Nat
    BY OrdersAssumption
  <2>3. BookInv(r)
    BY <1>1, <2>1, <2>2, AddOrderInv
  <2>4. book' = r /\ present' = TRUE
    BY <1>2, <2>1 DEF AddOrder
  <2>5. BookInv(book')
    BY <2>3, <2>4
  <2>6. QED
    BY <2>4, <2>5 DEF IInv
<1>3. ASSUME BookInv(book'), present, EvictIfEmpty PROVE IInv'
  <2>1. present' = (present /\ book'.oid_to_side_px # {})
    BY <1>3 DEF EvictIfEmpty
  <2>2. QED
    BY <1>3, <2>1 DEF IInv
<1>4. ASSUME NEW o \in Oid, CancelOrder(o) PROVE IInv'
  <2>1. PICK r : r = cancel_order(book, o)
    OBVIOUS
  <2>2. BookInv(r)
    BY <1>1, <2>1, CancelInv
  <2>3. book' = r /\ present /\ EvictIfEmpty
    BY <1>4, <2>1 DEF CancelOrder
  <2>4. QED
    BY <1>3, <2>2, <2>3
<1>5. ASSUME NEW o \in Oid, NEW s \in Size \cup {0}, ModifySz(o, s) PROVE IInv'
  <2>1. PICK r : r = modify_sz(book, o, s)
    OBVIOUS
  <2>2. s \in Nat
    BY OrdersAssumption
  <2>3. BookInv(r)
    BY <1>1, <2>1, <2>2, ModifyInv
  <2>4. book' = r /\ present /\ EvictIfEmpty
    BY <1>5, <2>1 DEF ModifySz
  <2>5. QED
    BY <1>3, <2>3, <2>4
<1>6. ASSUME CompactAll PROVE IInv'
  <2>1. PICK r : r = [book EXCEPT !.levels = [l \in DOMAIN @ |-> compact(@[l])]]
    OBVIOUS
  <2>2. BookInv(r) /\ r.oid_to_side_px = book.oid_to_side_px
    BY <1>1, <2>1, CompactInv
  <2>3. book' = r /\ EvictIfEmpty
    BY <1>6, <2>1 DEF CompactAll
  <2>4. BookInv(book')
    BY <2>2, <2>3
  <2>5. present' = (present /\ book'.oid_to_side_px # {})
    BY <2>3 DEF EvictIfEmpty
  <2>6. book'.oid_to_side_px # {} => present
    BY <1>1, <2>2, <2>3
  <2>7. QED
    BY <1>1, <2>4, <2>5, <2>6 DEF IInv
<1>7. ASSUME Rebuild PROVE IInv'
  <2>1. PICK r : r = Redumped(<<>>)
    OBVIOUS
  <2>2. BookInv(r)
    BY <1>1, <2>1, RedumpedInv
  <2>3. book' = r /\ present /\ present' = present
    BY <1>7, <2>1 DEF Rebuild
  <2>4. BookInv(book')
    BY <2>2, <2>3
  <2>5. QED
    BY <1>1, <2>3, <2>4 DEF IInv
<1>8. ASSUME UNCHANGED vars PROVE IInv'
  <2>1. book' = book /\ present' = present
    BY <1>8 DEF vars
  <2>2. BookInv(book')
    BY <1>1, <2>1
  <2>3. QED
    BY <1>1, <2>1, <2>2 DEF IInv
<1>9. QED
  BY <1>2, <1>4, <1>5, <1>6, <1>7, <1>8 DEF Next

\* The links of the levels follow from the invariant.
LEMMA IInvLinks == IInv => LinksOK
<1> SUFFICES ASSUME IInv PROVE LinksOK
  OBVIOUS
<1>1. Stored(book.levels, book.oid_to_side_px)
  BY DEF IInv, BookInv
<1>2. ASSUME NEW k \in DOMAIN book.levels PROVE LevelOK(book.levels[k], Slots(book.levels[k]))
  <2>1. PICK l : l = book.levels[k]
    OBVIOUS
  <2>2. Good(l) /\ ~IsEmpty(l)
    BY <1>1, <2>1, StandsAt
  <2>3. Linked(l)
    BY <2>2 DEF Good
  <2>4. LevelOK(l, Slots(l))
    BY <2>2, <2>3, LinkedOK
  <2>5. QED
    BY <2>1, <2>4
<1>3. QED
  BY <1>2 DEF LinksOK, LevelOK

\* So does the index.
LEMMA IInvIndex == IInv => IndexExact
<1> SUFFICES ASSUME IInv PROVE IndexExact
  OBVIOUS
<1>1. Stored(book.levels, book.oid_to_side_px) /\ (book.oid_to_side_px # {} => present)
  BY DEF IInv, BookInv
<1>2. book.oid_to_side_px = UNION {DOMAIN book.levels[k].key_to_sid : k \in DOMAIN book.levels}
  BY <1>1 DEF Stored
<1>3. \A k \in DOMAIN book.levels :
        /\ ~IsEmpty(book.levels[k])
        /\ \A o \in DOMAIN book.levels[k].key_to_sid : LevelOf(o) = k
  BY <1>1, StandsAt
<1>4. QED
  BY <1>1, <1>2, <1>3 DEF IndexExact

\* So does the running sum.
LEMMA IInvAggregate == IInv => AggregateExact
<1> SUFFICES ASSUME IInv PROVE AggregateExact
  OBVIOUS
<1>1. Stored(book.levels, book.oid_to_side_px)
  BY DEF IInv, BookInv
<1>2. ASSUME NEW k \in DOMAIN book.levels
      PROVE  /\ book.levels[k].total_sz <= Total(book.levels[k])
             /\ ~book.levels[k].saturated => book.levels[k].total_sz = Total(book.levels[k])
  <2>1. Good(book.levels[k])
    BY <1>1, StandsAt
  <2>2. QED
    BY <2>1 DEF Good, Summed
<1>3. QED
  BY <1>2 DEF AggregateExact, Total, SumIn

\* An order has a size when it is in the index, and only then.
LEMMA RestingSize ==
  ASSUME BookInv(book), NEW o \in Oid
  PROVE  SzOf(o) > 0 <=> o \in book.oid_to_side_px
<1>1. PICK I, l : I = book.oid_to_side_px /\ l = LevelAt(book, o)
  OBVIOUS
<1>2. Stored(book.levels, I)
  BY <1>1 DEF BookInv
<1>3. Good(l) /\ Live(l) /\ \A p : p \in DOMAIN l.key_to_sid <=> p \in I /\ LevelOf(p) = LevelOf(o)
  BY <1>1, <1>2, LevelAtIs
<1>4. CASE o \in I
  <2>1. o \in DOMAIN l.key_to_sid
    BY <1>3, <1>4
  <2>2. SizeAt(l, o) \in Nat /\ SizeAt(l, o) # 0
    <3>1. Linked(l)
      BY <1>3 DEF Good
    <3>2. SizeAt(l, o) \in Nat
      BY <2>1, <3>1, SizeAtMost
    <3>3. QED
      BY <1>3, <2>1, <3>2 DEF Live
  <2>3. SzOf(o) = SizeAt(l, o)
    BY <1>1, <1>4, <2>1 DEF SzOf, SzIn, SizeAt
  <2>4. QED
    BY <1>1, <1>4, <2>2, <2>3
<1>5. CASE o \notin I
  <2>1. SzOf(o) = 0
    BY <1>1, <1>5 DEF SzOf, SzIn
  <2>2. QED
    BY <1>1, <1>5, <2>1
<1>6. QED
  BY <1>4, <1>5

\* The orders that rest on a side, and those of them that no other one's price
\* beats.
Resting(sd) == {o \in Oid : side[o] = sd /\ SzOf(o) > 0}
TopOf(on, sd) ==
  {o \in on : \A n \in on : IF sd = "Bid" THEN px[n] <= px[o] ELSE px[n] >= px[o]}

\* What get_bbo says of a side is said of its first level, if it has one.
LEMMA BboIs ==
  ASSUME NEW sd, NEW q, q = BestFirst(book, sd), NEW I, Stored(book.levels, I)
  PROVE  /\ Len(q) = 0 => get_bbo(sd) = <<>>
         /\ Len(q) # 0 => /\ get_bbo(sd) # <<>>
                          /\ get_bbo(sd)[1].px = q[1][2]
                          /\ get_bbo(sd)[1].n = LenOf(book.levels[q[1]])
<1>1. q \in Seq(Level)
  BY BestFirstPlaces
<1>2. q = <<>> <=> Len(q) = 0
  BY <1>1
<1>3. ASSUME Len(q) = 0 PROVE get_bbo(sd) = <<>>
  BY <1>2, <1>3 DEF get_bbo
<1>4. ASSUME Len(q) # 0
      PROVE  /\ get_bbo(sd) # <<>> /\ get_bbo(sd)[1].px = q[1][2]
             /\ get_bbo(sd)[1].n = LenOf(book.levels[q[1]])
  <2>1. Head(q) = q[1] /\ q # <<>>
    BY <1>1, <1>2, <1>4
  <2>2. PICK e : e = [px |-> q[1][2], sz |-> book.levels[q[1]].total_sz, n |-> LenOf(book.levels[q[1]])]
    OBVIOUS
  <2>3. get_bbo(sd) = <<e>>
    BY <2>1, <2>2 DEF get_bbo
  <2>4. QED
    BY <2>2, <2>3
<1>5. QED
  BY <1>3, <1>4

\* The level that is first in the list holds the orders that no price beats.
LEMMA FirstIsTop ==
  ASSUME BookInv(book), NEW sd \in {"Bid", "Ask"}, NEW S, S = OnSide(book.levels, sd),
         NEW k \in S, Ahead(S, k) = {}
  PROVE  /\ TopOf(Resting(sd), sd) = DOMAIN book.levels[k].key_to_sid
         /\ \A o \in TopOf(Resting(sd), sd) : px[o] = k[2]
         /\ Resting(sd) # {}
<1>1. PICK I, ls, on, K : I = book.oid_to_side_px /\ ls = book.levels /\ on = Resting(sd) /\ K = DOMAIN ls[k].key_to_sid
  OBVIOUS
<1>2. Stored(ls, I) /\ I \subseteq Oid
  <2>1. Stored(ls, I)
    BY <1>1 DEF BookInv
  <2>2. QED
    BY <2>1 DEF Stored
<1>3. \A o : o \in on <=> o \in I /\ side[o] = sd
  BY <1>1, <1>2, RestingSize DEF Resting
<1>4. k \in DOMAIN ls /\ k[1] = sd
  BY <1>1 DEF OnSide
<1>5. ~IsEmpty(ls[k]) /\ \A o : o \in K <=> o \in I /\ LevelOf(o) = k
  BY <1>1, <1>2, <1>4, StandsAt
<1>6. ASSUME NEW o \in on PROVE LevelOf(o) \in S /\ LevelOf(o) = <<sd, px[o]>> /\ px[o] \in Nat
  <2>1. o \in I /\ side[o] = sd /\ o \in Oid
    BY <1>2, <1>3
  <2>2. PICK j \in DOMAIN ls : o \in DOMAIN ls[j].key_to_sid
    BY <1>2, <2>1 DEF Stored
  <2>3. LevelOf(o) = j
    BY <1>2, <2>2, StandsAt
  <2>4. LevelOf(o) = <<sd, px[o]>> /\ LevelOf(o)[1] = sd
    BY <2>1 DEF LevelOf
  <2>5. QED
    BY <1>1, <2>1, <2>2, <2>3, <2>4, OrdersAssumption DEF OnSide
<1>7. ASSUME NEW o \in K PROVE o \in on /\ k = <<sd, px[o]>> /\ k[2] = px[o]
  <2>1. o \in I /\ LevelOf(o) = k
    BY <1>5
  <2>2. k[1] = side[o] /\ k[2] = px[o] /\ k = <<side[o], px[o]>>
    BY <2>1 DEF LevelOf
  <2>3. QED
    BY <1>3, <1>4, <2>1, <2>2
<1>8. PICK a : a \in K
  <2>1. Good(ls[k])
    BY <1>2, <1>4, StandsAt
  <2>2. IsEmpty(ls[k]) <=> \A o : o \notin DOMAIN ls[k].key_to_sid
    BY <2>1, GoodOids
  <2>3. QED
    BY <1>1, <1>5, <2>2
<1>9. k[2] \in Nat /\ a \in on
  BY <1>6, <1>7, <1>8
<1>10. ASSUME NEW n \in on PROVE IF sd = "Bid" THEN px[n] <= k[2] ELSE px[n] >= k[2]
  <2>1. ~Better(LevelOf(n), k)
    BY <1>6 DEF Ahead
  <2>2. PICK x \in Nat, y \in Nat : x = px[n] /\ y = k[2]
    BY <1>6, <1>9
  <2>3. PICK l : l = LevelOf(n) /\ l[1] = sd /\ l[2] = x
    BY <1>6, <2>2
  <2>4. ~(IF sd = "Bid" THEN x > y ELSE x < y)
    <3>1. Better(l, k) <=> IF k[1] = "Bid" THEN l[2] > k[2] ELSE l[2] < k[2]
      BY DEF Better
    <3>2. ~Better(l, k)
      BY <2>1, <2>3
    <3>3. QED
      BY <1>4, <2>2, <2>3, <3>1, <3>2
  <2>5. IF sd = "Bid" THEN x <= y ELSE x >= y
    BY <2>4
  <2>6. QED
    BY <2>2, <2>5
<1>11. ASSUME NEW o \in K PROVE o \in TopOf(on, sd)
  BY <1>7, <1>10 DEF TopOf
<1>12. ASSUME NEW o \in TopOf(on, sd) PROVE o \in K /\ px[o] = k[2]
  <2>1. o \in on /\ IF sd = "Bid" THEN px[a] <= px[o] ELSE px[a] >= px[o]
    BY <1>9 DEF TopOf
  <2>2. px[a] = k[2] /\ k = <<sd, px[a]>>
    BY <1>7, <1>8
  <2>3. px[o] \in Nat /\ LevelOf(o) = <<sd, px[o]>>
    BY <1>6, <2>1
  <2>4. px[o] = k[2]
    BY <1>9, <1>10, <2>1, <2>2, <2>3
  <2>5. o \in I /\ LevelOf(o) = k
    BY <1>3, <2>1, <2>2, <2>3, <2>4
  <2>6. QED
    BY <1>5, <2>4, <2>5
<1>13. TopOf(on, sd) = K
  BY <1>11, <1>12
<1>14. QED
  BY <1>1, <1>9, <1>12, <1>13

\* What BboIsTop asks of a side.
SideQuoted(sd, on) ==
  IF on = {} THEN get_bbo(sd) = <<>>
  ELSE /\ get_bbo(sd) # <<>>
       /\ \A o \in TopOf(on, sd) : get_bbo(sd)[1].px = px[o]
       /\ get_bbo(sd)[1].n = Cardinality(TopOf(on, sd))

\* A side's quote is that of its best level, which is there when it has orders.
LEMMA Quoted ==
  ASSUME BookInv(book), NEW sd \in {"Bid", "Ask"}
  PROVE  /\ SideQuoted(sd, Resting(sd))
         /\ get_bbo(sd) # <<>> => \E k \in OnSide(book.levels, sd) : get_bbo(sd)[1].px = k[2]
<1>1. PICK I, q, S : I = book.oid_to_side_px /\ q = BestFirst(book, sd) /\ S = OnSide(book.levels, sd)
  OBVIOUS
<1>2. Stored(book.levels, I) /\ I \subseteq Oid
  <2>1. Stored(book.levels, I)
    BY <1>1 DEF BookInv
  <2>2. QED
    BY <2>1 DEF Stored
<1>3. Covers(q, S)
  BY <1>1, <1>2, BestFirstPlaces
<1>4. StartsBest(q, S)
  BY <1>1, <1>2, BestFirstPlaces
<1>5. CASE Len(q) = 0
  <2>1. get_bbo(sd) = <<>>
    BY <1>1, <1>2, <1>5, BboIs
  <2>2. S = {}
    BY <1>3, <1>5 DEF Covers
  <2>3. Resting(sd) = {}
    <3> SUFFICES ASSUME NEW o \in Resting(sd) PROVE FALSE
      OBVIOUS
    <3>1. o \in I /\ side[o] = sd
      BY <1>1, RestingSize DEF Resting
    <3>2. PICK j \in DOMAIN book.levels : o \in DOMAIN book.levels[j].key_to_sid
      BY <1>2, <3>1 DEF Stored
    <3>3. LevelOf(o) = j
      BY <1>2, <3>2, StandsAt
    <3>4. j[1] = sd
      BY <3>1, <3>3 DEF LevelOf
    <3>5. QED
      BY <1>1, <2>2, <3>2, <3>4 DEF OnSide
  <2>4. QED
    BY <2>1, <2>3 DEF SideQuoted
<1>6. CASE Len(q) # 0
  <2>1. PICK k \in S : k = q[1] /\ Ahead(S, k) = {}
    BY <1>4, <1>6 DEF StartsBest
  <2>2. get_bbo(sd) # <<>> /\ get_bbo(sd)[1].px = q[1][2] /\ get_bbo(sd)[1].n = LenOf(book.levels[q[1]])
    BY <1>1, <1>2, <1>6, BboIs
  <2>3. /\ TopOf(Resting(sd), sd) = DOMAIN book.levels[k].key_to_sid
        /\ \A o \in TopOf(Resting(sd), sd) : px[o] = k[2]
        /\ Resting(sd) # {}
    BY <1>1, <2>1, FirstIsTop
  <2>4. get_bbo(sd)[1].n = Cardinality(TopOf(Resting(sd), sd))
    BY <2>1, <2>2, <2>3 DEF LenOf
  <2>5. SideQuoted(sd, Resting(sd))
    BY <2>1, <2>2, <2>3, <2>4 DEF SideQuoted
  <2>6. QED
    BY <1>1, <2>1, <2>2, <2>5
<1>7. QED
  BY <1>5, <1>6

\* The quotes follow from the invariant.
LEMMA IInvBbo == IInv => BboIsTop
<1> SUFFICES ASSUME IInv PROVE BboIsTop
  OBVIOUS
<1>1. BookInv(book) /\ Uncrossed(DOMAIN book.levels)
  BY DEF IInv, BookInv
<1>2. \A sd \in {"Bid", "Ask"} : SideQuoted(sd, Resting(sd))
  BY <1>1, Quoted
<1>3. ASSUME get_bbo("Bid") # <<>>, get_bbo("Ask") # <<>>
      PROVE  get_bbo("Bid")[1].px < get_bbo("Ask")[1].px
  <2>1. PICK k \in OnSide(book.levels, "Bid") : get_bbo("Bid")[1].px = k[2]
    BY <1>1, <1>3, Quoted
  <2>2. PICK l \in OnSide(book.levels, "Ask") : get_bbo("Ask")[1].px = l[2]
    BY <1>1, <1>3, Quoted
  <2>3. k[2] < l[2]
    BY <1>1 DEF OnSide, Uncrossed
  <2>4. QED
    BY <2>1, <2>2, <2>3
<1>4. QED
  BY <1>2, <1>3 DEF BboIsTop, SideQuoted, TopOf, Resting

\* The invariant always holds.
LEMMA AlwaysIInv == Spec => []IInv
<1>1. Init => IInv
  BY InitIInv
<1>2. IInv /\ [Next]_vars => IInv'
  BY NextIInv
<1>3. QED
  BY <1>1, <1>2, PTL DEF Spec

\* In every level of the book the walk from the head meets each order once, back
\* links and tail agree with it, the map finds each order in its slot, and no slot
\* is both vacant and used: after any adds, matching, cancels, resizes,
\* compactions and rebuilds, for any orders, prices and sizes (linked_list.rs).
THEOREM LinksOKThm == Spec => []LinksOK
<1>1. IInv => LinksOK
  BY IInvLinks
<1>2. QED
  BY <1>1, AlwaysIInv, PTL

\* The index of the book has exactly the orders that stand in its levels, each in
\* the level of its price, no level is left empty, and a book with orders is in
\* the map of books: for any orders, whatever an add fills, and whatever a cancel
\* or a resize to 0 takes out (order_book/mod.rs, multi_book.rs).
THEOREM IndexExactThm == Spec => []IndexExact
<1>1. IInv => IndexExact
  BY IInvIndex
<1>2. QED
  BY <1>1, AlwaysIInv, PTL

\* The running sum of a level is the sum of the sizes in it as long as it has never
\* been cut at the largest u64, and never more than that sum: push_back,
\* insert_before, remove, modify_order_sz, match_against and compact all keep it
\* (price_level.rs, what debug_validate asserts).
THEOREM AggregateExactThm == Spec => []AggregateExact
<1>1. IInv => AggregateExact
  BY IInvAggregate
<1>2. QED
  BY <1>1, AlwaysIInv, PTL

\* The best bid and offer that get_bbo quotes (order_book/mod.rs) is the best price
\* at which an order rests, with the number of orders at that price, there is a
\* quote exactly when a side has orders, and the bid is below the offer: for any
\* orders, prices and sizes, since an add sweeps every level it crosses before
\* what is left of it rests.
THEOREM BboIsTopThm == Spec => []BboIsTop
<1>1. IInv => BboIsTop
  BY IInvBbo
<1>2. QED
  BY <1>1, AlwaysIInv, PTL
=============================================================================
