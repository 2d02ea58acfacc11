---------------------------- MODULE OrderLemmas ----------------------------
(***************************************************************************)
(* Lemmas about numbers, the order of things, sums over finite sets, ranks *)
(* and joined sequences, which the proofs about texts and those about      *)
(* queries rest on.  An induction is made with the least element of a set  *)
(* of counterexamples.                                                     *)
(***************************************************************************)
EXTENDS Integers, FiniteSets, Functions, SequencesExt, FiniteSetTheorems, TLAPS

\* A set of natural numbers has a least element: the initial segments they end
\* are finite, and strict inclusion of finite sets is well founded.
LEMMA LeastNatural ==
  ASSUME NEW T \in SUBSET Nat, T # {}
  PROVE  \E m \in T : \A k \in T : m <= k
<1>1. PICK R : R = StrictSubsetOrdering(Nat)
  OBVIOUS
<1>2. PICK U : U = {0..k : k \in T}
  OBVIOUS
<1>3. IsWellFoundedOn(R, FiniteSubsetsOf(Nat))
  BY <1>1, FS_StrictSubsetOrderingWellFounded
<1>4. U \subseteq FiniteSubsetsOf(Nat)
  <2>1. SUFFICES ASSUME NEW k \in T  PROVE 0..k \in FiniteSubsetsOf(Nat)
    BY <1>2
  <2>2. k \in Int /\ 0..k \in SUBSET Nat
    OBVIOUS
  <2>3. IsFiniteSet(0..k)
    BY <2>2, FS_Interval
  <2>. QED
    BY <2>2, <2>3 DEF FiniteSubsetsOf
<1>5. U # {}
  BY <1>2
<1>6. PICK u \in U : \A v \in U : <<v, u>> \notin R
  BY <1>3, <1>4, <1>5, WFMin, Zenon
<1>7. PICK m \in T : u = 0..m
  BY <1>2, <1>6
<1>8. ASSUME NEW k \in T, k < m  PROVE FALSE
  <2>1. 0..k \in U /\ 0..k \in SUBSET Nat /\ 0..m \in SUBSET Nat
    BY <1>2
  <2>2. 0..k \subseteq 0..m /\ m \notin 0..k /\ m \in 0..m
    BY <1>8
  <2>. QED
    BY <1>1, <1>6, <1>7, <2>1, <2>2 DEF StrictSubsetOrdering
<1>. QED
  BY <1>7, <1>8

\* What does not step down never goes down.
LEMMA NoStepDown ==
  ASSUME NEW n \in Nat, NEW f \in [1..n -> Int],
         \A k \in 2..n : f[k - 1] <= f[k],
         NEW i \in 1..n, NEW j \in 1..n, i <= j
  PROVE  f[i] <= f[j]
<1>1. SUFFICES ASSUME f[j] < f[i]  PROVE FALSE
  OBVIOUS
<1>2. PICK T : T = {k \in i..n : f[k] < f[i]}
  OBVIOUS
<1>3. j \in T /\ T \in SUBSET Nat
  BY <1>1, <1>2
<1>4. PICK m \in T : \A k \in T : m <= k
  BY <1>3, LeastNatural
<1>5. m \in i..n /\ f[m] < f[i] /\ m # i
  BY <1>2, <1>4
<1>6. m - 1 \in i..n /\ m \in 2..n /\ m - 1 \notin T
  BY <1>4, <1>5
<1>7. f[m - 1] >= f[i]
  BY <1>2, <1>6
<1>. QED
  BY <1>5, <1>6, <1>7

\* Two of a row of intervals that begin in order meet exactly when some two
\* neighbours do.
LEMMA NeighboursMeet ==
  ASSUME NEW n \in Nat, NEW start \in [1..n -> Int], NEW end \in [1..n -> Int],
         \A k \in 2..n : start[k - 1] <= start[k],
         \A k \in 1..n : start[k] < end[k]
  PROVE  (\E m, k \in 1..n : m # k /\ start[m] < end[k] /\ start[k] < end[m])
         <=> \E k \in 2..n : start[k] < end[k - 1]
<1>1. ASSUME NEW k \in 2..n, start[k] < end[k - 1]
      PROVE  \E m, l \in 1..n : m # l /\ start[m] < end[l] /\ start[l] < end[m]
  <2>1. k \in 1..n /\ k - 1 \in 1..n /\ k - 1 # k
    OBVIOUS
  <2>2. start[k - 1] < end[k]
    <3>1. start[k - 1] <= start[k] /\ start[k] < end[k]
      BY <2>1
    <3>2. start[k - 1] \in Int /\ start[k] \in Int /\ end[k] \in Int
      BY <2>1
    <3>. QED
      BY <3>1, <3>2
  <2>. QED
    BY <1>1, <2>1, <2>2
<1>2. ASSUME NEW m \in 1..n, NEW k \in 1..n, m < k, start[k] < end[m]
      PROVE  \E l \in 2..n : start[l] < end[l - 1]
  <2>1. m + 1 \in 1..n /\ m + 1 <= k /\ m + 1 \in 2..n /\ (m + 1) - 1 = m
    BY <1>2
  <2>2. start[m + 1] <= start[k]
    BY <2>1, NoStepDown
  <2>3. start[m + 1] < end[(m + 1) - 1]
    <3>1. start[m + 1] \in Int /\ start[k] \in Int /\ end[m] \in Int
      BY <2>1
    <3>. QED
      BY <1>2, <2>1, <2>2, <3>1
  <2>. QED
    BY <2>1, <2>3
<1>3. ASSUME NEW m \in 1..n, NEW k \in 1..n,
             m # k, start[m] < end[k], start[k] < end[m]
      PROVE  \E l \in 2..n : start[l] < end[l - 1]
  <2>1. m < k \/ k < m
    BY <1>3
  <2>. QED
    BY <1>2, <1>3, <2>1
<1>. QED
  BY <1>1, <1>3

----------------------------------------------------------------------------
(***************************************************************************)
(* Sums.  SumFunction adds with a recursive fold over the subsets of its   *)
(* domain, taking one member at a time (Taken).                            *)
(***************************************************************************)
\* The element of a set that a sum takes first.
Taken(s) == CHOOSE x \in s : TRUE

\* g[s] is the sum of f over s, for every subset s of D.
AddsUp(f, g, D) ==
  \A s \in SUBSET D :
    g[s] = IF s = {} THEN 0 ELSE f[Taken(s)] + g[s \ {Taken(s)}]

\* A function on the subsets of a finite set that adds up in this way exists.
LEMMA SumsExist ==
  ASSUME NEW D, IsFiniteSet(D), NEW f \in [D -> Int]
  PROVE  \E g \in [SUBSET D -> Int] : AddsUp(f, g, D)
<1>. DEFINE Adds(g, s) == g[s] = IF s = {} THEN 0 ELSE f[Taken(s)] + g[s \ {Taken(s)}]
            UpTo(m, g) == \A s \in SUBSET D : Cardinality(s) <= m => Adds(g, s)
            Reached(m) == \E g \in [SUBSET D -> Int] : UpTo(m, g)
<1>1. \A s \in SUBSET D : IsFiniteSet(s) /\ Cardinality(s) \in Nat
                          /\ Cardinality(s) <= Cardinality(D)
  BY FS_Subset, FS_CardinalityType
<1>2. \A s \in SUBSET D : s # {} =>
        /\ Taken(s) \in s /\ s \ {Taken(s)} \in SUBSET D
        /\ Cardinality(s \ {Taken(s)}) = Cardinality(s) - 1
  <2>. SUFFICES ASSUME NEW s \in SUBSET D, s # {}
                PROVE  /\ Taken(s) \in s /\ s \ {Taken(s)} \in SUBSET D
                       /\ Cardinality(s \ {Taken(s)}) = Cardinality(s) - 1
    OBVIOUS
  <2>1. Taken(s) \in s
    BY DEF Taken
  <2>. QED
    BY <1>1, <2>1, FS_RemoveElement
<1>3. Reached(0)
  <2>1. PICK g : g = [s \in SUBSET D |-> 0]
    OBVIOUS
  <2>2. \A s \in SUBSET D : Cardinality(s) <= 0 => s = {}
    BY <1>1, FS_EmptySet
  <2>3. UpTo(0, g) /\ g \in [SUBSET D -> Int]
    BY <2>1, <2>2
  <2>. QED
    BY <2>3
<1>4. ASSUME NEW m \in Nat, Reached(m)  PROVE Reached(m + 1)
  <2>1. PICK h \in [SUBSET D -> Int] : UpTo(m, h)
    BY <1>4
  <2>2. PICK g : g = [s \in SUBSET D |->
                        IF s = {} THEN 0 ELSE f[Taken(s)] + h[s \ {Taken(s)}]]
    OBVIOUS
  <2>3. g \in [SUBSET D -> Int]
    <3>1. \A s \in SUBSET D : s # {} => f[Taken(s)] + h[s \ {Taken(s)}] \in Int
      BY <1>2
    <3>. QED
      BY <2>2, <3>1
  <2>4. ASSUME NEW s \in SUBSET D, Cardinality(s) <= m  PROVE g[s] = h[s]
    BY <2>1, <2>2, <2>4
  <2>5. ASSUME NEW s \in SUBSET D, Cardinality(s) <= m + 1  PROVE Adds(g, s)
    <3>1. CASE s = {}
      BY <2>2, <3>1
    <3>2. CASE s # {}
      <4>1. PICK t : t = s \ {Taken(s)}
        OBVIOUS
      <4>2. t \in SUBSET D /\ Cardinality(t) <= m
        BY <1>1, <1>2, <2>5, <3>2, <4>1
      <4>3. g[t] = h[t]
        BY <2>4, <4>2
      <4>4. g[s] = f[Taken(s)] + h[t]
        BY <2>2, <3>2, <4>1
      <4>. QED
        BY <3>2, <4>1, <4>3, <4>4
    <3>. QED
      BY <3>1, <3>2
  <2>. QED
    BY <2>3, <2>5
<1>5. PICK n \in Nat : n = Cardinality(D)
  BY FS_CardinalityType
<1>6. Reached(n)
  <2>1. SUFFICES ASSUME ~Reached(n)  PROVE FALSE
    OBVIOUS
  <2>. HIDE DEF Reached
  <2>2. PICK T : T = {k \in Nat : ~Reached(k)}
    OBVIOUS
  <2>3. PICK m \in T : \A k \in T : m <= k
    BY <2>1, <2>2, LeastNatural
  <2>4. m \in Nat /\ ~Reached(m) /\ m # 0
    BY <1>3, <2>2, <2>3
  <2>5. m - 1 \in Nat /\ Reached(m - 1)
    BY <2>2, <2>3, <2>4
  <2>6. Reached((m - 1) + 1)
    BY <1>4, <2>5
  <2>. QED
    BY <2>4, <2>6
<1>7. PICK g \in [SUBSET D -> Int] : UpTo(n, g)
  BY <1>6
<1>8. \A s \in SUBSET D : Adds(g, s)
  BY <1>1, <1>5, <1>7
<1>. QED
  BY <1>8 DEF AddsUp

\* A sum is the one way to add up so.
LEMMA SumsAgree ==
  ASSUME NEW D, IsFiniteSet(D), NEW f, NEW g, NEW h,
         AddsUp(f, g, D), AddsUp(f, h, D), NEW s \in SUBSET D
  PROVE  g[s] = h[s]
<1>1. SUFFICES ASSUME g[s] # h[s]  PROVE FALSE
  OBVIOUS
<1>2. PICK sizes : sizes = {Cardinality(t) : t \in {t \in SUBSET D : g[t] # h[t]}}
  OBVIOUS
<1>3. \A t \in SUBSET D : IsFiniteSet(t) /\ Cardinality(t) \in Nat
  BY FS_Subset, FS_CardinalityType
<1>4. sizes \in SUBSET Nat /\ sizes # {}
  BY <1>1, <1>2, <1>3
<1>5. PICK m \in sizes : \A k \in sizes : m <= k
  BY <1>4, LeastNatural
<1>6. PICK t \in SUBSET D : g[t] # h[t] /\ m = Cardinality(t)
  BY <1>2, <1>5
<1>7. t # {}
  BY <1>6 DEF AddsUp
<1>8. PICK u : u = t \ {Taken(t)}
  OBVIOUS
<1>9. Taken(t) \in t
  BY <1>7 DEF Taken
<1>10. u \in SUBSET D /\ Cardinality(u) = Cardinality(t) - 1
  BY <1>3, <1>8, <1>9, FS_RemoveElement
<1>11. g[u] = h[u]
  <2>1. m \in Nat /\ Cardinality(u) < m
    BY <1>3, <1>6, <1>10
  <2>2. Cardinality(u) \notin sizes
    BY <1>3, <1>5, <1>10, <2>1
  <2>. QED
    BY <1>2, <1>10, <2>2
<1>12. g[t] = f[Taken(t)] + g[u] /\ h[t] = f[Taken(t)] + h[u]
  BY <1>7, <1>8 DEF AddsUp
<1>. QED
  BY <1>6, <1>11, <1>12

\* SumFunction adds up in this way.
LEMMA SumAddsUp ==
  ASSUME NEW D, IsFiniteSet(D), NEW f \in [D -> Int]
  PROVE  \E g \in [SUBSET D -> Int] :
           SumFunction(f) = g[D] /\ AddsUp(f, g, D)
<1>1. PICK g \in [SUBSET D -> Int] : AddsUp(f, g, D)
  BY SumsExist
<1>. DEFINE Fold(h) == [s \in SUBSET D |->
                          IF s = {} THEN 0
                          ELSE LET x == CHOOSE y \in s : TRUE IN f[x] + h[s \ {x}]]
<1>2. g = Fold(g)
  BY <1>1 DEF Taken, AddsUp
<1>3. PICK iter : iter = CHOOSE h : h = Fold(h)
  OBVIOUS
<1>4. SumFunction(f) = iter[D]
  BY <1>3, Zenon DEF SumFunction, SumFunctionOnSet, FoldFunctionOnSet, MapThenFoldSet
<1>5. iter = Fold(iter)
  <2>. HIDE DEF Fold
  <2>. QED
    BY <1>2, <1>3, Zenon
<1>6. AddsUp(f, iter, D)
  BY <1>5 DEF Taken, AddsUp
<1>. HIDE DEF Fold
<1>7. iter[D] = g[D]
  <2>1. D \in SUBSET D
    OBVIOUS
  <2>. QED
    BY <1>1, <1>6, <2>1, SumsAgree
<1>. QED
  BY <1>1, <1>4, <1>7

\* A sum of numbers is a number.
LEMMA SumIsNumber ==
  ASSUME NEW D, IsFiniteSet(D), NEW f \in [D -> Int]
  PROVE  SumFunction(f) \in Int
<1>1. PICK g \in [SUBSET D -> Int] : SumFunction(f) = g[D] /\ AddsUp(f, g, D)
  BY SumAddsUp
<1>2. D \in SUBSET D
  OBVIOUS
<1>. QED
  BY <1>1, <1>2

\* In each of some stretches of time, no two of which meet, f is said at a rate
\* of so many in a thousand at most.
KeepsPace(D, f, rate, time) ==
  /\ \A x \in D : IsFiniteSet(time[x]) /\ 1000 * f[x] <= rate * Cardinality(time[x])
  /\ \A x, y \in D : x # y => time[x] \cap time[y] = {}

AllOf(D, time) == UNION {time[x] : x \in D}

\* What is said in each of some stretches of time, no two of which meet, no
\* faster than a rate, is said no faster than that in all of them.
LEMMA PaceAddsUp ==
  ASSUME NEW D, IsFiniteSet(D), NEW f \in [D -> Int], NEW rate \in Nat, NEW time,
         KeepsPace(D, f, rate, time)
  PROVE  /\ IsFiniteSet(AllOf(D, time))
         /\ 1000 * SumFunction(f) <= rate * Cardinality(AllOf(D, time))
<1>0. /\ \A x \in D : IsFiniteSet(time[x]) /\ 1000 * f[x] <= rate * Cardinality(time[x])
      /\ \A x, y \in D : x # y => time[x] \cap time[y] = {}
  BY DEF KeepsPace
<1>. DEFINE All(s) == UNION {time[x] : x \in s}
<1>1. PICK g \in [SUBSET D -> Int] : SumFunction(f) = g[D] /\ AddsUp(f, g, D)
  BY SumAddsUp
<1>. DEFINE Paced(s) == IsFiniteSet(All(s)) /\ 1000 * g[s] <= rate * Cardinality(All(s))
<1>2. \A s \in SUBSET D : IsFiniteSet(s) /\ Cardinality(s) \in Nat
  BY FS_Subset, FS_CardinalityType
<1>3. Paced({})
  <2>1. All({}) = {} /\ g[{}] = 0
    BY <1>1 DEF AddsUp
  <2>2. IsFiniteSet(All({})) /\ Cardinality(All({})) = 0
    BY <2>1, FS_EmptySet
  <2>. QED
    BY <2>1, <2>2
<1>4. ASSUME NEW s \in SUBSET D, s # {}, Paced(s \ {Taken(s)})  PROVE Paced(s)
  <2>1. PICK x \in s : x = Taken(s)
    BY <1>4 DEF Taken
  <2>2. PICK t \in SUBSET D : t = s \ {x}
    OBVIOUS
  <2>3. g[s] = f[x] + g[t]
    BY <1>1, <1>4, <2>1, <2>2 DEF AddsUp
  <2>4. All(s) = time[x] \cup All(t)
    BY <2>2
  <2>5. time[x] \cap All(t) = {}
    <3>1. ASSUME NEW z, z \in time[x], z \in All(t)  PROVE FALSE
      <4>1. PICK y \in t : z \in time[y]
        BY <3>1
      <4>. QED
        BY <1>0, <2>2, <3>1, <4>1
    <3>. QED
      BY <3>1
  <2>6. PICK A, B : A = time[x] /\ B = All(t)
    OBVIOUS
  <2>7. IsFiniteSet(A) /\ IsFiniteSet(B) /\ A \cap B = {}
        /\ 1000 * f[x] <= rate * Cardinality(A) /\ 1000 * g[t] <= rate * Cardinality(B)
    BY <1>0, <1>4, <2>1, <2>2, <2>5, <2>6
  <2>8. IsFiniteSet(A \cup B)
        /\ Cardinality(A \cup B) = Cardinality(A) + Cardinality(B) - Cardinality(A \cap B)
    BY <2>7, FS_Union
  <2>9. Cardinality(A \cap B) = 0
    BY <2>7, FS_EmptySet
  <2>10. PICK a \in Nat, b \in Nat : a = Cardinality(A) /\ b = Cardinality(B)
    BY <2>7, FS_CardinalityType
  <2>11. Cardinality(A \cup B) = a + b
    BY <2>8, <2>9, <2>10
  <2>12. PICK p \in Int, q \in Int : p = f[x] /\ q = g[t]
    OBVIOUS
  <2>13. 1000 * p <= rate * a /\ 1000 * q <= rate * b
    BY <2>7, <2>10, <2>12
  <2>14. 1000 * (p + q) <= rate * (a + b)
    <3>1. rate * (a + b) = rate * a + rate * b
      OBVIOUS
    <3>2. 1000 * (p + q) = 1000 * p + 1000 * q
      OBVIOUS
    <3>3. rate * a \in Int /\ rate * b \in Int
      OBVIOUS
    <3>. QED
      BY <2>13, <3>1, <3>2, <3>3
  <2>15. All(s) = A \cup B
    BY <2>4, <2>6
  <2>. HIDE DEF All
  <2>. QED
    BY <2>3, <2>8, <2>11, <2>12, <2>14, <2>15
<1>5. \A s \in SUBSET D : Paced(s)
  <2>. SUFFICES ASSUME NEW s \in SUBSET D, ~Paced(s)  PROVE FALSE
    OBVIOUS
  <2>. HIDE DEF Paced
  <2>1. PICK sizes : sizes = {Cardinality(t) : t \in {t \in SUBSET D : ~Paced(t)}}
    OBVIOUS
  <2>2. sizes \in SUBSET Nat /\ sizes # {}
    BY <1>2, <2>1
  <2>3. PICK m \in sizes : \A k \in sizes : m <= k
    BY <2>2, LeastNatural
  <2>4. PICK t \in SUBSET D : ~Paced(t) /\ m = Cardinality(t)
    BY <2>1, <2>3
  <2>5. t # {}
    BY <1>3, <2>4
  <2>6. Taken(t) \in t
    BY <2>5 DEF Taken
  <2>7. PICK u \in SUBSET D : u = t \ {Taken(t)}
    OBVIOUS
  <2>8. Cardinality(u) = Cardinality(t) - 1
    BY <1>2, <2>6, <2>7, FS_RemoveElement
  <2>9. Cardinality(u) < m /\ m \in Nat /\ Cardinality(u) \in Nat
    BY <1>2, <2>4, <2>8
  <2>10. Paced(u)
    BY <2>1, <2>3, <2>9
  <2>. QED
    BY <1>4, <2>4, <2>5, <2>7, <2>10
<1>6. D \in SUBSET D
  OBVIOUS
<1>7. AllOf(D, time) = All(D)
  BY DEF AllOf
<1>8. Paced(D)
  BY <1>5, <1>6
<1>. HIDE DEF All
<1>. QED
  BY <1>1, <1>7, <1>8

\* A set of natural numbers up to a bound has a greatest element.
LEMMA GreatestNatural ==
  ASSUME NEW n \in Nat, NEW T \in SUBSET 0..n, T # {}
  PROVE  \E m \in T : \A k \in T : k <= m
<1>1. PICK U : U = {n - k : k \in T}
  OBVIOUS
<1>2. U \in SUBSET Nat /\ U # {}
  <2>1. \A k \in T : k \in 0..n
    OBVIOUS
  <2>2. \A k \in T : n - k \in Nat
    BY <2>1
  <2>. QED
    BY <1>1, <2>2
<1>3. PICK u \in U : \A v \in U : u <= v
  BY <1>2, LeastNatural
<1>4. PICK m \in T : u = n - m
  BY <1>1, <1>3
<1>5. ASSUME NEW k \in T  PROVE k <= m
  <2>1. n - k \in U /\ k \in 0..n /\ m \in 0..n
    BY <1>1
  <2>2. n - m <= n - k
    BY <1>3, <1>4, <2>1
  <2>. QED
    BY <2>1, <2>2
<1>. QED
  BY <1>5

----------------------------------------------------------------------------
(***************************************************************************)
(* Ranks.  In a strict order of a finite set, in which before[n] are those *)
(* less than n, there is one element of each rank: with k before it.       *)
(***************************************************************************)
StrictOrder(D, before) ==
  /\ \A n \in D : before[n] \in SUBSET D /\ n \notin before[n]
  /\ \A m, n \in D : m \in before[n] => before[m] \subseteq before[n]
  /\ \A m, n \in D : m # n => m \in before[n] \/ n \in before[m]

LEMMA RanksRise ==
  ASSUME NEW D, IsFiniteSet(D), NEW before, StrictOrder(D, before),
         NEW m \in D, NEW n \in D
  PROVE  /\ Cardinality(before[n]) \in 0..(Cardinality(D) - 1)
         /\ m \in before[n] <=> Cardinality(before[m]) < Cardinality(before[n])
         /\ m # n <=> Cardinality(before[m]) # Cardinality(before[n])
<1>1. /\ \A k \in D : before[k] \in SUBSET D /\ k \notin before[k]
      /\ \A j, k \in D : j \in before[k] => before[j] \subseteq before[k]
      /\ \A j, k \in D : j # k => j \in before[k] \/ k \in before[j]
  BY DEF StrictOrder
<1>2. Cardinality(D) \in Nat
  BY FS_CardinalityType
<1>3. ASSUME NEW k \in D
      PROVE  /\ IsFiniteSet(before[k])
             /\ Cardinality(before[k]) \in Nat
             /\ Cardinality(before[k]) < Cardinality(D)
  <2>1. before[k] \in SUBSET D /\ before[k] # D
    BY <1>1
  <2>2. IsFiniteSet(before[k]) /\ Cardinality(before[k]) <= Cardinality(D)
        /\ Cardinality(before[k]) # Cardinality(D)
    BY <2>1, FS_Subset
  <2>3. Cardinality(before[k]) \in Nat
    BY <2>2, FS_CardinalityType
  <2>. QED
    BY <1>2, <2>2, <2>3
<1>4. ASSUME NEW j \in D, NEW k \in D, j \in before[k]
      PROVE  Cardinality(before[j]) < Cardinality(before[k])
  <2>1. before[j] \in SUBSET before[k] /\ before[j] # before[k]
    BY <1>1, <1>4
  <2>2. Cardinality(before[j]) <= Cardinality(before[k])
        /\ Cardinality(before[j]) # Cardinality(before[k])
    BY <1>3, <2>1, FS_Subset
  <2>. QED
    BY <1>3, <2>2
<1>5. m # n => m \in before[n] \/ n \in before[m]
  BY <1>1
<1>6. PICK a \in Nat, b \in Nat, d \in Nat :
        a = Cardinality(before[m]) /\ b = Cardinality(before[n]) /\ d = Cardinality(D)
  BY <1>2, <1>3
<1>7. (m \in before[n] => a < b) /\ (n \in before[m] => b < a) /\ b < d
  BY <1>3, <1>4, <1>6
<1>8. m = n => a = b
  BY <1>6
<1>. QED
  BY <1>5, <1>6, <1>7, <1>8

\* There is one of every rank.
LEMMA EveryRank ==
  ASSUME NEW D, IsFiniteSet(D), NEW before, StrictOrder(D, before),
         NEW k \in 1..Cardinality(D)
  PROVE  \E n \in D : Cardinality(before[n]) = k - 1
<1>1. PICK size \in Nat : size = Cardinality(D)
  BY FS_CardinalityType
<1>2. ASSUME \A n \in D : Cardinality(before[n]) # k - 1  PROVE FALSE
  <2>0. PICK last \in Int, x \in Int : last = size - 1 /\ x = k - 1
    OBVIOUS
  <2>1. PICK all, ranks : all = 0..last /\ ranks = all \ {x}
    OBVIOUS
  <2>2. IsFiniteSet(all) /\ Cardinality(all) = size
    BY <2>0, <2>1, FS_Interval
  <2>3. x \in all
    BY <1>1, <2>0, <2>1
  <2>4. IsFiniteSet(ranks) /\ Cardinality(ranks) = size - 1
    <3>1. IsFiniteSet(all \ {x}) /\ Cardinality(all \ {x}) = Cardinality(all) - 1
      BY <2>2, <2>3, FS_RemoveElement
    <3>. QED
      BY <2>1, <2>2, <3>1
  <2>5. PICK rank : rank = [n \in D |-> Cardinality(before[n])]
    OBVIOUS
  <2>6. rank \in [D -> ranks]
    BY <1>1, <1>2, <2>0, <2>1, <2>5, RanksRise
  <2>7. Cardinality(ranks) < Cardinality(D)
    BY <1>1, <2>4
  <2>8. PICK m \in D, n \in D : m # n /\ rank[m] = rank[n]
    BY <2>4, <2>6, <2>7, FS_PigeonHole
  <2>. QED
    BY <2>5, <2>8, RanksRise
<1>. QED
  BY <1>2

LEMMA AllNaturals ==
  ASSUME NEW S, 0 \in S, \A n \in Nat : n \in S => n + 1 \in S
  PROVE  \A n \in Nat : n \in S
<1>1. SUFFICES ASSUME NEW n \in Nat, n \notin S  PROVE FALSE
  OBVIOUS
<1>2. PICK T : T = {k \in Nat : k \notin S}
  OBVIOUS
<1>3. PICK m \in T : \A k \in T : m <= k
  BY <1>1, <1>2, LeastNatural
<1>4. m \in Nat /\ m # 0 /\ m \notin S
  BY <1>2, <1>3
<1>5. m - 1 \in Nat /\ m - 1 \in S
  BY <1>2, <1>3, <1>4
<1>6. (m - 1) + 1 \in S
  BY <1>5
<1>. QED
  BY <1>4, <1>6

\* A sequence of integers that grows at each step grows along all of it, and so
\* has its members by rank.
LEMMA GrowsAlong ==
  ASSUME NEW n \in Nat, NEW at \in [1..n -> Int],
         \A k \in 2..n : at[k - 1] < at[k],
         NEW j \in 1..n, NEW k \in 1..n, j < k
  PROVE  at[j] < at[k]
<1>1. \A i \in 2..n : at[i - 1] <= at[i]
  <2>1. \A i \in 2..n : at[i - 1] \in Int /\ at[i] \in Int
    OBVIOUS
  <2>. QED
    BY <2>1
<1>2. j + 1 \in 2..n /\ (j + 1) - 1 = j
  OBVIOUS
<1>3. at[j] < at[j + 1]
  BY <1>2
<1>4. at[j + 1] <= at[k]
  <2>1. j + 1 \in 1..n /\ j + 1 <= k
    OBVIOUS
  <2>. QED
    BY <1>1, <2>1, NoStepDown
<1>5. at[j] \in Int /\ at[j + 1] \in Int /\ at[k] \in Int
  BY <1>2
<1>. QED
  BY <1>3, <1>4, <1>5

MembersOf(at, n) == {at[k] : k \in 1..n}

\* The k-th number of a set is at[k].
IsRanked(S, n, at) ==
  /\ Cardinality(S) = n
  /\ \A k \in 1..n :
       (CHOOSE m \in S : Cardinality({l \in S : l < m}) = k - 1) = at[k]

LEMMA RanksAlong ==
  ASSUME NEW n \in Nat, NEW at \in [1..n -> Int],
         \A k \in 2..n : at[k - 1] < at[k]
  PROVE  IsRanked(MembersOf(at, n), n, at)
<1>0. PICK S : S = {at[k] : k \in 1..n} /\ S = MembersOf(at, n)
  BY DEF MembersOf
<1>1. ASSUME NEW j \in 1..n, NEW k \in 1..n
      PROVE  (at[j] < at[k] <=> j < k) /\ (at[j] = at[k] => j = k)
  <2>1. j < k => at[j] < at[k]
    BY GrowsAlong
  <2>2. k < j => at[k] < at[j]
    BY GrowsAlong
  <2>3. at[j] \in Int /\ at[k] \in Int
    OBVIOUS
  <2>. QED
    BY <2>1, <2>2, <2>3
<1>2. ASSUME NEW i \in Nat, i <= n, NEW T, T = {at[k] : k \in 1..i}
      PROVE  Cardinality(T) = i
  <2>1. PICK below : below = 1..i
    OBVIOUS
  <2>2. PICK f : f = [k \in below |-> at[k]]
    OBVIOUS
  <2>3. \A k \in below : k \in 1..n
    BY <1>2, <2>1
  <2>4. f \in [below -> T] /\ \A x \in T : \E k \in below : f[k] = x
    BY <1>2, <2>1, <2>2
  <2>5. \A j, k \in below : f[j] = f[k] => j = k
    BY <1>1, <2>2, <2>3
  <2>6. f \in Bijection(below, T)
    BY <2>4, <2>5 DEF Bijection, Injection, IsInjective, Surjection
  <2>7. IsFiniteSet(below) /\ Cardinality(below) = i
    BY <2>1, FS_Interval
  <2>. QED
    BY <2>6, <2>7, FS_Bijection DEF ExistsBijection
<1>3. Cardinality(S) = n
  BY <1>0, <1>2
<1>4. ASSUME NEW k \in 1..n  PROVE Cardinality({l \in S : l < at[k]}) = k - 1
  <2>1. PICK T : T = {l \in S : l < at[k]}
    OBVIOUS
  <2>2. PICK i \in Nat : i = k - 1 /\ i <= n
    OBVIOUS
  <2>3. T = {at[j] : j \in 1..i}
    BY <1>0, <1>1, <2>1, <2>2
  <2>. QED
    BY <1>2, <2>1, <2>2, <2>3
<1>5. ASSUME NEW k \in 1..n
      PROVE  (CHOOSE m \in S : Cardinality({l \in S : l < m}) = k - 1) = at[k]
  <2>1. at[k] \in S
    BY <1>0
  <2>2. PICK m : m = CHOOSE i \in S : Cardinality({l \in S : l < i}) = k - 1
    OBVIOUS
  <2>3. m \in S /\ Cardinality({l \in S : l < m}) = k - 1
    BY <1>4, <2>1, <2>2
  <2>4. PICK j \in 1..n : m = at[j]
    BY <1>0, <2>3
  <2>5. Cardinality({l \in S : l < m}) = j - 1
    BY <1>4, <2>4
  <2>6. j = k
    BY <2>3, <2>5
  <2>. QED
    BY <2>2, <2>4, <2>6
<1>. QED
  BY <1>0, <1>3, <1>5 DEF IsRanked

----------------------------------------------------------------------------
(***************************************************************************)
(* Sequences one after the other.                                          *)
(***************************************************************************)
\* The sequences up to the k-th, one after the other, are f[k].
Joins(seqs, n, f) ==
  \A k \in 1..n : f[k] = IF k = 1 THEN seqs[1] ELSE f[k - 1] \o seqs[k]

LEMMA JoinsExist ==
  ASSUME NEW X, NEW n \in Nat, NEW seqs \in [1..n -> Seq(X)]
  PROVE  \E f \in [1..n -> Seq(X)] : Joins(seqs, n, f)
<1>1. PICK Reached : Reached = {m \in Nat : m <= n => \E f \in [1..m -> Seq(X)] : Joins(seqs, m, f)}
  OBVIOUS
<1>2. 0 \in Reached
  <2>1. PICK f : f = [k \in 1..0 |-> <<>>]
    OBVIOUS
  <2>2. f \in [1..0 -> Seq(X)] /\ Joins(seqs, 0, f)
    BY <2>1 DEF Joins
  <2>. QED
    BY <1>1, <2>2
<1>3. ASSUME NEW m \in Nat, m \in Reached  PROVE m + 1 \in Reached
  <2>1. SUFFICES ASSUME m + 1 <= n
                 PROVE  \E f \in [1..(m + 1) -> Seq(X)] : Joins(seqs, m + 1, f)
    BY <1>1
  <2>2. PICK h \in [1..m -> Seq(X)] : Joins(seqs, m, h)
    BY <1>1, <1>3, <2>1
  <2>3. PICK last : last = IF m = 0 THEN seqs[1] ELSE h[m] \o seqs[m + 1]
    OBVIOUS
  <2>4. last \in Seq(X)
    <3>1. CASE m = 0
      BY <2>1, <2>3, <3>1
    <3>2. CASE m # 0
      <4>1. h[m] \in Seq(X) /\ seqs[m + 1] \in Seq(X)
        BY <2>1, <3>2
      <4>. QED
        BY <2>3, <3>2, <4>1
    <3>. QED
      BY <3>1, <3>2
  <2>5. PICK f : f = [k \in 1..(m + 1) |-> IF k = m + 1 THEN last ELSE h[k]]
    OBVIOUS
  <2>6. f \in [1..(m + 1) -> Seq(X)]
    <3>1. \A k \in 1..(m + 1) : k # m + 1 => k \in 1..m
      OBVIOUS
    <3>. QED
      BY <2>4, <2>5, <3>1
  <2>7. ASSUME NEW k \in 1..(m + 1)
        PROVE  f[k] = IF k = 1 THEN seqs[1] ELSE f[k - 1] \o seqs[k]
    <3>1. CASE k = m + 1
      <4>1. k = 1 <=> m = 0
        BY <3>1
      <4>2. f[k] = last
        BY <2>5, <3>1
      <4>3. CASE m = 0
        BY <2>3, <4>1, <4>2, <4>3
      <4>4. CASE m # 0
        <5>1. k - 1 = m /\ k - 1 \in 1..(m + 1) /\ k - 1 # m + 1
          BY <3>1, <4>4
        <5>2. f[k - 1] = h[m]
          BY <2>5, <5>1
        <5>. QED
          BY <2>3, <3>1, <4>1, <4>2, <4>4, <5>2
      <4>. QED
        BY <4>3, <4>4
    <3>2. CASE k # m + 1
      <4>1. k \in 1..m /\ f[k] = h[k]
        BY <2>5, <3>2
      <4>2. h[k] = IF k = 1 THEN seqs[1] ELSE h[k - 1] \o seqs[k]
        BY <2>2, <4>1 DEF Joins
      <4>3. k # 1 => f[k - 1] = h[k - 1]
        BY <2>5, <4>1
      <4>. QED
        BY <4>1, <4>2, <4>3
    <3>. QED
      BY <3>1, <3>2
  <2>8. Joins(seqs, m + 1, f)
    BY <2>7 DEF Joins
  <2>. QED
    BY <2>6, <2>8
<1>4. n \in Reached
  BY <1>2, <1>3, AllNaturals
<1>. QED
  BY <1>1, <1>4

LEMMA FlattenJoins ==
  ASSUME NEW X, NEW n \in Nat, n # 0, NEW seqs \in [1..n -> Seq(X)]
  PROVE  \E f \in [1..n -> Seq(X)] : Joins(seqs, n, f) /\ FlattenSeq(seqs) = f[n]
<1>1. PICK g \in [1..n -> Seq(X)] : Joins(seqs, n, g)
  BY JoinsExist
<1>. DEFINE Flat(h) == [i \in 1..n |-> IF i = 1 THEN seqs[i] ELSE h[i - 1] \o seqs[i]]
<1>2. Len(seqs) = n
  OBVIOUS
<1>3. g = Flat(g)
  <2>1. \A i \in 1..n : g[i] = IF i = 1 THEN seqs[i] ELSE g[i - 1] \o seqs[i]
    BY <1>1 DEF Joins
  <2>. QED
    BY <2>1
<1>4. PICK f : f = CHOOSE h : h = Flat(h)
  OBVIOUS
<1>5. f = Flat(f)
  <2>. HIDE DEF Flat
  <2>. QED
    BY <1>3, <1>4, Zenon
<1>6. FlattenSeq(seqs) = f[n]
  BY <1>2, <1>4, Zenon DEF FlattenSeq
<1>7. \A i \in 1..n : f[i] = IF i = 1 THEN seqs[i] ELSE f[i - 1] \o seqs[i]
  BY <1>5
<1>8. Joins(seqs, n, f)
  BY <1>7 DEF Joins
<1>9. ASSUME NEW k \in 1..n  PROVE f[k] = g[k]
  <2>1. PICK same : same = {i \in Nat : i + 1 <= n => f[i + 1] = g[i + 1]}
    OBVIOUS
  <2>2. 0 \in same
    BY <1>1, <1>8, <2>1 DEF Joins
  <2>3. ASSUME NEW i \in Nat, i \in same  PROVE i + 1 \in same
    <3>1. SUFFICES ASSUME (i + 1) + 1 <= n  PROVE f[(i + 1) + 1] = g[(i + 1) + 1]
      BY <2>1
    <3>2. PICK j \in 1..n : j = (i + 1) + 1 /\ j # 1 /\ j - 1 = i + 1
      BY <3>1
    <3>3. f[j - 1] = g[j - 1]
      BY <2>1, <2>3, <3>1, <3>2
    <3>4. f[j] = f[j - 1] \o seqs[j] /\ g[j] = g[j - 1] \o seqs[j]
      BY <1>1, <1>8, <3>2 DEF Joins
    <3>. QED
      BY <3>2, <3>3, <3>4
  <2>4. k - 1 \in Nat /\ (k - 1) + 1 = k /\ k <= n
    OBVIOUS
  <2>5. k - 1 \in same
    BY <2>2, <2>3, <2>4, AllNaturals
  <2>. QED
    BY <2>1, <2>4, <2>5
<1>10. n \in 1..n
  OBVIOUS
<1>. QED
  BY <1>1, <1>6, <1>9, <1>10

\* In flat the k-th of n sequences is found after place at[k].
Places(seqs, n, flat, at) ==
  /\ at[1] = 0
  /\ \A k \in 1..n : /\ at[k + 1] = at[k] + Len(seqs[k])
                     /\ \A i \in 1..Len(seqs[k]) : flat[at[k] + i] = seqs[k][i]
  /\ Len(flat) = at[n + 1]

LEMMA FlattenPlaces ==
  ASSUME NEW X, NEW n \in Nat, n # 0, NEW seqs \in [1..n -> Seq(X)]
  PROVE  /\ FlattenSeq(seqs) \in Seq(X)
         /\ \E at \in [1..(n + 1) -> Nat] : Places(seqs, n, FlattenSeq(seqs), at)
<1>1. PICK f \in [1..n -> Seq(X)] : Joins(seqs, n, f) /\ FlattenSeq(seqs) = f[n]
  BY FlattenJoins
<1>2. PICK at : at = [k \in 1..(n + 1) |-> IF k = 1 THEN 0 ELSE Len(f[k - 1])]
  OBVIOUS
<1>3. at \in [1..(n + 1) -> Nat]
  <2>1. \A k \in 1..(n + 1) : k # 1 => k - 1 \in 1..n
    OBVIOUS
  <2>2. \A k \in 1..(n + 1) : k # 1 => Len(f[k - 1]) \in Nat
    BY <2>1
  <2>. QED
    BY <1>2, <2>2
<1>4. at[1] = 0 /\ \A k \in 1..n : at[k + 1] = Len(f[k])
  BY <1>2
<1>5. ASSUME NEW k \in 1..n
      PROVE  /\ k # 1 => k - 1 \in 1..n /\ at[k] = Len(f[k - 1]) /\ f[k] = f[k - 1] \o seqs[k]
             /\ k = 1 => at[k] = 0 /\ f[k] = seqs[k]
  <2>1. k \in 1..(n + 1)
    OBVIOUS
  <2>2. at[k] = IF k = 1 THEN 0 ELSE Len(f[k - 1])
    BY <1>2, <2>1
  <2>3. f[k] = IF k = 1 THEN seqs[1] ELSE f[k - 1] \o seqs[k]
    BY <1>1 DEF Joins
  <2>4. k # 1 => k - 1 \in 1..n
    OBVIOUS
  <2>. QED
    BY <2>2, <2>3, <2>4
<1>6. ASSUME NEW k \in 1..n
      PROVE  /\ at[k + 1] = at[k] + Len(seqs[k])
             /\ \A i \in 1..Len(seqs[k]) : f[k][at[k] + i] = seqs[k][i]
  <2>1. CASE k = 1
    BY <1>4, <1>5, <2>1
  <2>2. CASE k # 1
    <3>1. PICK p \in Seq(X), q \in Seq(X) : p = f[k - 1] /\ q = seqs[k]
      BY <1>5, <2>2
    <3>2. f[k] = p \o q /\ at[k] = Len(p)
      BY <1>5, <2>2, <3>1
    <3>3. Len(p \o q) = Len(p) + Len(q) /\ \A i \in 1..Len(q) : (p \o q)[Len(p) + i] = q[i]
      OBVIOUS
    <3>. QED
      BY <1>4, <3>1, <3>2, <3>3
  <2>. QED
    BY <2>1, <2>2
<1>7. ASSUME NEW k \in 1..n, NEW i \in 1..Len(seqs[k])
      PROVE  f[n][at[k] + i] = seqs[k][i]
  <2>1. PICK kept : kept = {d \in Nat : k + d <= n =>
                              /\ at[k] + i <= Len(f[k + d])
                              /\ f[k + d][at[k] + i] = seqs[k][i]}
    OBVIOUS
  <2>2. PICK p \in Nat : p = at[k] + i /\ p >= 1 /\ p <= at[k + 1]
    <3>1. k \in 1..(n + 1) /\ seqs[k] \in Seq(X)
      OBVIOUS
    <3>2. PICK a \in Nat, l \in Nat : a = at[k] /\ l = Len(seqs[k]) /\ at[k + 1] = a + l
      <4>1. at[k] \in Nat /\ Len(seqs[k]) \in Nat
        BY <1>3, <3>1
      <4>. QED
        BY <1>6, <4>1
    <3>3. i \in 1..l
      BY <3>2
    <3>4. a + i \in Nat /\ a + i >= 1 /\ a + i <= a + l
      BY <3>3
    <3>. QED
      BY <3>2, <3>4
  <2>3. 0 \in kept
    <3>0. k + 0 = k
      OBVIOUS
    <3>1. p <= Len(f[k + 0]) /\ f[k + 0][p] = seqs[k][i]
      BY <1>4, <1>6, <2>2, <3>0
    <3>. QED
      BY <2>1, <2>2, <3>1
  <2>4. ASSUME NEW d \in Nat, d \in kept  PROVE d + 1 \in kept
    <3>1. SUFFICES ASSUME k + (d + 1) <= n
                   PROVE  p <= Len(f[k + (d + 1)]) /\ f[k + (d + 1)][p] = seqs[k][i]
      BY <2>1, <2>2
    <3>2. PICK j \in 1..n : j = k + (d + 1) /\ j # 1 /\ j - 1 = k + d /\ j - 1 \in 1..n
      BY <3>1
    <3>3. p <= Len(f[j - 1]) /\ f[j - 1][p] = seqs[k][i]
      BY <2>1, <2>2, <2>4, <3>2
    <3>4. PICK a \in Seq(X), b \in Seq(X) : a = f[j - 1] /\ b = seqs[j]
      BY <3>2
    <3>5. f[j] = a \o b
      BY <1>5, <3>2, <3>4
    <3>6. p \in 1..Len(a)
      BY <2>2, <3>3, <3>4
    <3>7. (a \o b)[p] = a[p] /\ Len(a \o b) = Len(a) + Len(b)
      BY <3>6
    <3>. QED
      BY <3>2, <3>3, <3>4, <3>5, <3>6, <3>7
  <2>5. n - k \in Nat /\ k + (n - k) = n
    OBVIOUS
  <2>6. n - k \in kept
    BY <2>3, <2>4, <2>5, AllNaturals
  <2>. QED
    BY <2>1, <2>5, <2>6
<1>8. FlattenSeq(seqs) = f[n] /\ n \in 1..n /\ at[n + 1] = Len(f[n])
  BY <1>1, <1>4
<1>9. Places(seqs, n, FlattenSeq(seqs), at)
  BY <1>4, <1>6, <1>7, <1>8 DEF Places
<1>. QED
  BY <1>3, <1>8, <1>9

IsPlaced(p, seqs, n, at) ==
  \E k \in 1..n : \E i \in 1..Len(seqs[k]) : p = at[k] + i

\* Every place of flat is in one of the sequences.
LEMMA EveryPlace ==
  ASSUME NEW X, NEW n \in Nat, NEW seqs \in [1..n -> Seq(X)], NEW flat,
         NEW at \in [1..(n + 1) -> Nat], Places(seqs, n, flat, at),
         NEW p \in 1..Len(flat)
  PROVE  IsPlaced(p, seqs, n, at)
<1>1. PICK reached : reached = {k \in 1..(n + 1) : p <= at[k]}
  OBVIOUS
<1>2. n + 1 \in reached /\ reached \in SUBSET Nat
  BY <1>1 DEF Places
<1>3. PICK m \in reached : \A j \in reached : m <= j
  BY <1>2, LeastNatural
<1>4. m \in 1..(n + 1) /\ p <= at[m] /\ m # 1
  BY <1>1, <1>3 DEF Places
<1>5. PICK k \in 1..n : k = m - 1 /\ k + 1 = m
  BY <1>4
<1>6. ~(p <= at[k])
  BY <1>1, <1>3, <1>5
<1>7. at[k] \in Nat /\ Len(seqs[k]) \in Nat /\ at[k + 1] = at[k] + Len(seqs[k])
  <2>1. k \in 1..(n + 1) /\ seqs[k] \in Seq(X)
    OBVIOUS
  <2>. QED
    BY <2>1 DEF Places
<1>8. p - at[k] \in 1..Len(seqs[k]) /\ p = at[k] + (p - at[k])
  BY <1>4, <1>5, <1>6, <1>7
<1>. QED
  BY <1>8 DEF IsPlaced

IsJoin(joined, p, q) ==
  /\ Len(joined) = Len(p) + Len(q)
  /\ \A n \in 1..Len(p) : joined[n] = p[n]
  /\ \A n \in 1..Len(q) : joined[Len(p) + n] = q[n]

LEMMA Concatenation ==
  ASSUME NEW X, NEW p \in Seq(X), NEW q \in Seq(X)
  PROVE  p \o q \in Seq(X) /\ IsJoin(p \o q, p, q)
<1>1. p \o q \in Seq(X) /\ Len(p \o q) = Len(p) + Len(q)
  OBVIOUS
<1>2. \A n \in 1..Len(p) : (p \o q)[n] = p[n]
  OBVIOUS
<1>3. \A n \in 1..Len(q) : (p \o q)[Len(p) + n] = q[n]
  OBVIOUS
<1>. QED
  BY <1>1, <1>2, <1>3 DEF IsJoin

\* What is in a sequence is in what begins with it.
LEMMA StaysInJoin ==
  ASSUME NEW X, NEW p \in Seq(X), NEW q \in Seq(X), NEW n \in 1..Len(p)
  PROVE  n \in 1..Len(p \o q) /\ (p \o q)[n] = p[n]
<1>1. IsJoin(p \o q, p, q)
  BY Concatenation
<1>2. PICK k \in Nat, l \in Nat : k = Len(p) /\ l = Len(q)
  OBVIOUS
<1>3. Len(p \o q) = k + l /\ (p \o q)[n] = p[n]
  BY <1>1, <1>2 DEF IsJoin
<1>. QED
  BY <1>2, <1>3

LEMMA OwnMembers ==
  ASSUME NEW X, NEW p \in Seq(X)
  PROVE  p \in Seq({p[n] : n \in 1..Len(p)})
<1>1. PICK size \in Nat : size = Len(p) /\ DOMAIN p = 1..size
  OBVIOUS
<1>2. p = [n \in 1..size |-> p[n]]
  BY <1>1
<1>. QED
  BY <1>1, <1>2
============================================================================
