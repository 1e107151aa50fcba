-------------------------- MODULE Accounts_proofs --------------------------
(***************************************************************************)
(* Proofs about the components that fold over what happened: the fills of  *)
(* the paper adapter, the totals of the execution analytics, and the books *)
(* of a backtest and its replay.  First what they share: folds and sums    *)
(* over finite sets, in any order.                                         *)
(***************************************************************************)
EXTENDS PaperExecution, ExecutionAnalytics, BacktestReplay,
        FiniteSetTheorems, WellFoundedInduction, TLAPS

-----------------------------------------------------------------------------
(* Folds over finite sets and sequences. *)

\* Induction over the natural numbers, for the set of those that have a property.
LEMMA NumberInduction ==
    ASSUME NEW T, 0 \in T, \A n \in Nat : n \in T => n + 1 \in T
    PROVE  \A n \in Nat : n \in T
  <1>1. PICK R : R = OpToRel(<, Nat)
    OBVIOUS
  <1>2. IsWellFoundedOn(R, Nat)
    BY <1>1, NatLessThanWellFounded
  <1>3. SUFFICES ASSUME Nat \ T # {} PROVE FALSE
    OBVIOUS
  <1>4. PICK n \in Nat \ T : \A m \in Nat \ T : ~(<<m, n>> \in R)
    BY <1>2, <1>3, WFMin
  <1>5. n # 0 /\ n - 1 \in Nat /\ (n - 1) + 1 = n
    BY <1>4
  <1>6. n - 1 \in T
    <2>1. SUFFICES ASSUME n - 1 \in Nat \ T PROVE FALSE
      BY <1>5
    <2>2. n - 1 < n
      BY <1>5
    <2> QED BY <1>1, <1>4, <1>5, <2>1, <2>2 DEF OpToRel
  <1> QED BY <1>4, <1>5, <1>6

\* The recursion of a fold over the subsets of a set: an element is taken, and what the rest
\* comes to is transformed by it.
FoldBy(g, base, f, c, s) == g[s] = IF s = {} THEN base ELSE f[c[s]][g[s \ {c[s]}]]

\* It has a solution, whichever elements are taken first.
LEMMA FoldExists ==
    ASSUME NEW D, IsFiniteSet(D), NEW V, NEW base \in V, NEW f \in [D -> [V -> V]],
           NEW c, \A s \in SUBSET D : s # {} => c[s] \in s
    PROVE  \E g \in [SUBSET D -> V] : \A s \in SUBSET D : FoldBy(g, base, f, c, s)
  <1> DEFINE Small(n) == {s \in SUBSET D : Cardinality(s) <= n}
             T == {n \in Nat : \E g \in [Small(n) -> V] : \A s \in Small(n) : FoldBy(g, base, f, c, s)}
  <1>1. \A s \in SUBSET D : IsFiniteSet(s) /\ Cardinality(s) \in Nat
    BY FS_Subset, FS_CardinalityType
  <1>2. ASSUME NEW s \in SUBSET D, s # {}
        PROVE  s \ {c[s]} \in SUBSET D /\ Cardinality(s \ {c[s]}) = Cardinality(s) - 1 /\ c[s] \in D
    BY <1>1, <1>2, FS_RemoveElement
  <1>3. 0 \in T
    <2>1. Small(0) = {{}}
      BY <1>1, FS_EmptySet
    <2>2. PICK g : g = [s \in Small(0) |-> base]
      OBVIOUS
    <2>3. g \in [Small(0) -> V] /\ \A s \in Small(0) : FoldBy(g, base, f, c, s)
      BY <2>1, <2>2 DEF FoldBy
    <2> QED BY <2>3
  <1>4. ASSUME NEW n \in Nat, n \in T PROVE n + 1 \in T
    <2>1. PICK g \in [Small(n) -> V] : \A s \in Small(n) : FoldBy(g, base, f, c, s)
      BY <1>4
    <2>2. PICK h : h = [s \in Small(n + 1) |->
                          IF s \in Small(n) THEN g[s] ELSE f[c[s]][g[s \ {c[s]}]]]
      OBVIOUS
    <2>3. ASSUME NEW s \in Small(n + 1), s # {}
          PROVE  s \ {c[s]} \in Small(n) /\ s \ {c[s]} \in Small(n + 1) /\ c[s] \in D
      BY <1>1, <1>2, <2>3
    <2>4. {} \in Small(n)
      BY FS_EmptySet
    <2>5. h \in [Small(n + 1) -> V]
      <3>1. SUFFICES ASSUME NEW s \in Small(n + 1) PROVE h[s] \in V
        BY <2>2
      <3>2. CASE s \in Small(n)
        BY <2>1, <2>2, <3>2
      <3>3. CASE s \notin Small(n)
        <4>1. s # {}
          BY <2>4, <3>3
        <4>2. g[s \ {c[s]}] \in V /\ f[c[s]] \in [V -> V]
          BY <2>1, <2>3, <4>1
        <4> QED BY <2>2, <3>3, <4>2
      <3> QED BY <3>2, <3>3
    <2>6. ASSUME NEW s \in Small(n + 1) PROVE FoldBy(h, base, f, c, s)
      <3>1. CASE s = {}
        BY <2>1, <2>2, <2>4, <3>1 DEF FoldBy
      <3>2. CASE s # {}
        <4>1. h[s \ {c[s]}] = g[s \ {c[s]}]
          BY <2>2, <2>3, <3>2
        <4>2. h[s] = f[c[s]][g[s \ {c[s]}]]
          <5>1. CASE s \in Small(n)
            BY <2>1, <2>2, <3>2, <5>1 DEF FoldBy
          <5>2. CASE s \notin Small(n)
            BY <2>2, <5>2
          <5> QED BY <5>1, <5>2
        <4> QED BY <3>2, <4>1, <4>2 DEF FoldBy
      <3> QED BY <3>1, <3>2
    <2>7. \A s \in Small(n + 1) : FoldBy(h, base, f, c, s)
      BY <2>6
    <2>8. n + 1 \in Nat
      OBVIOUS
    <2> HIDE DEF Small
    <2> QED BY <2>5, <2>7, <2>8
  <1>5. Cardinality(D) \in T
    <2> HIDE DEF T
    <2> QED BY <1>3, <1>4, NumberInduction, FS_CardinalityType
  <1>6. Small(Cardinality(D)) = SUBSET D
    <2>1. \A s \in SUBSET D : Cardinality(s) <= Cardinality(D)
      BY FS_Subset
    <2> QED BY <2>1
  <1> QED BY <1>5, <1>6

\* What a sum over a finite set is made of.
Pick(s) == CHOOSE x \in s : TRUE
IsSum(g, v, D) == \A s \in SUBSET D : g[s] = IF s = {} THEN 0 ELSE v[Pick(s)] + g[s \ {Pick(s)}]

\* There is one.
LEMMA SumExists ==
    ASSUME NEW D, IsFiniteSet(D), NEW v \in [D -> Int]
    PROVE  \E g \in [SUBSET D -> Int] : IsSum(g, v, D)
  <1>1. PICK f, c : f = [x \in D |-> [y \in Int |-> v[x] + y]] /\ c = [s \in SUBSET D |-> Pick(s)]
    OBVIOUS
  <1>2. f \in [D -> [Int -> Int]]
    BY <1>1
  <1>3. \A s \in SUBSET D : c[s] = Pick(s) /\ (s # {} => Pick(s) \in s)
    BY <1>1 DEF Pick
  <1>4. \A s \in SUBSET D : s # {} => c[s] \in s
    BY <1>3
  <1>5. 0 \in Int
    OBVIOUS
  <1>6. PICK g \in [SUBSET D -> Int] : \A s \in SUBSET D : FoldBy(g, 0, f, c, s)
    BY <1>2, <1>4, <1>5, FoldExists
  <1>7. ASSUME NEW s \in SUBSET D PROVE g[s] = IF s = {} THEN 0 ELSE v[Pick(s)] + g[s \ {Pick(s)}]
    <2>1. CASE s = {}
      BY <1>6, <2>1 DEF FoldBy
    <2>2. CASE s # {}
      <3>1. Pick(s) \in D /\ s \ {Pick(s)} \in SUBSET D /\ c[s] = Pick(s)
        BY <1>3, <2>2
      <3>2. g[s \ {Pick(s)}] \in Int
        BY <1>6, <3>1
      <3>3. g[s] = f[Pick(s)][g[s \ {Pick(s)}]]
        BY <1>6, <2>2, <3>1 DEF FoldBy
      <3> QED BY <1>1, <2>2, <3>1, <3>2, <3>3
    <2> QED BY <2>1, <2>2
  <1> QED BY <1>6, <1>7 DEF IsSum

\* A set and one without an element of it.
LEMMA Without ==
    ASSUME NEW D, IsFiniteSet(D), NEW s \in SUBSET D, NEW x \in s
    PROVE  /\ IsFiniteSet(s) /\ Cardinality(s) \in Nat \ {0}
           /\ s \ {x} \in SUBSET D /\ Cardinality(s \ {x}) = Cardinality(s) - 1
  <1>1. IsFiniteSet(s)
    BY FS_Subset
  <1>2. Cardinality(s) \in Nat /\ Cardinality(s \ {x}) \in Nat /\ Cardinality(s \ {x}) = Cardinality(s) - 1
    BY <1>1, FS_RemoveElement, FS_CardinalityType
  <1> QED BY <1>1, <1>2

\* A set of at most no elements.
LEMMA NoElements ==
    ASSUME NEW D, IsFiniteSet(D), NEW s \in SUBSET D, Cardinality(s) <= 0
    PROVE  s = {}
  <1>1. SUFFICES ASSUME NEW x \in s PROVE FALSE
    OBVIOUS
  <1>2. Cardinality(s) \in Nat \ {0}
    BY Without
  <1> QED BY <1>2

\* A sum takes its elements in any order.
SumGood(g, v, s) == g[s] \in Int /\ \A x \in s : g[s] = v[x] + g[s \ {x}]

\* A sum over a finite set: whichever element is taken out last, the rest is the sum of what
\* is left.
LEMMA SumInAnyOrder ==
    ASSUME NEW D, IsFiniteSet(D), NEW v \in [D -> Int], NEW g, IsSum(g, v, D)
    PROVE  /\ g[{}] = 0
           /\ \A s \in SUBSET D : g[s] \in Int /\ \A x \in s : g[s] = v[x] + g[s \ {x}]
  <1> DEFINE T == {n \in Nat : \A s \in SUBSET D : Cardinality(s) <= n => SumGood(g, v, s)}
  <1>1. g[{}] = 0
    BY DEF IsSum
  <1>2. 0 \in T
    <2>1. \A s \in SUBSET D : Cardinality(s) <= 0 => s = {}
      BY NoElements
    <2> QED BY <1>1, <2>1 DEF SumGood
  <1>3. ASSUME NEW n \in Nat, n \in T PROVE n + 1 \in T
    <2>0. \A t \in SUBSET D : Cardinality(t) <= n => SumGood(g, v, t)
      BY <1>3
    <2>1. SUFFICES ASSUME NEW s \in SUBSET D, Cardinality(s) = n + 1 PROVE SumGood(g, v, s)
      <3>1. \A t \in SUBSET D : Cardinality(t) \in Nat
        BY FS_Subset, FS_CardinalityType
      <3> QED BY <1>3, <2>0, <3>1
    <2>2. PICK p : p = Pick(s)
      OBVIOUS
    <2>3. p \in s
      BY <2>1, <2>2, FS_EmptySet DEF Pick
    <2>4. g[s] = v[p] + g[s \ {p}]
      BY <2>2, <2>3 DEF IsSum
    <2>5. s \ {p} \in SUBSET D /\ SumGood(g, v, s \ {p}) /\ v[p] \in Int /\ g[s \ {p}] \in Int
      <3>1. s \ {p} \in SUBSET D /\ Cardinality(s \ {p}) = n /\ n <= n
        BY <2>1, <2>3, Without
      <3>2. SumGood(g, v, s \ {p})
        BY <2>0, <3>1
      <3> QED BY <2>3, <3>1, <3>2 DEF SumGood
    <2>6. ASSUME NEW x \in s, x # p PROVE g[s] = v[x] + g[s \ {x}]
      <3>1. PICK r : r = (s \ {p}) \ {x}
        OBVIOUS
      <3>2. g[s \ {p}] = v[x] + g[r]
        BY <2>5, <2>6, <3>1 DEF SumGood
      <3>3. s \ {x} \in SUBSET D /\ SumGood(g, v, s \ {x})
        <4>1. s \ {x} \in SUBSET D /\ Cardinality(s \ {x}) = n /\ n <= n
          BY <2>1, <2>6, Without
        <4> QED BY <2>0, <4>1
      <3>4. r = (s \ {x}) \ {p} /\ p \in s \ {x}
        BY <2>3, <2>6, <3>1
      <3>5. g[s \ {x}] = v[p] + g[r]
        BY <3>3, <3>4 DEF SumGood
      <3>6. r \in SUBSET D /\ g[r] \in Int /\ v[x] \in Int
        <4>1. r \in SUBSET D /\ Cardinality(r) = n - 1 /\ n - 1 <= n
          <5>1. Cardinality(s \ {x}) = n
            BY <2>1, <2>6, Without
          <5>2. r \in SUBSET D /\ Cardinality(r) = Cardinality(s \ {x}) - 1
            BY <3>3, <3>4, Without
          <5> QED BY <5>1, <5>2
        <4>2. SumGood(g, v, r)
          BY <2>0, <4>1
        <4> QED BY <4>1, <4>2 DEF SumGood
      <3> QED BY <2>4, <2>5, <3>2, <3>5, <3>6
    <2>7. g[s] \in Int
      BY <2>4, <2>5
    <2> QED BY <2>4, <2>6, <2>7 DEF SumGood
  <1>4. ASSUME NEW s \in SUBSET D PROVE SumGood(g, v, s)
    <2>1. Cardinality(s) \in Nat /\ Cardinality(s) <= Cardinality(s)
      BY FS_Subset, FS_CardinalityType
    <2>2. Cardinality(s) \in T
      <3>1. \A n \in Nat : n \in T
        <4> HIDE DEF T
        <4> QED BY <1>2, <1>3, NumberInduction
      <3> QED BY <2>1, <3>1
    <2> QED BY <2>1, <2>2
  <1> QED BY <1>1, <1>4 DEF SumGood

\* Nor does it matter on which side the element is added.
IsSumRight(g, v, D) ==
    \A s \in SUBSET D : g[s] = IF s = {} THEN 0 ELSE g[s \ {Pick(s)}] + v[Pick(s)]

\* A sum that adds its elements on the other side is the same sum.
LEMMA SumFromRight ==
    ASSUME NEW D, IsFiniteSet(D), NEW v \in [D -> Int], NEW g, IsSumRight(g, v, D)
    PROVE  IsSum(g, v, D)
  <1> DEFINE T == {n \in Nat : \A s \in SUBSET D : Cardinality(s) <= n => g[s] \in Int}
  <1>1. 0 \in T
    <2>1. \A s \in SUBSET D : Cardinality(s) <= 0 => s = {}
      BY NoElements
    <2>2. g[{}] = 0
      BY DEF IsSumRight
    <2>3. \A s \in SUBSET D : Cardinality(s) <= 0 => g[s] \in Int
      BY <2>1, <2>2
    <2> QED BY <2>3
  <1>2. ASSUME NEW n \in Nat, n \in T PROVE n + 1 \in T
    <2>1. SUFFICES ASSUME NEW s \in SUBSET D, Cardinality(s) = n + 1 PROVE g[s] \in Int
      <3>1. \A t \in SUBSET D : Cardinality(t) \in Nat
        BY FS_Subset, FS_CardinalityType
      <3> QED BY <1>2, <3>1
    <2>2. s # {} /\ Pick(s) \in s
      <3>1. s # {}
        BY <2>1, FS_EmptySet
      <3> QED BY <3>1 DEF Pick
    <2>3. s \ {Pick(s)} \in SUBSET D /\ Cardinality(s \ {Pick(s)}) = n /\ n <= n
      BY <2>1, <2>2, Without
    <2>4. g[s \ {Pick(s)}] \in Int
      BY <1>2, <2>3
    <2>5. g[s] = g[s \ {Pick(s)}] + v[Pick(s)]
      BY <2>2 DEF IsSumRight
    <2> QED BY <2>2, <2>4, <2>5
  <1>3. \A n \in Nat : n \in T
    <2> HIDE DEF T
    <2> QED BY <1>1, <1>2, NumberInduction
  <1>4. ASSUME NEW s \in SUBSET D PROVE g[s] \in Int
    <2>1. Cardinality(s) \in Nat /\ Cardinality(s) <= Cardinality(s)
      BY FS_Subset, FS_CardinalityType
    <2> QED BY <1>3, <2>1
  <1>5. ASSUME NEW s \in SUBSET D, s # {} PROVE g[s] = v[Pick(s)] + g[s \ {Pick(s)}]
    <2>1. Pick(s) \in D /\ s \ {Pick(s)} \in SUBSET D
      BY <1>5 DEF Pick
    <2>2. g[s \ {Pick(s)}] \in Int /\ v[Pick(s)] \in Int
      BY <1>4, <2>1
    <2> QED BY <1>5, <2>2 DEF IsSumRight
  <1> QED BY <1>5 DEF IsSum, IsSumRight

\* The sum of equal values.
LEMMA SumOfEqual ==
    ASSUME NEW D, IsFiniteSet(D), NEW v \in [D -> Int], NEW g, IsSum(g, v, D),
           NEW q \in Int, \A x \in D : v[x] = q
    PROVE  \A s \in SUBSET D : g[s] = q * Cardinality(s)
  <1> DEFINE T == {n \in Nat : \A s \in SUBSET D : Cardinality(s) = n => g[s] = q * n}
  <1>1. 0 \in T
    <2>1. \A s \in SUBSET D : Cardinality(s) <= 0 => s = {}
      BY NoElements
    <2>2. g[{}] = 0 /\ q * 0 = 0
      BY SumInAnyOrder
    <2>3. \A s \in SUBSET D : Cardinality(s) = 0 => g[s] = q * 0
      BY <2>1, <2>2
    <2> QED BY <2>3
  <1>2. ASSUME NEW n \in Nat, n \in T PROVE n + 1 \in T
    <2>1. SUFFICES ASSUME NEW s \in SUBSET D, Cardinality(s) = n + 1 PROVE g[s] = q * (n + 1)
      OBVIOUS
    <2>2. PICK x : x \in s
      BY <2>1, FS_EmptySet
    <2>3. s \ {x} \in SUBSET D /\ Cardinality(s \ {x}) = n
      BY <2>1, <2>2, Without
    <2>4. g[s] = v[x] + g[s \ {x}] /\ v[x] = q
      BY <2>2, SumInAnyOrder
    <2>5. g[s \ {x}] = q * n
      BY <1>2, <2>3
    <2>6. q + q * n = q * (n + 1)
      OBVIOUS
    <2> QED BY <2>4, <2>5, <2>6
  <1>3. \A n \in Nat : n \in T
    <2> HIDE DEF T
    <2> QED BY <1>1, <1>2, NumberInduction
  <1>4. \A s \in SUBSET D : Cardinality(s) \in Nat
    BY FS_Subset, FS_CardinalityType
  <1> QED BY <1>3, <1>4

-----------------------------------------------------------------------------
(* The paper execution. *)

\* What one slice of an order gets.
ShareOf(total) == Least(total, Slices * (total - QueueAhead))

\* All slices get the same, and together no more than the order.
LEMMA SlicesAlike ==
    ASSUME NEW total \in Nat, total > QueueAhead
    PROVE  /\ ShareOf(total) \in Nat /\ ShareOf(total) <= total
           /\ Slices * ShareOf(total) <= Slices * total
           /\ \A n \in 1 .. Slices : FillQuantity(total, n) = ShareOf(total)
  <1>1. Slices \in Nat \ {0} /\ QueueAhead \in Nat
    BY PaperConstants DEF PaperConstants
  <1>2. PICK share : share = ShareOf(total)
    OBVIOUS
  <1>3. PICK free : free = total - QueueAhead
    OBVIOUS
  <1>4. free \in Nat /\ Slices * free \in Nat
    BY <1>1, <1>3
  <1>5. share \in Nat /\ share <= total
    BY <1>2, <1>3, <1>4 DEF ShareOf, Least
  <1>6. PICK over : over = total - share
    OBVIOUS
  <1>7. over \in Nat /\ total = share + over
    BY <1>5, <1>6
  <1>8. Slices * total = Slices * share + Slices * over /\ Slices * over >= 0
    BY <1>1, <1>5, <1>7
  <1>9. ASSUME NEW n \in 1 .. Slices PROVE FillQuantity(total, n) = share
    <2>1. PICK rest : rest = Slices - n
      OBVIOUS
    <2>2. rest \in Nat /\ Slices = (n - 1) + rest + 1
      BY <1>1, <2>1
    <2>3. Slices * share = (n - 1) * share + rest * share + share /\ rest * share >= 0
      BY <1>5, <2>2
    <2>4. PICK left : left = Slices * total - (n - 1) * share
      OBVIOUS
    <2>5. left \in Int /\ left >= share
      BY <1>1, <1>5, <1>7, <1>8, <2>3, <2>4
    <2>6. FillQuantity(total, n) = Least(share, left)
      BY <1>2, <2>4 DEF FillQuantity, ShareOf
    <2> QED BY <1>5, <2>5, <2>6 DEF Least
  <1> QED BY <1>1, <1>2, <1>5, <1>8, <1>9

\* The parts of fills that are all alike.
LEMMA PartsOfFills ==
    ASSUME NEW fills, NEW k \in Nat, DOMAIN fills = 1 .. k, NEW q \in Int,
           \A n \in 1 .. k : fills[n].quantity = q
    PROVE  FilledParts(fills) = q * k
  <1>1. PICK D, v : D = 1 .. k /\ v = [n \in D |-> q]
    OBVIOUS
  <1>2. IsFiniteSet(D) /\ Cardinality(D) = k /\ v \in [D -> Int]
    BY <1>1, FS_Interval
  <1> DEFINE Sums(h) == h = [s \in SUBSET D |-> IF s = {} THEN 0 ELSE h[s \ {Pick(s)}] + fills[Pick(s)].quantity]
  <1>3. \E h : Sums(h)
    <2>1. PICK g \in [SUBSET D -> Int] : IsSum(g, v, D)
      BY <1>2, SumExists
    <2>2. ASSUME NEW s \in SUBSET D
          PROVE  g[s] = IF s = {} THEN 0 ELSE g[s \ {Pick(s)}] + fills[Pick(s)].quantity
      <3>1. CASE s = {}
        BY <2>1, <3>1 DEF IsSum
      <3>2. CASE s # {}
        <4>1. Pick(s) \in D /\ s \ {Pick(s)} \in SUBSET D
          BY <3>2 DEF Pick
        <4>2. fills[Pick(s)].quantity = q /\ v[Pick(s)] = q
          BY <1>1, <4>1
        <4>3. g[s] = v[Pick(s)] + g[s \ {Pick(s)}] /\ g[s \ {Pick(s)}] \in Int
          BY <2>1, <3>2, <4>1 DEF IsSum
        <4> QED BY <3>2, <4>2, <4>3
      <3> QED BY <3>1, <3>2
    <2> QED BY <2>1, <2>2
  <1>4. PICK h : h = CHOOSE g : Sums(g)
    OBVIOUS
  <1>5. Sums(h)
    BY <1>3, <1>4
  <1>6. FilledParts(fills) = h[D]
    BY <1>1, <1>4 DEF FilledParts, FoldSeq, FoldFunction, FoldFunctionOnSet, MapThenFoldSet, Pick
  <1>7. ASSUME NEW s \in SUBSET D PROVE h[s] = IF s = {} THEN 0 ELSE h[s \ {Pick(s)}] + v[Pick(s)]
    <2>1. CASE s = {}
      BY <1>5, <2>1
    <2>2. CASE s # {}
      <3>1. Pick(s) \in D
        BY <2>2 DEF Pick
      <3>2. fills[Pick(s)].quantity = v[Pick(s)]
        BY <1>1, <3>1
      <3> QED BY <1>5, <2>2, <3>2
    <2> QED BY <2>1, <2>2
  <1>8. IsSum(h, v, D)
    BY <1>2, <1>7, SumFromRight DEF IsSumRight
  <1>9. \A x \in D : v[x] = q
    BY <1>1
  <1>10. h[D] = q * Cardinality(D)
    <2>1. \A s \in SUBSET D : h[s] = q * Cardinality(s)
      BY <1>2, <1>8, <1>9, SumOfEqual
    <2>2. D \in SUBSET D
      OBVIOUS
    <2> QED BY <2>1, <2>2, Zenon
  <1> QED BY <1>2, <1>6, <1>10

\* The events of an order.
LEMMA EventsOf ==
    /\ ToSet(<<"submitted", "rejected">>) \subseteq PaperStatuses
    /\ ToSet(<<"submitted", "ack">>) \subseteq PaperStatuses
    /\ ToSet(<<"submitted", "ack", "canceled">>) \subseteq PaperStatuses
    /\ Last(<<"submitted", "rejected">>) = "rejected"
    /\ Last(<<"submitted", "ack">>) = "ack"
    /\ Last(<<"submitted", "ack", "canceled">>) = "canceled"
  BY DEF ToSet, PaperStatuses, Last

\* What is kept of an order: it is filled slice by slice or not at all, and closed.
KeptOrder(key, total, r) ==
    /\ r.quantity = total
    /\ r.fills = <<>> \/ (total > QueueAhead /\ \E order \in Nat : r.fills = FillsOf(key, order, total))
    /\ FilledParts(r.fills) <= Slices * total
    /\ Last(r.orderEvents) = "ack" => FilledParts(r.fills) = Slices * total
    /\ ToSet(r.orderEvents) \subseteq PaperStatuses

\* Every result of a new key is such an order.
LEMMA ResultIsKept ==
    ASSUME NEW key, NEW order \in Nat, NEW intent \in OrderIntents, NEW r \in Results(key, order, intent)
    PROVE  KeptOrder(key, intent.quantity, r)
  <1>1. PICK total, fills : total = intent.quantity /\ fills = FillsOf(key, order, total)
    OBVIOUS
  <1>2. total \in Nat /\ QueueAhead \in Nat /\ Slices \in Nat \ {0} /\ Slices * total \in Nat
    BY <1>1, PaperConstants DEF PaperConstants, OrderIntents
  <1>3. FilledParts(<<>>) = 0
    <2>1. DOMAIN <<>> = 1 .. 0 /\ 0 \in Nat /\ 0 \in Int
      OBVIOUS
    <2>2. \A n \in 1 .. 0 : <<>>[n].quantity = 0
      OBVIOUS
    <2>3. FilledParts(<<>>) = 0 * 0
      BY <2>1, <2>2, PartsOfFills
    <2> QED BY <2>3
  <1>4. total > QueueAhead => FilledParts(fills) \in Nat /\ FilledParts(fills) <= Slices * total
    <2>1. SUFFICES ASSUME total > QueueAhead
                   PROVE  FilledParts(fills) \in Nat /\ FilledParts(fills) <= Slices * total
      OBVIOUS
    <2>2. /\ ShareOf(total) \in Nat /\ Slices * ShareOf(total) <= Slices * total
          /\ \A n \in 1 .. Slices : FillQuantity(total, n) = ShareOf(total)
      BY <1>2, <2>1, SlicesAlike
    <2>3. DOMAIN fills = 1 .. Slices /\ \A n \in 1 .. Slices : fills[n].quantity = ShareOf(total)
      BY <1>1, <2>2 DEF FillsOf
    <2>4. PICK q : q = ShareOf(total)
      OBVIOUS
    <2>5. q \in Int /\ Slices \in Nat /\ \A n \in 1 .. Slices : fills[n].quantity = q
      BY <1>2, <2>2, <2>3, <2>4
    <2>6. FilledParts(fills) = q * Slices
      BY <2>3, <2>5, PartsOfFills
    <2>7. q * Slices \in Nat /\ q * Slices <= Slices * total
      BY <1>2, <2>2, <2>4
    <2> QED BY <2>6, <2>7
  <1> DEFINE made(events, f) == [order |-> order, quantity |-> total, orderEvents |-> events, fills |-> f]
  <1>5. \/ r = made(<<"submitted", "rejected">>, <<>>)
        \/ r = made(<<"submitted", "ack", "canceled">>, <<>>)
        \/ total > QueueAhead /\ r = made(<<"submitted", "ack", "canceled">>, fills)
        \/ total > QueueAhead /\ ~(FilledParts(fills) < Slices * total) /\ r = made(<<"submitted", "ack">>, fills)
    <2>1. CASE NeedsLimit /\ ~intent.limit
      BY <1>1, <2>1 DEF Results
    <2>2. CASE ~(NeedsLimit /\ ~intent.limit) /\ total <= QueueAhead
      BY <1>1, <2>2 DEF Results
    <2>3. CASE /\ ~(NeedsLimit /\ ~intent.limit) /\ ~(total <= QueueAhead)
               /\ FilledParts(fills) < Slices * total
      BY <1>1, <1>2, <2>3 DEF Results
    <2>4. CASE /\ ~(NeedsLimit /\ ~intent.limit) /\ ~(total <= QueueAhead)
               /\ ~(FilledParts(fills) < Slices * total)
      BY <1>1, <1>2, <2>4 DEF Results
    <2> QED BY <2>1, <2>2, <2>3, <2>4
  <1>6. ASSUME NEW events, r = made(events, <<>>), Last(events) # "ack", ToSet(events) \subseteq PaperStatuses
        PROVE  KeptOrder(key, total, r)
    <2>1. r.quantity = total /\ r.fills = <<>> /\ r.orderEvents = events
      BY <1>6
    <2>2. FilledParts(r.fills) <= Slices * total
      BY <1>2, <1>3, <2>1
    <2> QED BY <1>6, <2>1, <2>2 DEF KeptOrder
  <1>7. CASE total > QueueAhead /\ r = made(<<"submitted", "ack", "canceled">>, fills)
    BY <1>1, <1>4, <1>7, EventsOf DEF KeptOrder
  <1>8. CASE total > QueueAhead /\ ~(FilledParts(fills) < Slices * total) /\ r = made(<<"submitted", "ack">>, fills)
    <2>1. FilledParts(fills) = Slices * total
      BY <1>2, <1>4, <1>8
    <2> QED BY <1>1, <1>2, <1>8, <2>1, EventsOf DEF KeptOrder
  <1>9. CASE r = made(<<"submitted", "rejected">>, <<>>)
    BY <1>1, <1>6, <1>9, EventsOf
  <1>10. CASE r = made(<<"submitted", "ack", "canceled">>, <<>>)
    BY <1>1, <1>6, <1>10, EventsOf
  <1> QED BY <1>5, <1>7, <1>8, <1>9, <1>10

\* An answer is of a key's order of its life, and the order is that of an intent of the key.
AnswerTrue(a) ==
    /\ a.life \in Nat /\ a.life <= life /\ a.intent \in OrderIntents
    /\ \E b \in ToSet(answers) : b.key = a.key /\ KeptOrder(a.key, b.intent.quantity, a.result)
    /\ a.life = life => a.key \in DOMAIN intentResults /\ a.result = intentResults[a.key]

\* The inductive invariant.
PaperInv ==
    /\ life \in Nat
    /\ \E S : answers \in Seq(S)
    /\ intentResults = [k \in DOMAIN intentResults |-> intentResults[k]]
    /\ \A a \in ToSet(answers) : AnswerTrue(a)
    /\ OneOrderPerKey
    /\ \A k \in DOMAIN intentResults :
         \E b \in ToSet(answers) : b.key = k /\ KeptOrder(k, b.intent.quantity, intentResults[k])

\* What is in a longer sequence.
LEMMA ElementsAppended ==
    ASSUME NEW S, NEW s \in Seq(S), NEW e
    PROVE  ToSet(Append(s, e)) = ToSet(s) \cup {e} /\ Append(s, e) \in Seq(S \cup {e}) /\ Len(s) \in Nat
  <1>1. PICK t : t = Append(s, e)
    OBVIOUS
  <1>2. s \in Seq(S \cup {e}) /\ e \in S \cup {e}
    OBVIOUS
  <1>3. /\ t \in Seq(S \cup {e}) /\ Len(s) \in Nat /\ DOMAIN s = 1 .. Len(s)
        /\ DOMAIN t = 1 .. Len(s) + 1 /\ t[Len(s) + 1] = e /\ \A i \in 1 .. Len(s) : t[i] = s[i]
    BY <1>1, <1>2
  <1>4. ToSet(t) = ToSet(s) \cup {e}
    BY <1>3 DEF ToSet
  <1> QED BY <1>1, <1>3, <1>4

\* It holds at the start.
LEMMA PaperInvInit == PaperInit => PaperInv
  <1> SUFFICES ASSUME PaperInit PROVE PaperInv
    OBVIOUS
  <1>1. ToSet(answers) = {} /\ answers \in Seq({}) /\ DOMAIN intentResults = {} /\ life \in Nat
    BY DEF PaperInit, ToSet
  <1>2. intentResults = [k \in DOMAIN intentResults |-> intentResults[k]]
    BY DEF PaperInit
  <1> QED BY <1>1, <1>2 DEF PaperInv, OneOrderPerKey

\* An answer that is of the order kept under its key.
LEMMA AnswerKeeps ==
    ASSUME PaperInv, NEW key, NEW intent \in OrderIntents, NEW r, Answer(key, intent, r), UNCHANGED life,
           intentResults' = [k \in DOMAIN intentResults \cup {key} |-> IF k = key THEN r ELSE intentResults[k]],
           key \in DOMAIN intentResults => r = intentResults[key],
           key \notin DOMAIN intentResults => KeptOrder(key, intent.quantity, r)
    PROVE  PaperInv'
  <1>1. PICK S : answers \in Seq(S)
    BY DEF PaperInv
  <1>2. PICK e : e = [key |-> key, intent |-> intent, result |-> r, life |-> life]
    OBVIOUS
  <1>3. ToSet(answers') = ToSet(answers) \cup {e} /\ answers' \in Seq(S \cup {e})
    BY <1>1, <1>2, ElementsAppended DEF Answer
  <1>4. \E b \in ToSet(answers') : b.key = key /\ KeptOrder(key, b.intent.quantity, r)
    <2>1. CASE key \in DOMAIN intentResults
      BY <1>3, <2>1 DEF PaperInv
    <2>2. CASE key \notin DOMAIN intentResults
      BY <1>2, <1>3, <2>2
    <2> QED BY <2>1, <2>2
  <1>5. /\ DOMAIN intentResults' = DOMAIN intentResults \cup {key} /\ intentResults'[key] = r
        /\ \A k \in DOMAIN intentResults : intentResults'[k] = intentResults[k]
    OBVIOUS
  <1>6. ASSUME NEW a \in ToSet(answers') PROVE AnswerTrue(a)'
    <2>1. CASE a = e
      BY <1>2, <1>3, <1>4, <1>5, <2>1 DEF AnswerTrue, PaperInv
    <2>2. CASE a \in ToSet(answers)
      <3>1. AnswerTrue(a)
        BY <2>2 DEF PaperInv
      <3> QED BY <1>3, <1>5, <3>1 DEF AnswerTrue
    <2> QED BY <1>3, <2>1, <2>2
  <1>7. OneOrderPerKey'
    <2>1. ASSUME NEW a \in ToSet(answers), a.key = key, a.life = life PROVE a.result = r
      BY <2>1 DEF PaperInv, AnswerTrue
    <2>2. \A a, b \in ToSet(answers) : a.key = b.key /\ a.life = b.life => a.result = b.result
      BY DEF PaperInv, OneOrderPerKey
    <2>3. e.key = key /\ e.life = life /\ e.result = r
      BY <1>2
    <2> QED BY <1>3, <2>1, <2>2, <2>3 DEF OneOrderPerKey
  <1>8. ASSUME NEW k \in DOMAIN intentResults'
        PROVE  \E b \in ToSet(answers') : b.key = k /\ KeptOrder(k, b.intent.quantity, intentResults'[k])
    <2>1. CASE k = key
      BY <1>4, <1>5, <2>1
    <2>2. CASE k \in DOMAIN intentResults
      BY <1>3, <1>5, <2>2 DEF PaperInv
    <2> QED BY <1>5, <2>1, <2>2
  <1>9. intentResults' = [k \in DOMAIN intentResults' |-> intentResults'[k]]
    OBVIOUS
  <1> QED BY <1>3, <1>6, <1>7, <1>8, <1>9 DEF PaperInv, KeptOrder

\* Every step keeps the invariant.
LEMMA PaperInvStep == PaperInv /\ [PaperNext]_paperVars => PaperInv'
  <1> SUFFICES ASSUME PaperInv, [PaperNext]_paperVars PROVE PaperInv'
    OBVIOUS
  <1>1. ASSUME NEW key \in PaperKeys, NEW intent \in OrderIntents, ProcessIntent(key, intent) PROVE PaperInv'
    <2>1. CASE key \in DOMAIN intentResults
      <3>1. /\ Answer(key, intent, intentResults[key]) /\ UNCHANGED <<intentResults, life>>
        BY <1>1, <2>1 DEF ProcessIntent
      <3>2. intentResults' = [k \in DOMAIN intentResults \cup {key} |->
                                IF k = key THEN intentResults[key] ELSE intentResults[k]]
        <4>1. intentResults = [k \in DOMAIN intentResults |-> intentResults[k]]
          BY DEF PaperInv
        <4> QED BY <2>1, <3>1, <4>1
      <3> QED BY <2>1, <3>1, <3>2, AnswerKeeps
    <2>2. CASE key \notin DOMAIN intentResults
      <3>1. PICK r \in Results(key, Len(answers) + 1, intent) :
              /\ Answer(key, intent, r) /\ UNCHANGED life
              /\ intentResults' = [k \in DOMAIN intentResults \cup {key} |->
                                     IF k = key THEN r ELSE intentResults[k]]
        BY <1>1, <2>2 DEF ProcessIntent
      <3>2. Len(answers) + 1 \in Nat
        BY DEF PaperInv
      <3>3. KeptOrder(key, intent.quantity, r)
        BY <3>1, <3>2, ResultIsKept
      <3> QED BY <2>2, <3>1, <3>3, AnswerKeeps
    <2> QED BY <2>1, <2>2
  <1>2. CASE RestartEngine
    <2>1. life' = life + 1 /\ DOMAIN intentResults' = {} /\ answers' = answers /\ life \in Nat
      BY <1>2 DEF RestartEngine, PaperInv
    <2>2. ASSUME NEW a \in ToSet(answers) PROVE AnswerTrue(a)'
      <3>1. AnswerTrue(a)
        BY DEF PaperInv
      <3>2. a.life \in Nat /\ a.life < life'
        BY <2>1, <3>1 DEF AnswerTrue
      <3> QED BY <2>1, <3>1, <3>2 DEF AnswerTrue, KeptOrder
    <2>3. intentResults' = [k \in DOMAIN intentResults' |-> intentResults'[k]]
      BY <1>2 DEF RestartEngine
    <2> QED BY <2>1, <2>2, <2>3 DEF PaperInv, OneOrderPerKey
  <1>3. CASE UNCHANGED paperVars
    BY <1>3 DEF paperVars, PaperInv, AnswerTrue, OneOrderPerKey, KeptOrder
  <1> QED BY <1>1, <1>2, <1>3 DEF PaperNext

\* The sum over fills that are all alike.
LEMMA SumOfFills ==
    ASSUME NEW U, IsFiniteSet(U), NEW q \in Int, \A f \in U : f.quantity = q
    PROVE  MapThenSumSet(LAMBDA f : f.quantity, U) = q * Cardinality(U)
  <1>1. PICK v : v = [f \in U |-> q]
    OBVIOUS
  <1>2. v \in [U -> Int] /\ \A f \in U : v[f] = q
    BY <1>1
  <1> DEFINE Sums(h) == h = [s \in SUBSET U |-> IF s = {} THEN 0 ELSE Pick(s).quantity + h[s \ {Pick(s)}]]
  <1>3. \A s \in SUBSET U : s # {} => Pick(s) \in U /\ s \ {Pick(s)} \in SUBSET U
                                       /\ Pick(s).quantity = v[Pick(s)]
    BY <1>1 DEF Pick
  <1>4. \E h : Sums(h)
    <2>1. PICK g \in [SUBSET U -> Int] : IsSum(g, v, U)
      BY <1>2, SumExists
    <2> QED BY <1>3, <2>1, ZenonT(60) DEF IsSum
  <1>5. PICK h : h = CHOOSE g : Sums(g)
    OBVIOUS
  <1>6. Sums(h)
    BY <1>4, <1>5
  <1>7. MapThenSumSet(LAMBDA f : f.quantity, U) = h[U]
    BY <1>5 DEF MapThenSumSet, MapThenFoldSet, Pick
  <1>8. IsSum(h, v, U)
    BY <1>3, <1>6 DEF IsSum
  <1> QED BY <1>2, <1>7, <1>8, SumOfEqual

\* What the fills of all answers to a key come to: the slices of one order.
LEMMA BookedOnceHolds == PaperInv => BookedOnce
  <1> SUFFICES ASSUME PaperInv, KeyIsOneIntent, NEW a \in ToSet(answers)
               PROVE  LET fills == UNION {ToSet(b.result.fills) : b \in {c \in ToSet(answers) : c.key = a.key}}
                      IN  MapThenSumSet(LAMBDA f : f.quantity, fills) <= Slices * a.intent.quantity
    BY DEF BookedOnce
  <1>1. PICK U : U = UNION {ToSet(b.result.fills) : b \in {c \in ToSet(answers) : c.key = a.key}}
    OBVIOUS
  <1>2. PICK total, key : total = a.intent.quantity /\ key = a.key
    OBVIOUS
  <1>3. total \in Nat /\ QueueAhead \in Nat /\ Slices \in Nat \ {0}
    BY <1>2, PaperConstants DEF PaperConstants, OrderIntents, PaperInv, AnswerTrue
  <1>4. ASSUME NEW f \in U
        PROVE  total > QueueAhead /\ \E n \in 1 .. Slices : f = [id |-> <<key, n>>, quantity |-> FillQuantity(total, n)]
    <2>1. PICK b \in ToSet(answers) : b.key = key /\ f \in ToSet(b.result.fills)
      BY <1>1, <1>2
    <2>2. PICK d \in ToSet(answers) : d.key = key /\ KeptOrder(key, d.intent.quantity, b.result)
      BY <2>1 DEF PaperInv, AnswerTrue
    <2>3. d.intent = a.intent
      BY <1>2, <2>2 DEF KeyIsOneIntent
    <2>4. KeptOrder(key, total, b.result)
      BY <1>2, <2>2, <2>3
    <2>5. b.result.fills # <<>>
      BY <2>1 DEF ToSet
    <2>6. PICK order \in Nat : total > QueueAhead /\ b.result.fills = FillsOf(key, order, total)
      BY <2>4, <2>5 DEF KeptOrder
    <2> QED BY <2>1, <2>6 DEF ToSet, FillsOf, FillId
  <1>5. CASE U = {}
    <2>1. IsFiniteSet(U) /\ Cardinality(U) = 0 /\ 0 \in Int /\ \A f \in U : f.quantity = 0
      BY <1>5, FS_EmptySet
    <2>2. MapThenSumSet(LAMBDA f : f.quantity, U) = 0 * Cardinality(U)
      BY <2>1, SumOfFills
    <2>3. 0 * Cardinality(U) = 0 /\ Slices * total >= 0
      BY <1>3, <2>1
    <2> QED BY <1>1, <1>2, <2>2, <2>3
  <1>6. CASE U # {}
    <2>1. total > QueueAhead
      BY <1>4, <1>6
    <2>2. PICK q : q = ShareOf(total)
      OBVIOUS
    <2>3. q \in Nat /\ q \in Int /\ Slices * q <= Slices * total
          /\ \A n \in 1 .. Slices : FillQuantity(total, n) = q
      BY <1>3, <2>1, <2>2, SlicesAlike
    <2>4. \A f \in U : f.quantity = q /\ f.id[2] \in 1 .. Slices /\ f = [id |-> <<key, f.id[2]>>, quantity |-> q]
      BY <1>4, <2>3
    <2>5. PICK g : g = [f \in U |-> f.id[2]]
      OBVIOUS
    <2>6. g \in Injection(U, 1 .. Slices)
      <3>1. g \in [U -> 1 .. Slices]
        BY <2>4, <2>5
      <3>2. \A x, y \in U : g[x] = g[y] => x = y
        BY <2>4, <2>5
      <3> QED BY <3>1, <3>2 DEF Injection, IsInjective
    <2>7. IsFiniteSet(1 .. Slices) /\ Cardinality(1 .. Slices) = Slices
      BY <1>3, FS_Interval
    <2>8. IsFiniteSet(U) /\ Cardinality(U) <= Slices
      BY <2>6, <2>7, FS_Injection
    <2>9. MapThenSumSet(LAMBDA f : f.quantity, U) = q * Cardinality(U)
      BY <2>3, <2>4, <2>8, SumOfFills
    <2>10. PICK n : n = Cardinality(U)
      OBVIOUS
    <2>11. n \in Nat /\ n <= Slices
      BY <2>8, <2>10, FS_CardinalityType
    <2>12. q * n <= Slices * q
      <3>1. PICK m : m = Slices - n
        OBVIOUS
      <3>2. m \in Nat /\ Slices = n + m
        BY <1>3, <2>11, <3>1
      <3>3. PICK all, some, rest : all = Slices * q /\ some = q * n /\ rest = m * q
        OBVIOUS
      <3>4. all \in Int /\ some \in Int /\ rest \in Nat
        BY <1>3, <2>3, <2>11, <3>2, <3>3
      <3>5. all = some + rest
        BY <2>3, <2>11, <3>2, <3>3
      <3>6. some <= all
        BY <3>4, <3>5
      <3> QED BY <3>3, <3>6
    <2>13. q * n \in Int /\ Slices * q \in Int /\ Slices * total \in Int
      BY <1>3, <2>3, <2>11
    <2> QED BY <1>1, <1>2, <2>3, <2>9, <2>10, <2>12, <2>13
  <1> QED BY <1>5, <1>6

\* For any keys, sizes, queue and slices, through repeated calls and restarts: a key is one
\* order, booked once, closed by its last event and never filled beyond its size.
THEOREM OrdersStayKept == PaperSpec => []OrdersKept
  <1>1. PaperInv => OrdersKept
    <2>1. SUFFICES ASSUME PaperInv PROVE OrderClosed
      BY BookedOnceHolds DEF PaperInv, OrdersKept
    <2>2. ASSUME NEW a \in ToSet(answers) 
          PROVE  /\ FilledParts(a.result.fills) <= Slices * a.result.quantity
                 /\ Last(a.result.orderEvents) = "ack"
                    => FilledParts(a.result.fills) = Slices * a.result.quantity
                 /\ ToSet(a.result.orderEvents) \subseteq PaperStatuses
      <3>1. AnswerTrue(a)
        BY <2>1 DEF PaperInv
      <3>2. PICK b \in ToSet(answers) : KeptOrder(a.key, b.intent.quantity, a.result)
        BY <3>1 DEF AnswerTrue
      <3>3. a.result.quantity = b.intent.quantity
        BY <3>2 DEF KeptOrder
      <3> QED BY <3>2, <3>3 DEF KeptOrder
    <2> QED BY <2>2 DEF OrderClosed
  <1> QED BY <1>1, PaperInvInit, PaperInvStep, PTL DEF PaperSpec

-----------------------------------------------------------------------------
(* Sums of functions. *)

\* Sums of the same values are the same.
LEMMA SameSums ==
    ASSUME NEW D, IsFiniteSet(D), NEW v \in [D -> Int], NEW g, IsSum(g, v, D),
           NEW E, IsFiniteSet(E), NEW w \in [E -> Int], NEW h, IsSum(h, w, E),
           NEW s \in SUBSET D, s \subseteq E, \A x \in s : v[x] = w[x]
    PROVE  g[s] = h[s]
  <1> DEFINE T == {n \in Nat : \A t \in SUBSET s : Cardinality(t) <= n => g[t] = h[t]}
  <1>1. \A t \in SUBSET s : t \in SUBSET D /\ t \in SUBSET E /\ IsFiniteSet(t) /\ Cardinality(t) \in Nat
    BY FS_Subset, FS_CardinalityType
  <1>2. 0 \in T
    <2>1. \A t \in SUBSET s : Cardinality(t) <= 0 => t = {}
      BY <1>1, NoElements
    <2> QED BY <2>1 DEF IsSum
  <1>3. ASSUME NEW n \in Nat, n \in T PROVE n + 1 \in T
    <2>1. SUFFICES ASSUME NEW t \in SUBSET s, Cardinality(t) = n + 1 PROVE g[t] = h[t]
      BY <1>1, <1>3
    <2>2. t # {} /\ Pick(t) \in t
      BY <2>1, FS_EmptySet DEF Pick
    <2>3. t \ {Pick(t)} \in SUBSET s /\ Cardinality(t \ {Pick(t)}) = n /\ n <= n
      <3>1. Cardinality(t \ {Pick(t)}) = Cardinality(t) - 1
        BY <1>1, <2>2, FS_RemoveElement
      <3> QED BY <2>1, <3>1
    <2>4. g[t \ {Pick(t)}] = h[t \ {Pick(t)}]
      BY <1>3, <2>3
    <2>5. g[t] = v[Pick(t)] + g[t \ {Pick(t)}]
      BY <1>1, <2>2 DEF IsSum
    <2>6. h[t] = w[Pick(t)] + h[t \ {Pick(t)}]
      BY <1>1, <2>2 DEF IsSum
    <2> QED BY <2>2, <2>4, <2>5, <2>6
  <1>4. \A n \in Nat : n \in T
    <2> HIDE DEF T
    <2> QED BY <1>2, <1>3, NumberInduction
  <1>5. Cardinality(s) \in T /\ Cardinality(s) <= Cardinality(s)
    BY <1>1, <1>4
  <1> QED BY <1>5

\* A sum is what its recursion comes to.
LEMMA SumIs ==
    ASSUME NEW D, IsFiniteSet(D), NEW v \in [D -> Int]
    PROVE  \E g : IsSum(g, v, D) /\ SumFunction(v) = g[D]
  <1> DEFINE Sums(h) == h = [s \in SUBSET D |-> IF s = {} THEN 0 ELSE v[Pick(s)] + h[s \ {Pick(s)}]]
  <1>1. \E h : Sums(h)
    <2>1. PICK g \in [SUBSET D -> Int] : IsSum(g, v, D)
      BY SumExists
    <2> QED BY <2>1 DEF IsSum
  <1>2. PICK h : h = CHOOSE g : Sums(g)
    OBVIOUS
  <1>3. Sums(h)
    BY <1>1, <1>2
  <1>4. DOMAIN v = D
    OBVIOUS
  <1>5. SumFunction(v) = h[D]
    BY <1>2, <1>4 DEF SumFunction, SumFunctionOnSet, FoldFunctionOnSet, MapThenFoldSet, Pick
  <1>6. IsSum(h, v, D)
    BY <1>3 DEF IsSum
  <1> QED BY <1>5, <1>6

\* A sum over nothing, and one without the value at a point.
LEMMA SumOfNothing == ASSUME NEW v, DOMAIN v = {}, v = [x \in {} |-> v[x]] PROVE SumFunction(v) = 0
  <1>1. v \in [{} -> Int] /\ IsFiniteSet({}) /\ {} \in SUBSET {}
    BY FS_EmptySet
  <1>2. PICK g : IsSum(g, v, {}) /\ SumFunction(v) = g[{}]
    BY <1>1, SumIs
  <1> QED BY <1>2 DEF IsSum

\* A sum of integers is an integer.
LEMMA SumType == ASSUME NEW D, IsFiniteSet(D), NEW v \in [D -> Int] PROVE SumFunction(v) \in Int
  <1>1. PICK g : IsSum(g, v, D) /\ SumFunction(v) = g[D]
    BY SumIs
  <1> QED BY <1>1, SumInAnyOrder

\* A sum is what one element adds to the sum over the others.
LEMMA SumWithout ==
    ASSUME NEW D, IsFiniteSet(D), NEW v \in [D -> Int], NEW x \in D,
           NEW w \in [D \ {x} -> Int], \A y \in D \ {x} : w[y] = v[y]
    PROVE  SumFunction(v) = v[x] + SumFunction(w)
  <1>1. PICK g : IsSum(g, v, D) /\ SumFunction(v) = g[D]
    BY SumIs
  <1>2. IsFiniteSet(D \ {x}) /\ D \ {x} \in SUBSET D
    BY FS_Subset
  <1>3. PICK h : IsSum(h, w, D \ {x}) /\ SumFunction(w) = h[D \ {x}]
    BY <1>2, SumIs
  <1>4. h[D \ {x}] = g[D \ {x}]
    BY <1>1, <1>2, <1>3, SameSums
  <1>5. g[D] = v[x] + g[D \ {x}]
    BY <1>1, SumInAnyOrder
  <1> QED BY <1>1, <1>3, <1>4, <1>5

\* A sum of which one value changes.
LEMMA SumChanged ==
    ASSUME NEW D, IsFiniteSet(D), NEW v \in [D -> Int], NEW x \in D,
           NEW w \in [D -> Int], \A y \in D \ {x} : w[y] = v[y]
    PROVE  SumFunction(w) = SumFunction(v) + (w[x] - v[x])
  <1>1. PICK u : u = [y \in D \ {x} |-> v[y]]
    OBVIOUS
  <1>2. u \in [D \ {x} -> Int] /\ \A y \in D \ {x} : u[y] = v[y] /\ u[y] = w[y]
    BY <1>1
  <1>3. SumFunction(v) = v[x] + SumFunction(u) /\ SumFunction(w) = w[x] + SumFunction(u)
    BY <1>2, SumWithout
  <1>4. SumFunction(u) \in Int
    <2>1. IsFiniteSet(D \ {x})
      BY FS_Subset
    <2> QED BY <1>2, <2>1, SumType
  <1>5. v[x] \in Int /\ w[x] \in Int
    OBVIOUS
  <1> QED BY <1>3, <1>4, <1>5

\* A sum with one value more.
LEMMA SumOneMore ==
    ASSUME NEW D, IsFiniteSet(D), NEW v \in [D -> Int], NEW x, x \notin D,
           NEW w \in [D \cup {x} -> Int], \A y \in D : w[y] = v[y]
    PROVE  SumFunction(w) = SumFunction(v) + w[x]
  <1>1. IsFiniteSet(D \cup {x}) /\ (D \cup {x}) \ {x} = D /\ x \in D \cup {x}
    BY FS_AddElement
  <1>2. v \in [(D \cup {x}) \ {x} -> Int] /\ \A y \in (D \cup {x}) \ {x} : v[y] = w[y]
    BY <1>1
  <1>3. SumFunction(w) = w[x] + SumFunction(v)
    BY <1>1, <1>2, SumWithout
  <1>4. SumFunction(v) \in Int /\ w[x] \in Int
    BY SumType
  <1> QED BY <1>3, <1>4

\* The sum over a sequence with one element more.
LEMMA SumAppended ==
    ASSUME NEW n \in Nat, NEW v \in [1 .. n -> Int], NEW w \in [1 .. n + 1 -> Int], \A k \in 1 .. n : w[k] = v[k]
    PROVE  SumFunction(w) = SumFunction(v) + w[n + 1]
  <1>1. PICK D, x : D = 1 .. n /\ x = n + 1
    OBVIOUS
  <1>2. D \cup {x} = 1 .. n + 1 /\ x \notin D
    BY <1>1
  <1>3. IsFiniteSet(D)
    BY <1>1, FS_Interval
  <1>4. v \in [D -> Int] /\ w \in [D \cup {x} -> Int] /\ \A y \in D : w[y] = v[y]
    BY <1>1, <1>2
  <1>5. SumFunction(w) = SumFunction(v) + w[x]
    BY <1>2, <1>3, <1>4, SumOneMore
  <1> QED BY <1>1, <1>5

\* A sum is not more than the sum of the magnitudes.
LEMMA SumOfMagnitudes ==
    ASSUME NEW D, IsFiniteSet(D), NEW v \in [D -> Int], NEW m \in [D -> Int], \A x \in D : m[x] = Magnitude(v[x])
    PROVE  Magnitude(SumFunction(v)) <= SumFunction(m)
  <1>1. PICK g : IsSum(g, v, D) /\ SumFunction(v) = g[D]
    BY SumIs
  <1>2. PICK h : IsSum(h, m, D) /\ SumFunction(m) = h[D]
    BY SumIs
  <1> DEFINE T == {n \in Nat : \A t \in SUBSET D : Cardinality(t) <= n => Magnitude(g[t]) <= h[t]}
  <1>3. \A t \in SUBSET D : IsFiniteSet(t) /\ Cardinality(t) \in Nat
    BY FS_Subset, FS_CardinalityType
  <1>4. 0 \in T
    <2>1. \A t \in SUBSET D : Cardinality(t) <= 0 => t = {}
      BY NoElements
    <2>2. g[{}] = 0 /\ h[{}] = 0
      BY <1>1, <1>2 DEF IsSum
    <2>3. Magnitude(0) <= 0
      BY DEF Magnitude
    <2> QED BY <2>1, <2>2, <2>3
  <1>5. ASSUME NEW n \in Nat, n \in T PROVE n + 1 \in T
    <2>1. SUFFICES ASSUME NEW t \in SUBSET D, Cardinality(t) = n + 1 PROVE Magnitude(g[t]) <= h[t]
      BY <1>3, <1>5
    <2>2. PICK x : x \in t
      BY <2>1, FS_EmptySet
    <2>3. t \ {x} \in SUBSET D /\ Cardinality(t \ {x}) = n /\ n <= n
      BY <1>3, <2>1, <2>2, Without
    <2>4. Magnitude(g[t \ {x}]) <= h[t \ {x}]
      BY <1>5, <2>3
    <2>5. g[t] = v[x] + g[t \ {x}] /\ g[t \ {x}] \in Int
      <3>1. \A u \in SUBSET D : g[u] \in Int /\ \A y \in u : g[u] = v[y] + g[u \ {y}]
        BY <1>1, SumInAnyOrder
      <3> QED BY <2>2, <2>3, <3>1
    <2>6. h[t] = m[x] + h[t \ {x}] /\ h[t \ {x}] \in Int
      <3>1. \A u \in SUBSET D : h[u] \in Int /\ \A y \in u : h[u] = m[y] + h[u \ {y}]
        BY <1>2, SumInAnyOrder
      <3> QED BY <2>2, <2>3, <3>1
    <2>7. v[x] \in Int /\ m[x] = Magnitude(v[x])
      BY <2>2
    <2> QED BY <2>4, <2>5, <2>6, <2>7 DEF Magnitude
  <1>6. \A n \in Nat : n \in T
    <2> HIDE DEF T
    <2> QED BY <1>4, <1>5, NumberInduction
  <1>7. Cardinality(D) \in T /\ Cardinality(D) <= Cardinality(D)
    BY <1>3, <1>6
  <1> QED BY <1>1, <1>2, <1>7

-----------------------------------------------------------------------------
(* Folds from the left. *)

\* Every set of positions that is not empty has a last one.
LEMMA LastPosition ==
    ASSUME NEW n \in Nat, NEW s \in SUBSET (1 .. n), s # {}
    PROVE  Max(s) \in s /\ \A k \in s : k <= Max(s)
  <1> DEFINE T == {m \in Nat : \A t \in SUBSET (1 .. m) : t # {} => \E k \in t : \A l \in t : k >= l}
  <1>1. 0 \in T
    <2>1. 1 .. 0 = {}
      OBVIOUS
    <2>2. \A t \in SUBSET (1 .. 0) : t = {}
      BY <2>1
    <2> QED BY <2>2
  <1>2. ASSUME NEW m \in Nat, m \in T PROVE m + 1 \in T
    <2>1. SUFFICES ASSUME NEW t \in SUBSET (1 .. m + 1), t # {}
                   PROVE  \E k \in t : \A l \in t : k >= l
      OBVIOUS
    <2>2. CASE m + 1 \in t
      BY <2>2
    <2>3. CASE m + 1 \notin t
      <3>1. t \in SUBSET (1 .. m)
        BY <2>3
      <3> QED BY <1>2, <2>1, <3>1
    <2> QED BY <2>2, <2>3
  <1>3. n \in T
    <2>1. \A m \in Nat : m \in T
      <3> HIDE DEF T
      <3> QED BY <1>1, <1>2, NumberInduction
    <2> QED BY <2>1
  <1>4. \E k \in s : \A l \in s : k >= l
    BY <1>3
  <1> QED BY <1>4 DEF Max

\* The first positions.
LEMMA FirstPositions ==
    ASSUME NEW n \in Nat, NEW k \in 1 .. n
    PROVE  /\ Max(1 .. k) = k /\ (1 .. k) \ {k} = 1 .. (k - 1)
           /\ 1 .. k # {} /\ 1 .. k \in SUBSET (1 .. n) /\ k - 1 \in 0 .. n
  <1>1. PICK s : s = 1 .. k
    OBVIOUS
  <1>2. k \in Nat /\ k \in s /\ s \in SUBSET (1 .. k)
    BY <1>1
  <1>3. Max(s) \in s /\ \A l \in s : l <= Max(s)
    BY <1>2, LastPosition
  <1> QED BY <1>1, <1>2, <1>3

\* A fold that takes the last position first has a solution.
FoldsBack(g, base, f, n) ==
    \A s \in SUBSET (1 .. n) : g[s] = IF s = {} THEN base ELSE f[Max(s)][g[s \ {Max(s)}]]

\* A fold over the numbers up to a number exists.
LEMMA FoldsBackExists ==
    ASSUME NEW n \in Nat, NEW V, NEW base \in V, NEW f \in [1 .. n -> [V -> V]]
    PROVE  \E g \in [SUBSET (1 .. n) -> V] : FoldsBack(g, base, f, n)
  <1>1. PICK D, c : D = 1 .. n /\ c = [s \in SUBSET D |-> Max(s)]
    OBVIOUS
  <1>2. IsFiniteSet(D)
    BY <1>1, FS_Interval
  <1>3. \A s \in SUBSET D : s # {} => c[s] \in s
    BY <1>1, LastPosition
  <1>4. PICK g \in [SUBSET D -> V] : \A s \in SUBSET D : FoldBy(g, base, f, c, s)
    BY <1>1, <1>2, <1>3, FoldExists
  <1> QED BY <1>1, <1>4 DEF FoldBy, FoldsBack

\* What goes from one number to the next holds up to a bound.
LEMMA NumbersUpTo ==
    ASSUME NEW n \in Nat, NEW S \in SUBSET Nat, 0 \in S, \A k \in 1 .. n : k - 1 \in S => k \in S
    PROVE  \A k \in 0 .. n : k \in S
  <1> DEFINE T == {k \in Nat : k <= n => k \in S}
  <1>1. 0 \in T
    OBVIOUS
  <1>2. ASSUME NEW k \in Nat, k \in T PROVE k + 1 \in T
    <2>1. SUFFICES ASSUME k + 1 <= n PROVE k + 1 \in S
      OBVIOUS
    <2>2. k \in S /\ k + 1 \in 1 .. n /\ (k + 1) - 1 = k
      BY <1>2, <2>1
    <2> QED BY <2>2
  <1>3. \A k \in Nat : k \in T
    <2> HIDE DEF T
    <2> QED BY <1>1, <1>2, NumberInduction
  <1> QED BY <1>3

-----------------------------------------------------------------------------
(* The order of the times. *)

\* The events in the order of their times are the events, each at a place of its own.
Placing(p, events, n) ==
    /\ \A k \in 1 .. n : Placed(events, k) = p[k]
    /\ \A k \in 1 .. n : \E l \in 1 .. n : p[l] = k
    /\ \A k, l \in 1 .. n : p[k] = p[l] => k = l

\* Every event has exactly one place in the order of the times, and every place one event.
LEMMA EachHasAPlace ==
    ASSUME NEW n \in Nat, NEW events, DOMAIN events = 1 .. n, \A k \in 1 .. n : events[k].ts \in Int
    PROVE  \E p \in [1 .. n -> 1 .. n] : Placing(p, events, n)
  <1>1. PICK D : D = 1 .. n
    OBVIOUS
  <1>2. PICK before : before = [k \in D |-> Earlier(events, k)]
    OBVIOUS
  <1>3. /\ IsFiniteSet(D) /\ Cardinality(D) = n
        /\ \A k \in D : before[k] \in SUBSET D /\ k \in before[k]
    BY <1>1, <1>2, FS_Interval DEF Earlier
  <1>4. PICK place : place = [k \in D |-> Cardinality(before[k])]
    OBVIOUS
  <1>5. ASSUME NEW k \in D PROVE IsFiniteSet(before[k]) /\ place[k] \in D
    <2>1. IsFiniteSet(before[k]) /\ Cardinality(before[k]) <= n
      BY <1>3, FS_Subset
    <2>2. Cardinality(before[k]) \in Nat /\ Cardinality(before[k]) # 0
      BY <1>3, <2>1, FS_CardinalityType, FS_EmptySet
    <2> QED BY <1>1, <1>4, <2>1, <2>2
  <1>6. ASSUME NEW k \in D, NEW l \in D, place[k] = place[l] PROVE k = l
    <2>1. /\ events[k].ts \in Int /\ events[l].ts \in Int /\ k \in Int /\ l \in Int
      BY <1>1
    <2>2. before[k] \subseteq before[l] \/ before[l] \subseteq before[k]
      <3>1. \A m \in D : events[m].ts \in Int /\ m \in Int
        BY <1>1
      <3> QED BY <1>1, <1>2, <2>1, <3>1 DEF Earlier
    <2>3. before[k] = before[l]
      <3>1. CASE before[k] \subseteq before[l]
        BY <1>4, <1>5, <1>6, <3>1, FS_Subset
      <3>2. CASE before[l] \subseteq before[k]
        BY <1>4, <1>5, <1>6, <3>2, FS_Subset
      <3> QED BY <2>2, <3>1, <3>2
    <2>4. k \in before[l] /\ l \in before[k]
      BY <1>3, <2>3
    <2> QED BY <1>2, <2>1, <2>4 DEF Earlier
  <1>7. place \in Injection(D, D)
    <2>1. place \in [D -> D]
      BY <1>4, <1>5
    <2> QED BY <1>6, <2>1 DEF Injection, IsInjective
  <1>8. place \in Surjection(D, D)
    BY <1>3, <1>7, FS_Injection
  <1>9. \A k \in D : \E l \in D : place[l] = k
    BY <1>8 DEF Surjection
  <1>10. PICK p : p = [k \in D |-> CHOOSE l \in D : place[l] = k]
    OBVIOUS
  <1>11. \A k \in D : p[k] \in D /\ place[p[k]] = k
    BY <1>9, <1>10
  <1>12. ASSUME NEW k \in D PROVE Placed(events, k) = p[k]
    <2>1. p[k] = CHOOSE l \in D : place[l] = k
      BY <1>10
    <2>2. \A l \in D : place[l] = Cardinality(Earlier(events, l))
      BY <1>2, <1>4
    <2>3. Placed(events, k) \in D /\ place[Placed(events, k)] = k
      <3>1. \E l \in DOMAIN events : Cardinality(Earlier(events, l)) = k
        BY <1>1, <1>9, <2>2
      <3>2. Placed(events, k) \in DOMAIN events /\ Cardinality(Earlier(events, Placed(events, k))) = k
        BY <3>1 DEF Placed
      <3> QED BY <1>1, <2>2, <3>2
    <2> QED BY <1>6, <1>11, <2>3
  <1>13. \A k \in D : p[place[k]] = k /\ place[k] \in D
    BY <1>5, <1>6, <1>11
  <1>14. \A k, l \in D : p[k] = p[l] => k = l
    BY <1>11
  <1>15. p \in [D -> D]
    BY <1>10, <1>11
  <1>16. Placing(p, events, n)
    <2>1. \A k \in D : \E l \in D : p[l] = k
      BY <1>13
    <2> QED BY <1>1, <1>12, <1>14, <2>1 DEF Placing
  <1> QED BY <1>1, <1>15, <1>16

\* So each is there as often as before.
SameCount(e, some, others, n) ==
    Cardinality({k \in 1 .. n : some[k] = e}) = Cardinality({k \in 1 .. n : others[k] = e})

\* sorted keeps every event as often as it was there.
LEMMA InTimeKeeps ==
    ASSUME NEW n \in Nat, NEW events \in [1 .. n -> Executions]
    PROVE  /\ InTime(events) \in [1 .. n -> Executions]
           /\ \A e : SameCount(e, InTime(events), events, n)
  <1>1. DOMAIN events = 1 .. n /\ \A k \in 1 .. n : events[k].ts \in Int
    BY AnalyticsConstants DEF Executions, AnalyticsConstants
  <1>2. PICK p \in [1 .. n -> 1 .. n] : Placing(p, events, n)
    BY <1>1, EachHasAPlace
  <1>3. PICK sorted : sorted = InTime(events)
    OBVIOUS
  <1>4. sorted = [k \in 1 .. n |-> events[p[k]]]
    BY <1>1, <1>2, <1>3 DEF InTime, Placing
  <1>5. sorted \in [1 .. n -> Executions]
    BY <1>2, <1>4
  <1>6. ASSUME NEW e PROVE SameCount(e, sorted, events, n)
    <2>1. PICK A, B : A = {k \in 1 .. n : sorted[k] = e} /\ B = {k \in 1 .. n : events[k] = e}
      OBVIOUS
    <2>2. PICK q : q = [k \in A |-> p[k]]
      OBVIOUS
    <2>3. q \in [A -> B]
      BY <1>2, <1>4, <2>1, <2>2
    <2>4. \A k, l \in A : q[k] = q[l] => k = l
      BY <1>2, <2>1, <2>2 DEF Placing
    <2>5. \A k \in B : \E l \in A : q[l] = k
      BY <1>2, <1>4, <2>1, <2>2 DEF Placing
    <2>6. q \in Bijection(A, B)
      BY <2>3, <2>4, <2>5 DEF Bijection, Injection, Surjection, IsInjective
    <2>7. IsFiniteSet(A)
      <3>1. IsFiniteSet(1 .. n) /\ A \in SUBSET (1 .. n)
        BY <2>1, FS_Interval
      <3> QED BY <3>1, FS_Subset
    <2> QED BY <2>1, <2>6, <2>7, FS_Bijection DEF ExistsBijection, SameCount
  <1> QED BY <1>3, <1>5, <1>6

-----------------------------------------------------------------------------
(* The execution analytics. *)

Sums == [traded : Int, exposure : [Tickers -> Int], gross : Int, net : Int,
         pnl : Int, wins : Int, losses : Int]
Points == [ts : 1 .. LastStamp, pnl : Int]
Stores == [events : Seq(Executions), totals : Sums, curve : Seq(Points)]

\* The totals of a store are those of its events.
SumsTrue(store) ==
    /\ \A s \in Tickers : store.totals.exposure[s] = Held(store.events, s)
    /\ store.totals.gross = SumFunction([s \in Tickers |-> Magnitude(store.totals.exposure[s])])
    /\ store.totals.net = SumFunction(store.totals.exposure)
    /\ store.totals.gross <= store.totals.traded
    /\ store.totals.traded = Dealt(store.events)
    /\ store.totals.pnl = Earned(store.events)
    /\ store.totals.wins + store.totals.losses = Len(store.events)

\* An event in numbers.
LEMMA EventNumbers ==
    ASSUME NEW e \in Executions
    PROVE  /\ e.ts \in 1 .. LastStamp /\ e.symbol \in Tickers /\ e.qty \in Nat /\ e.edge \in Int
           /\ Signed(e) \in Int /\ TradePnl(e) \in Int /\ Magnitude(Signed(e)) = e.qty
  <1>1. e.ts \in 1 .. LastStamp /\ e.symbol \in Tickers /\ e.qty \in Nat /\ e.edge \in Int /\ e.buy \in BOOLEAN
    BY AnalyticsConstants DEF AnalyticsConstants, Executions
  <1>2. Signed(e) \in Int /\ Magnitude(Signed(e)) = e.qty
    BY <1>1 DEF Signed, Magnitude
  <1>3. TradePnl(e) \in Int
    BY <1>1 DEF TradePnl
  <1> QED BY <1>1, <1>2, <1>3

\* What the sums over the events come to with one event more.
LEMMA HeldAppended ==
    ASSUME NEW events \in Seq(Executions), NEW e \in Executions
    PROVE  /\ \A s \in Tickers : Held(Append(events, e), s)
                                  = Held(events, s) + (IF e.symbol = s THEN Signed(e) ELSE 0)
           /\ Dealt(Append(events, e)) = Dealt(events) + e.qty
           /\ Earned(Append(events, e)) = Earned(events) + TradePnl(e)
  <1>1. PICK n : n = Len(events)
    OBVIOUS
  <1>2. PICK more : more = Append(events, e)
    OBVIOUS
  <1>3. /\ n \in Nat /\ DOMAIN events = 1 .. n /\ DOMAIN more = 1 .. n + 1 /\ more[n + 1] = e
        /\ \A k \in 1 .. n : more[k] = events[k] /\ events[k] \in Executions
    BY <1>1, <1>2
  <1>4. \A k \in 1 .. n + 1 : more[k] \in Executions
    BY <1>3
  <1>5. ASSUME NEW s \in Tickers
        PROVE  Held(more, s) = Held(events, s) + (IF e.symbol = s THEN Signed(e) ELSE 0)
    <2>1. PICK v : v = [k \in 1 .. n |-> IF events[k].symbol = s THEN Signed(events[k]) ELSE 0]
      OBVIOUS
    <2>2. PICK w : w = [k \in 1 .. n + 1 |-> IF more[k].symbol = s THEN Signed(more[k]) ELSE 0]
      OBVIOUS
    <2>3. v \in [1 .. n -> Int] /\ w \in [1 .. n + 1 -> Int] /\ \A k \in 1 .. n : w[k] = v[k]
      BY <1>3, <1>4, <2>1, <2>2, EventNumbers
    <2>4. SumFunction(w) = SumFunction(v) + w[n + 1]
      BY <1>3, <2>3, SumAppended
    <2>5. Held(more, s) = SumFunction(w) /\ Held(events, s) = SumFunction(v)
      BY <1>3, <2>1, <2>2 DEF Held
    <2>6. w[n + 1] = IF e.symbol = s THEN Signed(e) ELSE 0
      BY <1>3, <2>2
    <2> QED BY <2>4, <2>5, <2>6
  <1>6. Dealt(more) = Dealt(events) + e.qty
    <2>1. PICK v, w : v = [k \in 1 .. n |-> events[k].qty] /\ w = [k \in 1 .. n + 1 |-> more[k].qty]
      OBVIOUS
    <2>2. v \in [1 .. n -> Int] /\ w \in [1 .. n + 1 -> Int] /\ \A k \in 1 .. n : w[k] = v[k]
      BY <1>3, <1>4, <2>1, EventNumbers
    <2>3. SumFunction(w) = SumFunction(v) + w[n + 1]
      BY <1>3, <2>2, SumAppended
    <2>4. Dealt(more) = SumFunction(w) /\ Dealt(events) = SumFunction(v)
      BY <1>3, <2>1 DEF Dealt
    <2>5. w[n + 1] = e.qty
      BY <1>3, <2>1
    <2> QED BY <2>3, <2>4, <2>5
  <1>7. Earned(more) = Earned(events) + TradePnl(e)
    <2>1. PICK v, w : v = [k \in 1 .. n |-> TradePnl(events[k])] /\ w = [k \in 1 .. n + 1 |-> TradePnl(more[k])]
      OBVIOUS
    <2>2. v \in [1 .. n -> Int] /\ w \in [1 .. n + 1 -> Int] /\ \A k \in 1 .. n : w[k] = v[k]
      BY <1>3, <1>4, <2>1, EventNumbers
    <2>3. SumFunction(w) = SumFunction(v) + w[n + 1]
      BY <1>3, <2>2, SumAppended
    <2>4. Earned(more) = SumFunction(w) /\ Earned(events) = SumFunction(v)
      BY <1>3, <2>1 DEF Earned
    <2>5. w[n + 1] = TradePnl(e)
      BY <1>3, <2>1
    <2> QED BY <2>3, <2>4, <2>5
  <1> QED BY <1>2, <1>5, <1>6, <1>7

\* A store with no events.
LEMMA EmptyIsTrue == EmptyStore \in Stores /\ SumsTrue(EmptyStore)
  <1>1. Zero \in Sums /\ EmptyStore \in Stores
    BY DEF Zero, EmptyStore, Sums, Stores
  <1>2. PICK none : none = EmptyStore.events
    OBVIOUS
  <1>3. DOMAIN none = {} /\ Len(none) = 0
    BY <1>2 DEF EmptyStore
  <1>4. \A s \in Tickers : Held(none, s) = 0
    <2>1. TAKE s \in Tickers
    <2>2. PICK v : v = [k \in {} |-> IF none[k].symbol = s THEN Signed(none[k]) ELSE 0]
      OBVIOUS
    <2>3. DOMAIN v = {} /\ v = [x \in {} |-> v[x]]
      BY <2>2
    <2> QED BY <1>3, <2>2, <2>3, SumOfNothing DEF Held
  <1>5. Dealt(none) = 0 /\ Earned(none) = 0
    <2>1. PICK v, w : v = [k \in {} |-> none[k].qty] /\ w = [k \in {} |-> TradePnl(none[k])]
      OBVIOUS
    <2>2. DOMAIN v = {} /\ v = [x \in {} |-> v[x]] /\ DOMAIN w = {} /\ w = [x \in {} |-> w[x]]
      BY <2>1
    <2>3. SumFunction(v) = 0 /\ SumFunction(w) = 0
      BY <2>2, SumOfNothing
    <2> QED BY <1>3, <2>1, <2>3 DEF Dealt, Earned
  <1>6. PICK zeros : zeros = [s \in Tickers |-> 0]
    OBVIOUS
  <1>7. SumFunction(zeros) = 0
    <2>1. zeros \in [Tickers -> Int] /\ 0 \in Int /\ \A s \in Tickers : zeros[s] = 0
      BY <1>6
    <2>2. IsFiniteSet(Tickers) /\ Tickers \in SUBSET Tickers
      BY AnalyticsConstants DEF AnalyticsConstants
    <2>3. PICK g : IsSum(g, zeros, Tickers) /\ SumFunction(zeros) = g[Tickers]
      BY <2>1, <2>2, SumIs
    <2>4. g[Tickers] = 0 * Cardinality(Tickers)
      BY <2>1, <2>2, <2>3, SumOfEqual
    <2>5. Cardinality(Tickers) \in Nat
      BY <2>2, FS_CardinalityType
    <2> QED BY <2>3, <2>4, <2>5
  <1>8. [s \in Tickers |-> Magnitude(zeros[s])] = zeros
    BY <1>6 DEF Magnitude
  <1> QED BY <1>1, <1>2, <1>3, <1>4, <1>5, <1>6, <1>7, <1>8 DEF SumsTrue, EmptyStore, Zero

\* One event more keeps the totals those of the events.
LEMMA UpdatedIsTrue ==
    ASSUME NEW store \in Stores, NEW e \in Executions
    PROVE  /\ Updated(store, e) \in Stores
           /\ SumsTrue(store) => SumsTrue(Updated(store, e))
  <1>1. PICK t, x, q : t = store.totals /\ x = store.totals.exposure /\ q = Signed(e)
    OBVIOUS
  <1>2. t \in Sums /\ x \in [Tickers -> Int] /\ store.events \in Seq(Executions) /\ store.curve \in Seq(Points)
    BY <1>1 DEF Stores, Sums
  <1>3. PICK y : y = [x EXCEPT ![e.symbol] = @ + q]
    OBVIOUS
  <1>4. q \in Int /\ e.symbol \in Tickers /\ e.qty \in Nat /\ Magnitude(q) = e.qty /\ TradePnl(e) \in Int
        /\ e.ts \in 1 .. LastStamp
    BY <1>1, EventNumbers
  <1>5. /\ y \in [Tickers -> Int] /\ y[e.symbol] = x[e.symbol] + q
        /\ \A s \in Tickers \ {e.symbol} : y[s] = x[s]
    BY <1>2, <1>3, <1>4
  <1>6. PICK mx, my : mx = [s \in Tickers |-> Magnitude(x[s])] /\ my = [s \in Tickers |-> Magnitude(y[s])]
    OBVIOUS
  <1>7. mx \in [Tickers -> Int] /\ my \in [Tickers -> Int] /\ IsFiniteSet(Tickers)
    BY <1>2, <1>5, <1>6, AnalyticsConstants DEF Magnitude, AnalyticsConstants
  <1>8. SumFunction(my) \in Int /\ SumFunction(mx) \in Int /\ SumFunction(y) \in Int
    BY <1>5, <1>7, SumType
  <1>9. PICK u : u = Booked(t, e)
    OBVIOUS
  <1>10. u = [traded |-> t.traded + e.qty, exposure |-> y, gross |-> SumFunction(my), net |-> SumFunction(y),
              pnl |-> t.pnl + TradePnl(e), wins |-> t.wins + (IF TradePnl(e) >= 0 THEN 1 ELSE 0),
              losses |-> t.losses + (IF TradePnl(e) >= 0 THEN 0 ELSE 1)]
    BY <1>1, <1>3, <1>6, <1>9 DEF Booked
  <1>11. /\ t.traded \in Int /\ t.pnl \in Int /\ t.wins \in Int /\ t.losses \in Int /\ t.exposure = x
    BY <1>1, <1>2 DEF Sums
  <1>12. u \in Sums
    BY <1>4, <1>5, <1>8, <1>10, <1>11 DEF Sums
  <1>13. PICK more : more = Updated(store, e)
    OBVIOUS
  <1>14. more = [events |-> Append(store.events, e), totals |-> u,
                 curve |-> Append(store.curve, [ts |-> e.ts, pnl |-> u.pnl])]
    BY <1>1, <1>9, <1>13 DEF Updated
  <1>15. more \in Stores
    <2>1. [ts |-> e.ts, pnl |-> u.pnl] \in Points
      BY <1>4, <1>12 DEF Points, Sums
    <2> QED BY <1>2, <1>12, <1>14, <2>1 DEF Stores
  <1>16. ASSUME SumsTrue(store) PROVE SumsTrue(more)
    <2>1. /\ \A s \in Tickers : x[s] = Held(store.events, s)
          /\ t.gross = SumFunction(mx) /\ t.gross <= t.traded
          /\ t.traded = Dealt(store.events) /\ t.pnl = Earned(store.events)
          /\ t.wins + t.losses = Len(store.events)
      BY <1>1, <1>6, <1>16 DEF SumsTrue
    <2>2. \A s \in Tickers : y[s] = Held(more.events, s)
      <3>1. TAKE s \in Tickers
      <3>2. Held(more.events, s) = Held(store.events, s) + (IF e.symbol = s THEN q ELSE 0)
        BY <1>1, <1>2, <1>14, HeldAppended
      <3>3. x[s] = Held(store.events, s) /\ x[s] \in Int
        BY <1>2, <2>1
      <3> QED BY <1>4, <1>5, <3>2, <3>3
    <2>3. u.traded = Dealt(more.events) /\ u.pnl = Earned(more.events)
      BY <1>2, <1>10, <1>14, <2>1, HeldAppended
    <2>4. u.gross <= u.traded
      <3>1. \A s \in Tickers \ {e.symbol} : my[s] = mx[s]
        BY <1>5, <1>6
      <3>2. SumFunction(my) = SumFunction(mx) + (my[e.symbol] - mx[e.symbol])
        BY <1>4, <1>7, <3>1, SumChanged
      <3>3. my[e.symbol] = Magnitude(x[e.symbol] + q) /\ mx[e.symbol] = Magnitude(x[e.symbol]) /\ x[e.symbol] \in Int
        BY <1>2, <1>4, <1>5, <1>6
      <3>4. my[e.symbol] - mx[e.symbol] <= e.qty /\ my[e.symbol] \in Int /\ mx[e.symbol] \in Int
        BY <1>4, <3>3 DEF Magnitude
      <3>5. u.gross = SumFunction(my) /\ u.traded = t.traded + e.qty
        BY <1>10
      <3> QED BY <1>4, <1>8, <1>11, <2>1, <3>2, <3>4, <3>5
    <2>5. u.wins + u.losses = Len(more.events)
      <3>1. Len(more.events) = Len(store.events) + 1
        BY <1>2, <1>14
      <3>2. u.wins + u.losses = (t.wins + t.losses) + 1
        <4>1. CASE TradePnl(e) >= 0
          <5>1. u.wins = t.wins + 1 /\ u.losses = t.losses + 0
            BY <1>10, <4>1
          <5> QED BY <1>11, <5>1
        <4>2. CASE ~(TradePnl(e) >= 0)
          <5>1. u.wins = t.wins + 0 /\ u.losses = t.losses + 1
            BY <1>10, <4>2
          <5> QED BY <1>11, <5>1
        <4> QED BY <4>1, <4>2
      <3> QED BY <2>1, <3>1, <3>2
    <2>6. u.gross = SumFunction(my) /\ u.net = SumFunction(y) /\ u.exposure = y /\ more.totals = u
      BY <1>10, <1>14
    <2> QED BY <1>6, <2>2, <2>3, <2>4, <2>5, <2>6 DEF SumsTrue
  <1> QED BY <1>13, <1>15, <1>16

\* A reconciliation books the events one after the other.
Booking(run, n, events) ==
    run[0] = EmptyStore /\ \A k \in 1 .. n : run[k] = Updated(run[k - 1], events[k])

\* reconcile_full books the events one after the other.
LEMMA BooksInTurn ==
    ASSUME NEW n \in Nat, NEW events \in [1 .. n -> Executions]
    PROVE  \E run \in [0 .. n -> Stores] :
             /\ Booking(run, n, events)
             /\ FoldLeft(LAMBDA store, e : Updated(store, e), EmptyStore, events) = run[n]
  <1>1. PICK f : f = [k \in 1 .. n |-> [store \in Stores |-> Updated(store, events[k])]]
    OBVIOUS
  <1>2. f \in [1 .. n -> [Stores -> Stores]]
    BY <1>1, UpdatedIsTrue
  <1> DEFINE Books(h) == h = [s \in SUBSET (1 .. n) |->
                               IF s = {} THEN EmptyStore ELSE Updated(h[s \ {Max(s)}], events[Max(s)])]
  <1>3. \E h : Books(h)
    <2>1. PICK g \in [SUBSET (1 .. n) -> Stores] : FoldsBack(g, EmptyStore, f, n)
      BY <1>2, EmptyIsTrue, FoldsBackExists
    <2>2. ASSUME NEW s \in SUBSET (1 .. n)
          PROVE  g[s] = IF s = {} THEN EmptyStore ELSE Updated(g[s \ {Max(s)}], events[Max(s)])
      <3>1. CASE s = {}
        BY <2>1, <3>1 DEF FoldsBack
      <3>2. CASE s # {}
        <4>1. Max(s) \in 1 .. n /\ s \ {Max(s)} \in SUBSET (1 .. n)
          BY <3>2, LastPosition
        <4>2. g[s] = f[Max(s)][g[s \ {Max(s)}]] /\ g[s \ {Max(s)}] \in Stores
          BY <2>1, <3>2, <4>1 DEF FoldsBack
        <4> QED BY <1>1, <3>2, <4>1, <4>2
      <3> QED BY <3>1, <3>2
    <2> QED BY <2>1, <2>2
  <1>4. PICK h : h = CHOOSE g : Books(g)
    OBVIOUS
  <1>5. Books(h)
    BY <1>3, <1>4
  <1>6. DOMAIN events = 1 .. n
    OBVIOUS
  <1>7. FoldLeft(LAMBDA store, e : Updated(store, e), EmptyStore, events) = h[1 .. n]
    BY <1>4, <1>6 DEF FoldLeft, MapThenFoldSet
  <1>8. PICK run : run = [k \in 0 .. n |-> h[1 .. k]]
    OBVIOUS
  <1>9. run[0] = EmptyStore
    <2>1. 1 .. 0 = {} /\ {} \in SUBSET (1 .. n) /\ 0 \in 0 .. n
      OBVIOUS
    <2> QED BY <1>5, <1>8, <2>1
  <1>10. ASSUME NEW k \in 1 .. n PROVE run[k] = Updated(run[k - 1], events[k])
    <2>1. PICK s : s = 1 .. k
      OBVIOUS
    <2>2. Max(s) = k /\ s \ {k} = 1 .. (k - 1) /\ s # {} /\ s \in SUBSET (1 .. n) /\ k - 1 \in 0 .. n
      BY <2>1, FirstPositions
    <2>3. h[s] = Updated(h[1 .. (k - 1)], events[k])
      BY <1>5, <2>2
    <2> QED BY <1>8, <2>1, <2>2, <2>3
  <1>11. \A k \in 0 .. n : run[k] \in Stores
    <2>1. PICK S : S = {k \in Nat : run[k] \in Stores}
      OBVIOUS
    <2>2. 0 \in S /\ S \in SUBSET Nat
      BY <1>9, <2>1, EmptyIsTrue
    <2>3. \A k \in 1 .. n : k - 1 \in S => k \in S
      BY <1>10, <2>1, UpdatedIsTrue
    <2>4. \A k \in 0 .. n : k \in S
      BY <2>2, <2>3, NumbersUpTo
    <2> QED BY <2>1, <2>4
  <1>12. run \in [0 .. n -> Stores] /\ run[n] = h[1 .. n]
    BY <1>8, <1>11
  <1>13. Booking(run, n, events)
    BY <1>9, <1>10 DEF Booking
  <1> QED BY <1>7, <1>12, <1>13

\* A sequence is the first k elements of another.
FirstOf(few, all, k) == Len(few) = k /\ \A l \in 1 .. k : few[l] = all[l]

\* So the store is that of the events: all of them, and the totals are theirs.
LEMMA RunIsTrue ==
    ASSUME NEW n \in Nat, NEW events \in [1 .. n -> Executions],
           NEW run \in [0 .. n -> Stores], Booking(run, n, events)
    PROVE  run[n] \in Stores /\ SumsTrue(run[n]) /\ run[n].events = events
  <1>2. run[0] = EmptyStore /\ \A k \in 1 .. n : run[k] = Updated(run[k - 1], events[k])
    BY DEF Booking
  <1>3. PICK S : S = {k \in 0 .. n : SumsTrue(run[k]) /\ FirstOf(run[k].events, events, k)}
    OBVIOUS
  <1>4. 0 \in S
    <2>1. FirstOf(EmptyStore.events, events, 0)
      BY DEF EmptyStore, FirstOf
    <2> QED BY <1>2, <1>3, <2>1, EmptyIsTrue
  <1>5. ASSUME NEW k \in 1 .. n, k - 1 \in S PROVE k \in S
    <2>1. /\ k - 1 \in 0 .. n /\ run[k - 1] \in Stores /\ SumsTrue(run[k - 1])
          /\ FirstOf(run[k - 1].events, events, k - 1) /\ run[k] = Updated(run[k - 1], events[k])
          /\ events[k] \in Executions
      BY <1>2, <1>3, <1>5
    <2>2. SumsTrue(run[k])
      BY <2>1, UpdatedIsTrue
    <2>3. PICK few, all : few = run[k - 1].events /\ all = run[k].events
      OBVIOUS
    <2>4. all = Append(few, events[k]) /\ few \in Seq(Executions)
      BY <2>1, <2>3 DEF Updated, Stores
    <2>5. Len(few) = k - 1 /\ \A l \in 1 .. (k - 1) : few[l] = events[l]
      BY <2>1, <2>3 DEF FirstOf
    <2>6. FirstOf(all, events, k)
      BY <2>1, <2>4, <2>5 DEF FirstOf
    <2> QED BY <1>3, <2>2, <2>3, <2>6
  <1>6. n \in S
    <2>1. S \in SUBSET Nat
      BY <1>3
    <2>2. \A k \in 0 .. n : k \in S
      BY <1>4, <1>5, <2>1, NumbersUpTo
    <2> QED BY <2>2
  <1>7. run[n] \in Stores /\ SumsTrue(run[n]) /\ FirstOf(run[n].events, events, n)
    BY <1>3, <1>6
  <1>8. run[n].events \in Seq(Executions)
    BY <1>7 DEF Stores
  <1>9. run[n].events = events
    BY <1>7, <1>8 DEF FirstOf
  <1> QED BY <1>7, <1>9

\* What it arrives at is a store of exactly these events whose sums are true.
LEMMA BooksAll ==
    ASSUME NEW n \in Nat, NEW events \in [1 .. n -> Executions]
    PROVE  \E store \in Stores :
             /\ SumsTrue(store) /\ store.events = events
             /\ FoldLeft(LAMBDA s, e : Updated(s, e), EmptyStore, events) = store
  <1>1. PICK run \in [0 .. n -> Stores] :
          /\ Booking(run, n, events)
          /\ FoldLeft(LAMBDA s, e : Updated(s, e), EmptyStore, events) = run[n]
    BY BooksInTurn
  <1>2. run[n] \in Stores /\ SumsTrue(run[n]) /\ run[n].events = events
    BY <1>1, RunIsTrue
  <1> QED BY <1>1, <1>2

\* The inductive invariant.
AnalyticsInv ==
    /\ [events |-> booked, totals |-> totals, curve |-> curve] \in Stores
    /\ SumsTrue([events |-> booked, totals |-> totals, curve |-> curve])
    /\ \A e : Arrivals(e) \in Nat
    /\ EventsKept

\* The empty store is true to its events.
LEMMA AnalyticsInvInit == AnalyticsInit => AnalyticsInv
  <1> SUFFICES ASSUME AnalyticsInit PROVE AnalyticsInv
    OBVIOUS
  <1>1. [events |-> booked, totals |-> totals, curve |-> curve] = EmptyStore
    BY DEF AnalyticsInit, EmptyStore
  <1>2. \A e \in Executions : {n \in DOMAIN booked : booked[n] = e} = {} /\ Arrivals(e) = 0
    BY DEF AnalyticsInit, EmptyStore, Arrivals
  <1>3. \A e : Arrivals(e) \in Nat
    BY DEF AnalyticsInit, Arrivals
  <1> QED BY <1>1, <1>2, <1>3, EmptyIsTrue, FS_EmptySet DEF AnalyticsInv, EventsKept

\* An ingested event and a reconciliation keep it so.
LEMMA AnalyticsInvStep == AnalyticsInv /\ [AnalyticsNext]_analyticsVars => AnalyticsInv'
  <1> SUFFICES ASSUME AnalyticsInv, [AnalyticsNext]_analyticsVars PROVE AnalyticsInv'
    OBVIOUS
  <1>1. PICK store : store = [events |-> booked, totals |-> totals, curve |-> curve]
    OBVIOUS
  <1>2. store \in Stores /\ SumsTrue(store) /\ store.events = booked /\ booked \in Seq(Executions)
    BY <1>1 DEF AnalyticsInv, Stores
  <1>3. ASSUME NEW e \in Executions, BookEvent(e) PROVE AnalyticsInv'
    <2>1. PICK more : more = Updated(store, e)
      OBVIOUS
    <2>2. more \in Stores /\ SumsTrue(more) /\ more.events = Append(booked, e)
          /\ more = [events |-> more.events, totals |-> more.totals, curve |-> more.curve]
      BY <1>2, <2>1, UpdatedIsTrue DEF Updated
    <2>3. booked' = more.events /\ totals' = more.totals /\ curve' = more.curve
      BY <1>1, <1>3, <2>1 DEF BookEvent, Keep
    <2>4. \A d : Arrivals(d)' = Arrivals(d) + (IF d = e THEN 1 ELSE 0) /\ Arrivals(d)' \in Nat
      <3>1. arrived' = [d \in DOMAIN arrived \cup {e} |-> Arrivals(d) + (IF d = e THEN 1 ELSE 0)]
        BY <1>3 DEF BookEvent
      <3>2. \A d : Arrivals(d) \in Nat
        BY DEF AnalyticsInv
      <3>3. \A d : Arrivals(d)' = IF d \in DOMAIN arrived' THEN arrived'[d] ELSE 0
        BY DEF Arrivals
      <3>4. ASSUME NEW d PROVE Arrivals(d)' = Arrivals(d) + (IF d = e THEN 1 ELSE 0)
        <4>1. CASE d \in DOMAIN arrived \cup {e}
          BY <3>1, <3>3, <4>1
        <4>2. CASE d \notin DOMAIN arrived \cup {e}
          BY <3>1, <3>3, <4>2 DEF Arrivals
        <4> QED BY <4>1, <4>2
      <3> QED BY <3>2, <3>4
    <2>5. ASSUME NEW d \in Executions
          PROVE  Cardinality({n \in DOMAIN booked' : booked'[n] = d}) = Arrivals(d)'
      <3>1. PICK m, old, new : /\ m = Len(booked) /\ old = {n \in DOMAIN booked : booked[n] = d}
                               /\ new = {n \in DOMAIN booked' : booked'[n] = d}
        OBVIOUS
      <3>2. /\ m \in Nat /\ DOMAIN booked = 1 .. m /\ DOMAIN booked' = 1 .. m + 1
            /\ booked'[m + 1] = e /\ \A n \in 1 .. m : booked'[n] = booked[n]
        BY <1>2, <2>2, <2>3, <3>1
      <3>3. IsFiniteSet(old) /\ m + 1 \notin old
        <4>1. IsFiniteSet(1 .. m)
          <5>1. m \in Nat
            BY <3>2
          <5> QED BY <5>1, FS_Interval
        <4>2. old \in SUBSET (1 .. m)
          BY <3>1, <3>2
        <4>3. IsFiniteSet(old)
          BY <4>1, <4>2, FS_Subset
        <4>4. m + 1 \notin 1 .. m
          BY <3>2
        <4> QED BY <4>2, <4>3, <4>4
      <3>4. Cardinality(old) = Arrivals(d) /\ Arrivals(d) \in Nat
        BY <3>1 DEF AnalyticsInv, EventsKept
      <3>5. CASE d = e
        <4>1. new = old \cup {m + 1}
          BY <3>1, <3>2, <3>5
        <4>2. Cardinality(new) = Cardinality(old) + 1
          BY <3>3, <4>1, FS_AddElement
        <4>3. Arrivals(d)' = Arrivals(d) + 1
          BY <2>4, <3>5
        <4> QED BY <3>1, <3>4, <4>2, <4>3
      <3>6. CASE d # e
        <4>1. new = old
          BY <3>1, <3>2, <3>6
        <4>2. Arrivals(d)' = Arrivals(d)
          BY <2>4, <3>4, <3>6
        <4> QED BY <3>1, <3>4, <4>1, <4>2
      <3> QED BY <3>5, <3>6
    <2> QED BY <2>2, <2>3, <2>4, <2>5 DEF AnalyticsInv, EventsKept
  <1>4. CASE ReconcileFull
    <2>1. PICK n : n = Len(booked)
      OBVIOUS
    <2>2. n \in Nat /\ DOMAIN booked = 1 .. n /\ booked \in [1 .. n -> Executions]
      BY <1>2, <2>1
    <2>3. PICK events : events = InTime(booked)
      OBVIOUS
    <2>4. events \in [1 .. n -> Executions] /\ \A e : SameCount(e, events, booked, n)
      BY <2>2, <2>3, InTimeKeeps
    <2>5. PICK more \in Stores :
            /\ SumsTrue(more) /\ more.events = events
            /\ FoldLeft(LAMBDA s, e : Updated(s, e), EmptyStore, events) = more
      BY <2>2, <2>4, BooksAll
    <2>6. SumsTrue(more) /\ more.events = events
      BY <2>5
    <2>7. booked' = more.events /\ totals' = more.totals /\ curve' = more.curve /\ UNCHANGED arrived
      BY <1>4, <2>3, <2>5 DEF ReconcileFull, Keep
    <2>8. more = [events |-> more.events, totals |-> more.totals, curve |-> more.curve]
      BY DEF Stores
    <2>9. ASSUME NEW d \in Executions
          PROVE  Cardinality({k \in DOMAIN booked' : booked'[k] = d}) = Arrivals(d)'
      <3>1. DOMAIN booked' = 1 .. n /\ booked' = events
        BY <2>4, <2>6, <2>7
      <3>2. Arrivals(d)' = Arrivals(d) /\ Cardinality({k \in DOMAIN booked : booked[k] = d}) = Arrivals(d)
        BY <2>7 DEF AnalyticsInv, EventsKept, Arrivals
      <3>3. {k \in DOMAIN booked' : booked'[k] = d} = {k \in 1 .. n : events[k] = d}
        BY <3>1
      <3>4. {k \in DOMAIN booked : booked[k] = d} = {k \in 1 .. n : booked[k] = d}
        BY <2>2
      <3>5. SameCount(d, events, booked, n)
        BY <2>4
      <3> QED BY <3>2, <3>3, <3>4, <3>5 DEF SameCount
    <2> QED BY <2>5, <2>6, <2>7, <2>8, <2>9 DEF AnalyticsInv, EventsKept, Arrivals
  <1>5. CASE UNCHANGED analyticsVars
    BY <1>5 DEF analyticsVars, AnalyticsInv, EventsKept, Arrivals
  <1> QED BY <1>3, <1>4, <1>5 DEF AnalyticsNext

\* The values of a curve.
LEMMA PointNumbers == ASSUME NEW points \in Seq(Points) PROVE \A i \in 1 .. Len(points) : points[i].pnl \in Int
  <1>1. ASSUME NEW i \in 1 .. Len(points) PROVE points[i].pnl \in Int
    <2>1. points[i] \in Points
      OBVIOUS
    <2> QED BY <2>1 DEF Points
  <1> QED BY <1>1

\* The peak up to a point of the curve.
LEMMA PeakIsHighest ==
    ASSUME NEW points \in Seq(Points), NEW n \in 1 .. Len(points)
    PROVE  /\ PeakAt(points, n) \in Int
           /\ \A i \in 1 .. n : points[i].pnl <= PeakAt(points, n)
           /\ \E i \in 1 .. n : points[i].pnl = PeakAt(points, n)
  <1>1. PICK m, v : m = Len(points) /\ v = [i \in 1 .. m |-> points[i].pnl]
    OBVIOUS
  <1>2. m \in Nat /\ v \in [1 .. m -> Int] /\ n \in 1 .. m
    BY <1>1, PointNumbers
  <1> DEFINE S == {k \in Nat : k = 0 \/ (k <= m /\ \E i \in 1 .. k : \A j \in 1 .. k : v[i] >= v[j])}
  <1>3. \A k \in 0 .. m : k \in S
    <2>1. ASSUME NEW k \in 1 .. m, k - 1 \in S PROVE k \in S
      <3>1. CASE k = 1
        BY <1>2, <3>1
      <3>2. CASE k # 1
        <4>1. PICK i \in 1 .. (k - 1) : \A j \in 1 .. (k - 1) : v[i] >= v[j]
          BY <2>1, <3>2
        <4>2. v[i] \in Int /\ v[k] \in Int /\ \A j \in 1 .. k : j = k \/ j \in 1 .. (k - 1)
          BY <1>2
        <4>3. CASE v[i] >= v[k]
          <5>1. i \in 1 .. k /\ \A j \in 1 .. k : v[i] >= v[j]
            BY <4>1, <4>2, <4>3
          <5> QED BY <5>1
        <4>4. CASE ~(v[i] >= v[k])
          <5>1. \A j \in 1 .. (k - 1) : v[j] \in Int
            BY <1>2
          <5>2. \A j \in 1 .. k : v[k] >= v[j]
            BY <4>1, <4>2, <4>4, <5>1
          <5> QED BY <5>2
        <4> QED BY <4>3, <4>4
      <3> QED BY <3>1, <3>2
    <2>2. 0 \in S /\ S \in SUBSET Nat
      OBVIOUS
    <2> HIDE DEF S
    <2> QED BY <1>2, <2>1, <2>2, NumbersUpTo
  <1>4. PICK i \in 1 .. n : \A j \in 1 .. n : v[i] >= v[j]
    <2>1. n \in S /\ n # 0
      <3>1. n \in 0 .. m /\ n # 0
        BY <1>2
      <3> HIDE DEF S
      <3> QED BY <1>3, <3>1
    <2> QED BY <2>1
  <1>5. PICK values : values = {points[k].pnl : k \in 1 .. n}
    OBVIOUS
  <1>6. \A j \in 1 .. n : v[j] = points[j].pnl /\ v[j] \in Int
    BY <1>1, <1>2, SMTT(30)
  <1>7. v[i] \in values /\ \A y \in values : v[i] >= y
    BY <1>4, <1>5, <1>6
  <1>8. PeakAt(points, n) \in values /\ \A y \in values : PeakAt(points, n) >= y
    BY <1>5, <1>7 DEF PeakAt, Max
  <1>9. \E j \in 1 .. n : points[j].pnl = PeakAt(points, n)
    BY <1>5, <1>8
  <1>10. \A j \in 1 .. n : points[j].pnl \in values
    BY <1>5
  <1> QED BY <1>6, <1>8, <1>9, <1>10

\* What is known of the fall up to a point.
Falls == [depth : Nat, trough : Nat, recovery : Nat]
NoFall == [depth |-> 0, trough |-> 0, recovery |-> 0]

DeepestOf(d, points, n) ==
    /\ d.trough <= n
    /\ \A j \in 1 .. n : \A i \in 1 .. j : points[i].pnl - points[j].pnl <= d.depth
    /\ d.depth = 0 \/ \E j \in 1 .. n : \E i \in 1 .. j : points[i].pnl - points[j].pnl = d.depth
    /\ d.recovery # 0 => d.trough < d.recovery

\* One point more.
LEMMA FallenIsDeepest ==
    ASSUME NEW points \in Seq(Points), NEW n \in 1 .. Len(points), NEW d \in Falls
    PROVE  /\ Fallen(points, d, n) \in Falls
           /\ DeepestOf(d, points, n - 1) => DeepestOf(Fallen(points, d, n), points, n)
  <1>1. PICK fall, peak, c : /\ peak = PeakAt(points, n) /\ fall = peak - points[n].pnl /\ c = Fallen(points, d, n)
    OBVIOUS
  <1>2. \A i \in 1 .. n : points[i].pnl \in Int
    BY PointNumbers
  <1>3. /\ peak \in Int /\ \A i \in 1 .. n : points[i].pnl <= peak
        /\ \E i \in 1 .. n : points[i].pnl = peak
    BY <1>1, PeakIsHighest
  <1>4. n \in 1 .. n /\ n \in Nat /\ fall \in Int /\ fall >= 0
    BY <1>1, <1>2, <1>3
  <1>5. c = IF fall > d.depth THEN [depth |-> fall, trough |-> n, recovery |-> 0]
            ELSE IF d.trough # 0 /\ fall = 0 THEN [d EXCEPT !.recovery = n] ELSE d
    BY <1>1 DEF Fallen
  <1>6. c \in Falls
    BY <1>4, <1>5 DEF Falls
  <1>7. ASSUME DeepestOf(d, points, n - 1) PROVE DeepestOf(c, points, n)
    <2>1. d.depth \in Nat /\ d.trough \in Nat /\ d.recovery \in Nat /\ d.trough <= n - 1
      BY <1>7 DEF Falls, DeepestOf
    <2>2. c.trough <= n /\ (c.recovery # 0 => c.trough < c.recovery)
      BY <1>4, <1>5, <1>7, <2>1 DEF DeepestOf, Falls
    <2>3. c.depth = (IF fall > d.depth THEN fall ELSE d.depth)
      BY <1>5 DEF Falls
    <2>4. c.depth >= fall /\ c.depth >= d.depth /\ c.depth \in Int
      BY <1>4, <2>1, <2>3
    <2>5. ASSUME NEW j \in 1 .. n, NEW i \in 1 .. j PROVE points[i].pnl - points[j].pnl <= c.depth
      <3>1. i \in 1 .. n /\ points[i].pnl \in Int /\ points[j].pnl \in Int
        BY <1>2
      <3>2. CASE j = n
        BY <1>1, <1>3, <2>4, <3>1, <3>2
      <3>3. CASE j # n
        <4>1. j \in 1 .. (n - 1)
          BY <3>3
        <4>2. points[i].pnl - points[j].pnl <= d.depth
          BY <1>7, <4>1 DEF DeepestOf
        <4> QED BY <2>1, <2>4, <3>1, <4>2
      <3> QED BY <3>2, <3>3
    <2>6. c.depth = 0 \/ \E j \in 1 .. n : \E i \in 1 .. j : points[i].pnl - points[j].pnl = c.depth
      <3>1. CASE fall > d.depth
        BY <1>1, <1>3, <1>4, <2>3, <3>1
      <3>2. CASE ~(fall > d.depth)
        <4>1. c.depth = d.depth /\ \A j \in 1 .. (n - 1) : j \in 1 .. n
          BY <2>3, <3>2
        <4> QED BY <1>7, <4>1 DEF DeepestOf
      <3> QED BY <3>1, <3>2
    <2> QED BY <2>2, <2>5, <2>6 DEF DeepestOf
  <1> QED BY <1>1, <1>6, <1>7

\* The drawdown of a curve goes through its points in turn.
Falling(run, n, points) == run[0] = NoFall /\ \A k \in 1 .. n : run[k] = Fallen(points, run[k - 1], k)

\* _drawdown looks at the points of the curve one after the other.
LEMMA FallsInTurn ==
    ASSUME NEW points \in Seq(Points), NEW n, n = Len(points)
    PROVE  \E run \in [0 .. n -> Falls] : Falling(run, n, points) /\ Drawdown(points) = run[n]
  <1>0. n \in Nat
    OBVIOUS
  <1>1. PICK f, turns : /\ f = [k \in 1 .. n |-> [d \in Falls |-> Fallen(points, d, k)]]
                        /\ turns = [k \in 1 .. n |-> k]
    OBVIOUS
  <1>2. f \in [1 .. n -> [Falls -> Falls]]
    BY <1>1, FallenIsDeepest
  <1> DEFINE Turns(h) == h = [s \in SUBSET (1 .. n) |->
                               IF s = {} THEN NoFall ELSE Fallen(points, h[s \ {Max(s)}], turns[Max(s)])]
  <1>3. \E h : Turns(h)
    <2>1. NoFall \in Falls
      BY DEF NoFall, Falls
    <2>2. PICK g \in [SUBSET (1 .. n) -> Falls] : FoldsBack(g, NoFall, f, n)
      BY <1>0, <1>2, <2>1, FoldsBackExists
    <2>3. ASSUME NEW s \in SUBSET (1 .. n)
          PROVE  g[s] = IF s = {} THEN NoFall ELSE Fallen(points, g[s \ {Max(s)}], turns[Max(s)])
      <3>1. CASE s = {}
        BY <2>2, <3>1 DEF FoldsBack
      <3>2. CASE s # {}
        <4>1. Max(s) \in 1 .. n /\ s \ {Max(s)} \in SUBSET (1 .. n)
          BY <1>0, <3>2, LastPosition
        <4>2. g[s] = f[Max(s)][g[s \ {Max(s)}]] /\ g[s \ {Max(s)}] \in Falls
          BY <2>2, <3>2, <4>1 DEF FoldsBack
        <4>3. turns[Max(s)] = Max(s)
          BY <1>1, <4>1
        <4> QED BY <1>1, <3>2, <4>1, <4>2, <4>3
      <3> QED BY <3>1, <3>2
    <2> QED BY <2>2, <2>3
  <1>4. PICK h : h = CHOOSE g : Turns(g)
    OBVIOUS
  <1>5. Turns(h)
    BY <1>3, <1>4
  <1>6. DOMAIN turns = 1 .. n /\ DOMAIN points = 1 .. n /\ turns = [k \in DOMAIN points |-> k]
    BY <1>1
  <1>7. Drawdown(points) = h[1 .. n]
    BY <1>4, <1>6 DEF Drawdown, NoFall, FoldLeft, MapThenFoldSet
  <1>8. PICK run : run = [k \in 0 .. n |-> h[1 .. k]]
    OBVIOUS
  <1>9. run[0] = NoFall
    <2>1. 1 .. 0 = {} /\ {} \in SUBSET (1 .. n) /\ 0 \in 0 .. n
      BY <1>0
    <2> QED BY <1>5, <1>8, <2>1
  <1>10. ASSUME NEW k \in 1 .. n PROVE run[k] = Fallen(points, run[k - 1], k)
    <2>1. PICK s : s = 1 .. k
      OBVIOUS
    <2>2. Max(s) = k /\ s \ {k} = 1 .. (k - 1) /\ s # {} /\ s \in SUBSET (1 .. n) /\ k - 1 \in 0 .. n
      BY <1>0, <2>1, FirstPositions
    <2>3. h[s] = Fallen(points, h[1 .. (k - 1)], turns[k])
      BY <1>5, <2>2
    <2>4. turns[k] = k
      BY <1>1
    <2> QED BY <1>8, <2>1, <2>2, <2>3, <2>4
  <1>11. \A k \in 0 .. n : run[k] \in Falls
    <2>1. PICK S : S = {k \in Nat : run[k] \in Falls}
      OBVIOUS
    <2>2. 0 \in S /\ S \in SUBSET Nat
      BY <1>9, <2>1 DEF NoFall, Falls
    <2>3. \A k \in 1 .. n : k - 1 \in S => k \in S
      BY <1>10, <2>1, FallenIsDeepest
    <2>4. \A k \in 0 .. n : k \in S
      BY <1>0, <2>2, <2>3, NumbersUpTo
    <2> QED BY <2>1, <2>4
  <1>12. run \in [0 .. n -> Falls] /\ run[n] = h[1 .. n] /\ Falling(run, n, points)
    <2>1. run \in [0 .. n -> Falls]
      BY <1>8, <1>11
    <2>2. n \in 0 .. n
      BY <1>0
    <2>3. run[n] = h[1 .. n]
      BY <1>8, <2>2
    <2>4. Falling(run, n, points)
      BY <1>9, <1>10 DEF Falling
    <2> QED BY <2>1, <2>3, <2>4
  <1> QED BY <1>7, <1>12

\* So it is the deepest fall of the curve.
LEMMA DrawdownIsDeepest ==
    ASSUME NEW points \in Seq(Points)
    PROVE  Drawdown(points) \in Falls /\ DeepestOf(Drawdown(points), points, Len(points))
  <1>1. PICK n : n = Len(points)
    OBVIOUS
  <1>2. PICK run \in [0 .. n -> Falls] : Falling(run, n, points) /\ Drawdown(points) = run[n]
    BY <1>1, FallsInTurn
  <1>3. PICK S : S = {k \in 0 .. n : DeepestOf(run[k], points, k)}
    OBVIOUS
  <1>4. n \in Nat /\ S \in SUBSET Nat
    BY <1>1, <1>3
  <1>5. 0 \in S
    <2>1. DeepestOf(NoFall, points, 0)
      BY DEF NoFall, DeepestOf
    <2> QED BY <1>2, <1>3, <1>4, <2>1 DEF Falling
  <1>6. ASSUME NEW k \in 1 .. n, k - 1 \in S PROVE k \in S
    <2>1. run[k] = Fallen(points, run[k - 1], k) /\ run[k - 1] \in Falls /\ DeepestOf(run[k - 1], points, k - 1)
      BY <1>2, <1>3, <1>6 DEF Falling
    <2> QED BY <1>1, <1>3, <2>1, FallenIsDeepest
  <1>7. n \in S
    <2>1. \A k \in 0 .. n : k \in S
      BY <1>4, <1>5, <1>6, NumbersUpTo
    <2> QED BY <1>4, <2>1
  <1> QED BY <1>1, <1>2, <1>3, <1>4, <1>7

\* The depth of a curve is the worst fall between two of its points.
LEMMA DepthHolds == AnalyticsInv => DepthIsWorstFall
  <1> SUFFICES ASSUME AnalyticsInv PROVE DepthIsWorstFall
    OBVIOUS
  <1>1. curve \in Seq(Points)
    BY DEF AnalyticsInv, Stores
  <1>2. PICK d, n : d = Drawdown(curve) /\ n = Len(curve)
    OBVIOUS
  <1>3. d \in Falls /\ DeepestOf(d, curve, n) /\ n \in Nat /\ DOMAIN curve = 1 .. n
    BY <1>1, <1>2, DrawdownIsDeepest
  <1>4. PICK falls : falls = {curve[q[1]].pnl - curve[q[2]].pnl :
                                q \in {q \in (DOMAIN curve) \X (DOMAIN curve) : q[1] <= q[2]}}
    OBVIOUS
  <1>5. \A k \in 1 .. n : curve[k].pnl \in Int
    BY <1>1, <1>2, PointNumbers
  <1>6. ASSUME NEW x \in falls \cup {0} PROVE x \in Int /\ d.depth >= x
    <2>1. CASE x = 0
      BY <1>3, <2>1 DEF Falls
    <2>2. CASE x \in falls
      <3>1. PICK i \in 1 .. n, j \in 1 .. n : i <= j /\ x = curve[i].pnl - curve[j].pnl
        BY <1>3, <1>4, <2>2
      <3>2. x \in Int /\ d.depth \in Int /\ i \in 1 .. j
        BY <1>3, <1>5, <3>1 DEF Falls
      <3>3. x <= d.depth
        BY <1>3, <3>1, <3>2 DEF DeepestOf
      <3> QED BY <3>2, <3>3
    <2> QED BY <2>1, <2>2
  <1>7. d.depth \in falls \cup {0}
    <2>1. CASE d.depth = 0
      BY <2>1
    <2>2. CASE d.depth # 0
      <3>1. PICK j \in 1 .. n : \E i \in 1 .. j : curve[i].pnl - curve[j].pnl = d.depth
        BY <1>3, <2>2 DEF DeepestOf
      <3>2. PICK i \in 1 .. j : curve[i].pnl - curve[j].pnl = d.depth
        BY <3>1
      <3>3. <<i, j>> \in (DOMAIN curve) \X (DOMAIN curve) /\ i <= j
        BY <1>3
      <3> QED BY <1>4, <3>2, <3>3
    <2> QED BY <2>1, <2>2
  <1>8. Max(falls \cup {0}) = d.depth
    <2>1. Max(falls \cup {0}) \in falls \cup {0} /\ \A x \in falls \cup {0} : Max(falls \cup {0}) >= x
      BY <1>6, <1>7 DEF Max
    <2>2. Max(falls \cup {0}) >= d.depth /\ d.depth >= Max(falls \cup {0})
      BY <1>6, <1>7, <2>1
    <2>3. Max(falls \cup {0}) \in Int /\ d.depth \in Int
      BY <1>6, <1>7, <2>1
    <2> QED BY <2>2, <2>3
  <1>9. d.recovery # 0 => d.trough < d.recovery
    BY <1>3 DEF DeepestOf
  <1> QED BY <1>2, <1>4, <1>8, <1>9 DEF DepthIsWorstFall

\* For any symbols, quantities and edges, and however arrivals and reconciliations follow each
\* other: every event is kept as often as it was ingested, the totals are those of the events,
\* and the depth that is reported is the worst fall of the curve.
THEOREM AnalyticsStayTrue == AnalyticsSpec => []AnalyticsTrue
  <1>1. AnalyticsInv => AnalyticsTrue
    <2>1. SUFFICES ASSUME AnalyticsInv PROVE TotalsOfEvents
      BY DepthHolds DEF AnalyticsInv, AnalyticsTrue
    <2>2. totals.exposure \in [Tickers -> Int] /\ IsFiniteSet(Tickers)
      BY <2>1, AnalyticsConstants DEF AnalyticsInv, Stores, Sums, AnalyticsConstants
    <2>3. PICK m : m = [s \in Tickers |-> Magnitude(totals.exposure[s])]
      OBVIOUS
    <2>4. m \in [Tickers -> Int] /\ \A s \in Tickers : m[s] = Magnitude(totals.exposure[s])
      BY <2>2, <2>3 DEF Magnitude
    <2>5. Magnitude(SumFunction(totals.exposure)) <= SumFunction(m)
      BY <2>2, <2>4, SumOfMagnitudes
    <2>6. SumsTrue([events |-> booked, totals |-> totals, curve |-> curve])
      BY <2>1 DEF AnalyticsInv
    <2> QED BY <2>3, <2>5, <2>6 DEF SumsTrue, TotalsOfEvents
  <1> QED BY <1>1, AnalyticsInvInit, AnalyticsInvStep, PTL DEF AnalyticsSpec

-----------------------------------------------------------------------------
(* The replay of a backtest. *)

ReplayEvents == OrderEvents \cup FillEvents \cup DecisionEvents
ReplayOrders == [id : Nat, symbol : Symbols, side : {1, -1}, fills : Seq(FillPrices)]
Books == [orders : Seq(ReplayOrders), positions : UNION {[S -> Int] : S \in SUBSET Symbols}, cash : Int, fees : Nat,
          slippage : Nat, inventoryOk : BOOLEAN, cashOk : BOOLEAN, decisions : Nat]

\* A book is a book: ids are distinct and a position is not more than the fills could make it.
BookSound(b) ==
    /\ b \in Books
    /\ \A i, j \in DOMAIN b.orders : b.orders[i].id = b.orders[j].id => i = j
    /\ IsFiniteSet(DOMAIN b.positions)
    /\ \A s \in DOMAIN b.positions : -b.fees <= b.positions[s] /\ b.positions[s] <= b.fees

\* The place of a known order, and its id.
LEMMA OrderAt ==
    ASSUME NEW b \in Books, NEW id \in KnownIds(b)
    PROVE  /\ At(b, id) \in 1 .. Len(b.orders) /\ b.orders[At(b, id)].id = id
           /\ At(b, id) \in DOMAIN b.orders
           /\ b.orders[At(b, id)] \in ReplayOrders
  <1>1. b.orders \in Seq(ReplayOrders) /\ DOMAIN b.orders = 1 .. Len(b.orders)
    BY DEF Books
  <1>2. \E i \in DOMAIN b.orders : b.orders[i].id = id
    BY DEF KnownIds
  <1>3. At(b, id) \in DOMAIN b.orders /\ b.orders[At(b, id)].id = id
    BY <1>2 DEF At
  <1> QED BY <1>1, <1>3

\* What an order event and a fill make of the orders.
NewOrder(b, e) == [id |-> IdOf(b, e), symbol |-> e.symbol, side |-> e.side, fills |-> <<>>]

\* The new order of a known id takes the place of the old one.
LEMMA OrderReplaced ==
    ASSUME NEW b, BookSound(b), NEW e \in OrderEvents, IdOf(b, e) \in KnownIds(b)
    PROVE  LET i == At(b, IdOf(b, e))
               c == AcceptOrder(b, e)
           IN  /\ i \in 1 .. Len(b.orders) /\ b.orders[i].id = IdOf(b, e)
               /\ c = [b EXCEPT !.orders = [b.orders EXCEPT ![i] = NewOrder(b, e)]]
  <1>1. b \in Books
    BY DEF BookSound
  <1>2. NewOrder(b, e).id = IdOf(b, e)
    BY DEF NewOrder
  <1> QED BY <1>1, <1>2, OrderAt DEF AcceptOrder, NewOrder

\* The new order of an unknown id comes last.
LEMMA OrderAdded ==
    ASSUME NEW b, NEW e \in OrderEvents, IdOf(b, e) \notin KnownIds(b)
    PROVE  AcceptOrder(b, e) = [b EXCEPT !.orders = Append(b.orders, NewOrder(b, e))]
  BY DEF AcceptOrder, NewOrder

\* An order event makes an order without fills.
LEMMA NewOrderType ==
    ASSUME NEW b \in Books, NEW e \in OrderEvents
    PROVE  NewOrder(b, e) \in ReplayOrders /\ IdOf(b, e) \in Nat
  <1>0. b.orders \in Seq(ReplayOrders) /\ OrderIds \subseteq Nat
    BY ReplayConstants DEF Books, ReplayConstants
  <1>1. Len(b.orders) \in Nat /\ e.id \in Nat /\ e.symbol \in Symbols /\ e.side \in {1, -1}
    <2>1. e.id \in OrderIds /\ e.symbol \in Symbols /\ e.side \in {1, -1}
      BY DEF OrderEvents
    <2>2. Len(b.orders) \in Nat
      BY <1>0
    <2> QED BY <1>0, <2>1, <2>2
  <1>2. IdOf(b, e) \in Nat
    BY <1>1 DEF IdOf
  <1> QED BY <1>1, <1>2 DEF NewOrder, ReplayOrders

\* A book of known parts is a book.
LEMMA OrderKeepsBook ==
    ASSUME NEW b, BookSound(b), NEW e \in OrderEvents
    PROVE  BookSound(AcceptOrder(b, e)) /\ AcceptOrder(b, e).fees = b.fees
  <1>1. PICK o, n, id : o = NewOrder(b, e) /\ n = Len(b.orders) /\ id = IdOf(b, e)
    OBVIOUS
  <1>2. PICK c : c = AcceptOrder(b, e)
    OBVIOUS
  <1>3. /\ b \in Books /\ o \in ReplayOrders /\ o.id = id /\ id \in Nat
        /\ n \in Nat /\ b.orders \in Seq(ReplayOrders) /\ DOMAIN b.orders = 1 .. n
    BY <1>1, NewOrderType DEF BookSound, Books, NewOrder
  <1>4. ASSUME NEW orders \in Seq(ReplayOrders), c = [b EXCEPT !.orders = orders],
               \A i, j \in DOMAIN orders : orders[i].id = orders[j].id => i = j
        PROVE  BookSound(c) /\ c.fees = b.fees
    <2>1. /\ c.orders = orders /\ c.positions = b.positions /\ c.cash = b.cash /\ c.fees = b.fees
          /\ c.slippage = b.slippage /\ c.inventoryOk = b.inventoryOk /\ c.cashOk = b.cashOk
          /\ c.decisions = b.decisions /\ c \in Books
      BY <1>3, <1>4 DEF Books
    <2> QED BY <1>4, <2>1 DEF BookSound
  <1>5. \A i, j \in 1 .. n : b.orders[i].id = b.orders[j].id => i = j
    BY <1>3 DEF BookSound
  <1>6. CASE id \in KnownIds(b)
    <2>1. PICK i : i = At(b, id)
      OBVIOUS
    <2>2. PICK orders : orders = [b.orders EXCEPT ![i] = o]
      OBVIOUS
    <2>3. i \in 1 .. n /\ b.orders[i].id = id /\ c = [b EXCEPT !.orders = orders]
      BY <1>1, <1>2, <1>6, <2>1, <2>2, OrderReplaced
    <2>4. orders \in Seq(ReplayOrders) /\ DOMAIN orders = 1 .. n /\ \A k \in 1 .. n : orders[k].id = b.orders[k].id
      BY <1>3, <2>2, <2>3
    <2>5. \A k, l \in DOMAIN orders : orders[k].id = orders[l].id => k = l
      BY <1>5, <2>4
    <2>6. BookSound(c) /\ c.fees = b.fees
      BY <1>4, <2>3, <2>4, <2>5
    <2> QED BY <1>2, <2>6
  <1>7. CASE id \notin KnownIds(b)
    <2>1. PICK orders : orders = Append(b.orders, o)
      OBVIOUS
    <2>2. c = [b EXCEPT !.orders = orders]
      BY <1>1, <1>2, <1>7, <2>1, OrderAdded
    <2>3. /\ orders \in Seq(ReplayOrders) /\ DOMAIN orders = 1 .. n + 1
          /\ orders[n + 1] = o /\ \A k \in 1 .. n : orders[k] = b.orders[k]
      BY <1>1, <1>3, <2>1
    <2>4. \A k \in 1 .. n : b.orders[k].id # id
      BY <1>3, <1>7 DEF KnownIds
    <2>5. \A i, j \in 1 .. n + 1 : orders[i].id = orders[j].id => i = j
      <3>1. \A k \in 1 .. n + 1 : k = n + 1 \/ k \in 1 .. n
        BY <1>3
      <3> QED BY <1>3, <1>5, <2>3, <2>4, <3>1
    <2>6. BookSound(c) /\ c.fees = b.fees
      BY <1>4, <2>2, <2>3, <2>5
    <2> QED BY <1>2, <2>6
  <1> QED BY <1>2, <1>6, <1>7

\* What a fill of a known order makes of the book.
FilledOrders(b, e) ==
    LET i == At(b, e.id) IN [b.orders EXCEPT ![i].fills = Append(@, e.price)]
FilledPositions(b, e) ==
    LET o == b.orders[At(b, e.id)]
    IN  [s \in DOMAIN b.positions \cup {o.symbol} |-> PositionOf(b, s) + (IF s = o.symbol THEN o.side ELSE 0)]
FilledCash(b, e) == b.cash - b.orders[At(b, e.id)].side * e.price - Fee
InventoryFits(b, e) == b.inventoryOk /\ Inventory(FilledPositions(b, e)) = Filled(FilledOrders(b, e))
CashFits(b, e) == b.cashOk /\ FilledCash(b, e) = Paid(FilledOrders(b, e))

\* A fill of a known order, field by field.
LEMMA FillApplied ==
    ASSUME NEW b \in Books, NEW e \in FillEvents, e.id \in KnownIds(b)
    PROVE  ApplyFill(b, e) =
             [b EXCEPT !.orders = FilledOrders(b, e), !.positions = FilledPositions(b, e),
                       !.cash = FilledCash(b, e), !.fees = b.fees + Fee, !.slippage = b.slippage + Slip(e.price),
                       !.inventoryOk = InventoryFits(b, e), !.cashOk = CashFits(b, e)]
  BY DEF ApplyFill, FilledOrders, FilledPositions, FilledCash, InventoryFits, CashFits

\* The orders after a fill: one has a price more.
LEMMA OrdersAfterFill ==
    ASSUME NEW b \in Books, NEW e \in FillEvents, e.id \in KnownIds(b), NEW i, i = At(b, e.id)
    PROVE  /\ i \in 1 .. Len(b.orders)
           /\ FilledOrders(b, e) \in Seq(ReplayOrders) /\ Len(FilledOrders(b, e)) = Len(b.orders)
           /\ FilledOrders(b, e)[i] = [b.orders[i] EXCEPT !.fills = Append(b.orders[i].fills, e.price)]
           /\ \A k \in 1 .. Len(b.orders) : k # i => FilledOrders(b, e)[k] = b.orders[k]
           /\ \A k \in 1 .. Len(b.orders) : FilledOrders(b, e)[k].id = b.orders[k].id
  <1>1. PICK n, o, orders : n = Len(b.orders) /\ o = b.orders[i] /\ orders = FilledOrders(b, e)
    OBVIOUS
  <1>2. i \in 1 .. n /\ o \in ReplayOrders /\ b.orders \in Seq(ReplayOrders) /\ n \in Nat /\ e.price \in FillPrices
    BY <1>1, OrderAt DEF Books, FillEvents
  <1>3. PICK p : p = [o EXCEPT !.fills = Append(o.fills, e.price)]
    OBVIOUS
  <1>4. p \in ReplayOrders /\ p.id = o.id
    <2>1. PICK fills : fills = Append(o.fills, e.price)
      OBVIOUS
    <2>2. fills \in Seq(FillPrices)
      BY <1>2, <2>1 DEF ReplayOrders
    <2>3. p = [id |-> o.id, symbol |-> o.symbol, side |-> o.side, fills |-> fills]
      BY <1>2, <1>3, <2>1 DEF ReplayOrders
    <2> QED BY <1>2, <2>2, <2>3 DEF ReplayOrders
  <1>5. orders = [b.orders EXCEPT ![i] = p]
    BY <1>1, <1>3 DEF FilledOrders
  <1> QED BY <1>1, <1>2, <1>3, <1>4, <1>5

\* The positions after it: that of its symbol has moved by one.
PositionMoved(b, positions, o) ==
    \A s \in DOMAIN b.positions \cup {o.symbol} :
        positions[s] = PositionOf(b, s) + (IF s = o.symbol THEN o.side ELSE 0)

\* After it, only the position of its symbol has moved, by one.
LEMMA PositionsAfterFill ==
    ASSUME NEW b, BookSound(b), NEW e \in FillEvents, e.id \in KnownIds(b), NEW o, o = b.orders[At(b, e.id)]
    PROVE  /\ o \in ReplayOrders /\ o.symbol \in Symbols /\ o.side \in Int
           /\ FilledPositions(b, e) \in [DOMAIN b.positions \cup {o.symbol} -> Int]
           /\ b.positions \in [DOMAIN b.positions -> Int]
           /\ DOMAIN b.positions \cup {o.symbol} \in SUBSET Symbols
           /\ PositionMoved(b, FilledPositions(b, e), o)
           /\ \A s : PositionOf(b, s) \in Int /\ -b.fees <= PositionOf(b, s) /\ PositionOf(b, s) <= b.fees
  <1>1. b \in Books /\ o \in ReplayOrders /\ b.fees \in Nat
    BY OrderAt DEF BookSound, Books
  <1>2. o.symbol \in Symbols /\ o.side \in {1, -1}
    BY <1>1 DEF ReplayOrders
  <1>3. b.positions \in [DOMAIN b.positions -> Int] /\ DOMAIN b.positions \in SUBSET Symbols
    BY <1>1 DEF Books
  <1>4. ASSUME NEW s PROVE PositionOf(b, s) \in Int /\ -b.fees <= PositionOf(b, s) /\ PositionOf(b, s) <= b.fees
    BY <1>1, <1>3 DEF PositionOf, BookSound
  <1> QED BY <1>1, <1>2, <1>3, <1>4 DEF FilledPositions, PositionMoved

\* A fill of a known order leaves a book, with one fee more.
LEMMA FillKeepsBook ==
    ASSUME NEW b, BookSound(b), NEW e \in FillEvents, e.id \in KnownIds(b)
    PROVE  BookSound(ApplyFill(b, e)) /\ ApplyFill(b, e).fees = b.fees + 1
  <1>1. PICK orders, positions, cash, slip, c, o :
          /\ orders = FilledOrders(b, e) /\ positions = FilledPositions(b, e) /\ cash = FilledCash(b, e)
          /\ slip = Slip(e.price) /\ c = ApplyFill(b, e) /\ o = b.orders[At(b, e.id)]
    OBVIOUS
  <1>2. b \in Books /\ b.fees \in Nat /\ b.orders \in Seq(ReplayOrders) /\ Len(b.orders) \in Nat
    BY DEF BookSound, Books
  <1>3. /\ orders \in Seq(ReplayOrders) /\ Len(orders) = Len(b.orders)
        /\ \A k \in 1 .. Len(b.orders) : orders[k].id = b.orders[k].id
    BY <1>1, <1>2, OrdersAfterFill
  <1>4. /\ o \in ReplayOrders /\ o.symbol \in Symbols /\ o.side \in Int
        /\ positions \in [DOMAIN b.positions \cup {o.symbol} -> Int]
        /\ DOMAIN b.positions \cup {o.symbol} \in SUBSET Symbols
    BY <1>1, PositionsAfterFill
  <1>5. e.price \in Nat /\ cash \in Int /\ slip \in Nat
    <2>1. e.price \in Nat /\ LimitPrice \in Nat
      BY ReplayConstants DEF FillEvents, ReplayConstants
    <2>2. slip \in Nat
      BY <1>1, <2>1 DEF Slip
    <2>3. b.cash \in Int /\ o.side * e.price \in Int
      BY <1>2, <1>4, <2>1 DEF Books
    <2> QED BY <1>1, <2>1, <2>2, <2>3 DEF FilledCash, Fee
  <1>6. InventoryFits(b, e) \in BOOLEAN /\ CashFits(b, e) \in BOOLEAN
    BY DEF InventoryFits, CashFits
  <1>7. c = [b EXCEPT !.orders = orders, !.positions = positions, !.cash = cash, !.fees = b.fees + Fee,
                      !.slippage = b.slippage + slip, !.inventoryOk = InventoryFits(b, e), !.cashOk = CashFits(b, e)]
    BY <1>1, <1>2, FillApplied
  <1>8. PICK inventoryOk, cashOk : inventoryOk = InventoryFits(b, e) /\ cashOk = CashFits(b, e)
    OBVIOUS
  <1>9. /\ c.orders = orders /\ c.positions = positions /\ c.fees = b.fees + 1 /\ c \in Books
    <2>1. positions \in UNION {[S -> Int] : S \in SUBSET Symbols}
      BY <1>4
    <2>2. PICK slippage : slippage = b.slippage + slip
      OBVIOUS
    <2>3. slippage \in Nat /\ b.decisions \in Nat
      BY <1>2, <1>5, <2>2 DEF Books
    <2>4. c = [orders |-> orders, positions |-> positions, cash |-> cash, fees |-> b.fees + 1,
               slippage |-> slippage, inventoryOk |-> inventoryOk, cashOk |-> cashOk, decisions |-> b.decisions]
      BY <1>2, <1>7, <1>8, <2>2 DEF Books, Fee
    <2>5. inventoryOk \in BOOLEAN /\ cashOk \in BOOLEAN /\ b.fees + 1 \in Nat
      BY <1>2, <1>6, <1>8
    <2> QED BY <1>3, <1>5, <2>1, <2>3, <2>4, <2>5 DEF Books
  <1>10. \A i, j \in DOMAIN orders : orders[i].id = orders[j].id => i = j
    <2>1. DOMAIN orders = 1 .. Len(b.orders) /\ DOMAIN b.orders = 1 .. Len(b.orders)
      BY <1>2, <1>3
    <2> QED BY <1>3, <2>1 DEF BookSound
  <1>11. IsFiniteSet(DOMAIN positions)
    <2>1. DOMAIN positions = DOMAIN b.positions \cup {o.symbol}
      BY <1>4
    <2>2. IsFiniteSet(DOMAIN b.positions)
      BY DEF BookSound
    <2> QED BY <2>1, <2>2, FS_AddElement
  <1>12. ASSUME NEW s \in DOMAIN positions
         PROVE  -(b.fees + 1) <= positions[s] /\ positions[s] <= b.fees + 1
    <2>1. s \in DOMAIN b.positions \cup {o.symbol}
      BY <1>4
    <2>2. positions[s] = PositionOf(b, s) + (IF s = o.symbol THEN o.side ELSE 0)
      <3>1. PositionMoved(b, positions, o)
        BY <1>1, PositionsAfterFill
      <3> QED BY <2>1, <3>1 DEF PositionMoved
    <2>3. PositionOf(b, s) \in Int /\ -b.fees <= PositionOf(b, s) /\ PositionOf(b, s) <= b.fees
      BY <1>1, PositionsAfterFill
    <2>4. o.side = 1 \/ o.side = -1
      BY <1>4 DEF ReplayOrders
    <2> QED BY <1>2, <2>2, <2>3, <2>4
  <1> QED BY <1>1, <1>9, <1>10, <1>11, <1>12 DEF BookSound

\* What the fills of an order come to.
LEMMA OrderComesTo ==
    ASSUME NEW o \in ReplayOrders
    PROVE  /\ FilledOf(o) \in Int /\ PaidOf(o) \in Int
           /\ o.fills = <<>> => FilledOf(o) = 0 /\ PaidOf(o) = 0
  <1>1. PICK n, v : n = Len(o.fills) /\ v = [k \in 1 .. n |-> -(o.side * o.fills[k]) - Fee]
    OBVIOUS
  <1>2. o.side \in Int /\ o.fills \in Seq(FillPrices) /\ FillPrices \subseteq Nat
    BY ReplayConstants DEF ReplayOrders, ReplayConstants
  <1>3. n \in Nat /\ DOMAIN o.fills = 1 .. n /\ \A k \in 1 .. n : o.fills[k] \in Nat
    <2>1. n \in Nat /\ DOMAIN o.fills = 1 .. n
      BY <1>1, <1>2
    <2>2. \A k \in 1 .. n : o.fills[k] \in FillPrices
      BY <1>2, <2>1
    <2> QED BY <1>2, <2>1, <2>2
  <1>4. v \in [1 .. n -> Int]
    <2>1. \A k \in 1 .. n : -(o.side * o.fills[k]) - Fee \in Int
      BY <1>2, <1>3 DEF Fee
    <2> QED BY <1>1, <2>1
  <1>5. PaidOf(o) = SumFunction(v)
    BY <1>1, <1>3 DEF PaidOf
  <1>6. IsFiniteSet(1 .. n)
    BY <1>3, FS_Interval
  <1>7. PaidOf(o) \in Int
    BY <1>4, <1>5, <1>6, SumType
  <1>8. FilledOf(o) \in Int
    BY <1>1, <1>2, <1>3 DEF FilledOf
  <1>9. ASSUME o.fills = <<>> PROVE FilledOf(o) = 0 /\ PaidOf(o) = 0
    <2>1. n = 0 /\ 1 .. n = {}
      BY <1>1, <1>3, <1>9
    <2>2. DOMAIN v = {} /\ v = [x \in {} |-> v[x]]
      BY <1>1, <2>1
    <2>3. PaidOf(o) = 0
      BY <1>5, <2>2, SumOfNothing
    <2> QED BY <1>1, <1>2, <2>1, <2>3 DEF FilledOf
  <1> QED BY <1>7, <1>8, <1>9

\* One more fill moves what an order has filled by one and what it has paid by a price and a
\* fee.
LEMMA OrderFilledOnce ==
    ASSUME NEW o \in ReplayOrders, NEW price \in FillPrices, NEW p \in ReplayOrders,
           p = [o EXCEPT !.fills = Append(o.fills, price)]
    PROVE  /\ FilledOf(p) = FilledOf(o) + o.side
           /\ PaidOf(p) = PaidOf(o) + (-(o.side * price) - Fee)
           /\ p.symbol = o.symbol
  <1>1. PICK n, v, w : /\ n = Len(o.fills) /\ v = [k \in 1 .. n |-> -(o.side * o.fills[k]) - Fee]
                       /\ w = [k \in 1 .. n + 1 |-> -(o.side * p.fills[k]) - Fee]
    OBVIOUS
  <1>2. o.side \in Int /\ o.fills \in Seq(FillPrices) /\ FillPrices \subseteq Nat
    BY ReplayConstants DEF ReplayOrders, ReplayConstants
  <1>3. p.side = o.side /\ p.symbol = o.symbol /\ p.fills = Append(o.fills, price)
    BY DEF ReplayOrders
  <1>4. /\ n \in Nat /\ DOMAIN o.fills = 1 .. n /\ DOMAIN p.fills = 1 .. n + 1 /\ Len(p.fills) = n + 1
        /\ p.fills[n + 1] = price /\ \A k \in 1 .. n : p.fills[k] = o.fills[k] /\ o.fills[k] \in Nat
    BY <1>1, <1>2, <1>3
  <1>5. v \in [1 .. n -> Int] /\ w \in [1 .. n + 1 -> Int] /\ \A k \in 1 .. n : w[k] = v[k]
    <2>1. \A k \in 1 .. n : -(o.side * o.fills[k]) - Fee \in Int
      BY <1>2, <1>4, SMTT(30) DEF Fee
    <2>2. price \in Nat
      BY <1>2
    <2>3. -(o.side * price) - Fee \in Int
      BY <1>2, <2>2 DEF Fee
    <2>4. v \in [1 .. n -> Int]
      BY <1>1, <2>1
    <2>5. \A k \in 1 .. n + 1 : -(o.side * p.fills[k]) - Fee \in Int
      <3>1. \A k \in 1 .. n + 1 : k = n + 1 \/ k \in 1 .. n
        BY <1>4
      <3> QED BY <1>4, <2>1, <2>3, <3>1
    <2>6. w \in [1 .. n + 1 -> Int]
      BY <1>1, <2>5
    <2>7. \A k \in 1 .. n : k \in 1 .. n + 1
      BY <1>4
    <2> QED BY <1>1, <1>4, <2>4, <2>6, <2>7
  <1>6. SumFunction(w) = SumFunction(v) + w[n + 1]
    BY <1>4, <1>5, SumAppended
  <1>7. PaidOf(o) = SumFunction(v) /\ PaidOf(p) = SumFunction(w) /\ w[n + 1] = -(o.side * price) - Fee
    <2>1. v = [k \in DOMAIN o.fills |-> -(o.side * o.fills[k]) - Fee]
      BY <1>1, <1>4
    <2>2. w = [k \in DOMAIN p.fills |-> -(p.side * p.fills[k]) - Fee]
      BY <1>1, <1>3, <1>4
    <2>3. PaidOf(o) = SumFunction(v)
      BY <2>1 DEF PaidOf
    <2>4. PaidOf(p) = SumFunction(w)
      BY <2>2 DEF PaidOf
    <2>5. n + 1 \in 1 .. n + 1
      BY <1>4
    <2> QED BY <1>1, <1>4, <2>3, <2>4, <2>5
  <1>8. FilledOf(p) = FilledOf(o) + o.side
    <2>1. FilledOf(p) = o.side * (n + 1) /\ FilledOf(o) = o.side * n
      BY <1>1, <1>3, <1>4 DEF FilledOf
    <2>2. o.side * (n + 1) = o.side * n + o.side
      <3>1. PICK a : a = o.side
        OBVIOUS
      <3>2. a = 1 \/ a = -1
        BY <3>1 DEF ReplayOrders
      <3>3. a * (n + 1) = a * n + a
        BY <1>4, <3>2
      <3> QED BY <3>1, <3>3
    <2> QED BY <2>1, <2>2
  <1> QED BY <1>3, <1>6, <1>7, <1>8

\* What the orders come to, symbol by symbol.
FilledFor(o, s) == IF o.symbol = s THEN FilledOf(o) ELSE 0

\* The same for what an order comes to in one symbol.
LEMMA OrderComesToFor ==
    ASSUME NEW o \in ReplayOrders, NEW s
    PROVE  FilledFor(o, s) \in Int /\ (o.fills = <<>> => FilledFor(o, s) = 0)
  <1>1. FilledOf(o) \in Int /\ (o.fills = <<>> => FilledOf(o) = 0)
    BY OrderComesTo
  <1> QED BY <1>1 DEF FilledFor

\* The sums over the orders are over functions of their places.
LEMMA SumsOfOrders ==
    ASSUME NEW orders \in Seq(ReplayOrders), NEW n, n = Len(orders)
    PROVE  /\ n \in Nat /\ IsFiniteSet(1 .. n) /\ DOMAIN orders = 1 .. n /\ \A k \in 1 .. n : orders[k] \in ReplayOrders
           /\ \E v \in [1 .. n -> Int] : /\ v = [k \in 1 .. n |-> FilledOf(orders[k])]
                                        /\ Filled(orders) = SumFunction(v) /\ SumFunction(v) \in Int
           /\ \E v \in [1 .. n -> Int] : /\ v = [k \in 1 .. n |-> PaidOf(orders[k])]
                                        /\ Paid(orders) = SumFunction(v) /\ SumFunction(v) \in Int
  <1>1. n \in Nat /\ DOMAIN orders = 1 .. n
    OBVIOUS
  <1>2. IsFiniteSet(1 .. n)
    BY <1>1, FS_Interval
  <1>3. \A k \in 1 .. n : orders[k] \in ReplayOrders
    BY <1>1
  <1>4. PICK D : D = 1 .. n
    OBVIOUS
  <1>5. ASSUME NEW v, v = [k \in 1 .. n |-> FilledOf(orders[k])]
        PROVE  v \in [1 .. n -> Int] /\ Filled(orders) = SumFunction(v) /\ SumFunction(v) \in Int
    <2>1. v \in [D -> Int]
      BY <1>3, <1>4, <1>5, OrderComesTo
    <2>2. SumFunction(v) \in Int
      BY <1>2, <1>4, <2>1, SumType
    <2>3. Filled(orders) = SumFunction(v)
      BY <1>1, <1>5 DEF Filled
    <2> QED BY <1>4, <2>1, <2>2, <2>3
  <1>6. ASSUME NEW v, v = [k \in 1 .. n |-> PaidOf(orders[k])]
        PROVE  v \in [1 .. n -> Int] /\ Paid(orders) = SumFunction(v) /\ SumFunction(v) \in Int
    <2>1. v \in [D -> Int]
      BY <1>3, <1>4, <1>6, OrderComesTo
    <2>2. SumFunction(v) \in Int
      BY <1>2, <1>4, <2>1, SumType
    <2>3. Paid(orders) = SumFunction(v)
      BY <1>1, <1>6 DEF Paid
    <2> QED BY <1>4, <2>1, <2>2, <2>3
  <1> QED BY <1>1, <1>2, <1>3, <1>5, <1>6

\* The sum over the orders of one symbol.
LEMMA SumsFor ==
    ASSUME NEW orders \in Seq(ReplayOrders), NEW n, n = Len(orders), NEW s
    PROVE  \E v \in [1 .. n -> Int] : /\ v = [k \in 1 .. n |-> FilledFor(orders[k], s)]
                                     /\ FilledIn(orders, s) = SumFunction(v) /\ SumFunction(v) \in Int
  <1>1. PICK D, v : D = 1 .. n /\ v = [k \in 1 .. n |-> FilledFor(orders[k], s)]
    OBVIOUS
  <1>2. IsFiniteSet(D) /\ DOMAIN orders = D /\ \A k \in D : orders[k] \in ReplayOrders
    BY <1>1, SumsOfOrders
  <1>3. v \in [D -> Int]
    BY <1>1, <1>2, OrderComesToFor
  <1>4. SumFunction(v) \in Int
    BY <1>2, <1>3, SumType
  <1>5. FilledIn(orders, s) = SumFunction(v)
    BY <1>1, <1>2 DEF FilledIn, FilledFor
  <1> QED BY <1>1, <1>3, <1>4, <1>5

\* One order changes.
LEMMA OrdersChanged ==
    ASSUME NEW orders \in Seq(ReplayOrders), NEW more \in Seq(ReplayOrders), Len(more) = Len(orders),
           NEW i \in 1 .. Len(orders), \A k \in 1 .. Len(orders) : k # i => more[k] = orders[k]
    PROVE  /\ Filled(more) = Filled(orders) + (FilledOf(more[i]) - FilledOf(orders[i]))
           /\ Paid(more) = Paid(orders) + (PaidOf(more[i]) - PaidOf(orders[i]))
           /\ \A s \in Symbols : FilledIn(more, s) = FilledIn(orders, s) + (FilledFor(more[i], s) - FilledFor(orders[i], s))
  <1>1. PICK n, D : n = Len(orders) /\ D = 1 .. n
    OBVIOUS
  <1>2. IsFiniteSet(D) /\ i \in D /\ \A k \in D : k # i => more[k] = orders[k]
    BY <1>1, SumsOfOrders
  <1>3. ASSUME NEW v \in [D -> Int], NEW w \in [D -> Int], \A k \in D : k # i => w[k] = v[k]
        PROVE  SumFunction(w) = SumFunction(v) + (w[i] - v[i])
    <2>1. \A k \in D \ {i} : w[k] = v[k]
      BY <1>3
    <2> QED BY <1>2, <2>1, SumChanged
  <1>4. Filled(more) = Filled(orders) + (FilledOf(more[i]) - FilledOf(orders[i]))
    <2>1. PICK v \in [D -> Int] : v = [k \in D |-> FilledOf(orders[k])] /\ Filled(orders) = SumFunction(v)
      BY <1>1, SumsOfOrders
    <2>2. PICK w \in [D -> Int] : w = [k \in D |-> FilledOf(more[k])] /\ Filled(more) = SumFunction(w)
      BY <1>1, SumsOfOrders
    <2>3. \A k \in D : k # i => w[k] = v[k]
      BY <1>2, <2>1, <2>2
    <2> QED BY <1>2, <1>3, <2>1, <2>2, <2>3
  <1>5. Paid(more) = Paid(orders) + (PaidOf(more[i]) - PaidOf(orders[i]))
    <2>1. PICK v \in [D -> Int] : v = [k \in D |-> PaidOf(orders[k])] /\ Paid(orders) = SumFunction(v)
      BY <1>1, SumsOfOrders
    <2>2. PICK w \in [D -> Int] : w = [k \in D |-> PaidOf(more[k])] /\ Paid(more) = SumFunction(w)
      BY <1>1, SumsOfOrders
    <2>3. \A k \in D : k # i => w[k] = v[k]
      BY <1>2, <2>1, <2>2
    <2> QED BY <1>2, <1>3, <2>1, <2>2, <2>3
  <1>6. ASSUME NEW s \in Symbols
        PROVE  FilledIn(more, s) = FilledIn(orders, s) + (FilledFor(more[i], s) - FilledFor(orders[i], s))
    <2>1. PICK v \in [D -> Int] : v = [k \in D |-> FilledFor(orders[k], s)] /\ FilledIn(orders, s) = SumFunction(v)
      BY <1>1, SumsFor, SMTT(30)
    <2>2. PICK w \in [D -> Int] : w = [k \in D |-> FilledFor(more[k], s)] /\ FilledIn(more, s) = SumFunction(w)
      BY <1>1, SumsFor, SMTT(30)
    <2>3. \A k \in D : k # i => w[k] = v[k]
      BY <1>2, <2>1, <2>2
    <2> QED BY <1>2, <1>3, <2>1, <2>2, <2>3
  <1> QED BY <1>4, <1>5, <1>6

\* An order comes without a fill.
LEMMA OrdersAdded ==
    ASSUME NEW orders \in Seq(ReplayOrders), NEW o \in ReplayOrders, o.fills = <<>>, NEW more \in Seq(ReplayOrders),
           Len(more) = Len(orders) + 1, more[Len(more)] = o, \A k \in 1 .. Len(orders) : more[k] = orders[k]
    PROVE  /\ Filled(more) = Filled(orders) /\ Paid(more) = Paid(orders)
           /\ \A s \in Symbols : FilledIn(more, s) = FilledIn(orders, s)
  <1>1. PICK n : n = Len(orders)
    OBVIOUS
  <1>2. /\ n \in Nat /\ more \in Seq(ReplayOrders) /\ Len(more) = n + 1 /\ more[n + 1] = o
        /\ \A k \in 1 .. n : more[k] = orders[k] /\ k \in 1 .. n + 1
    BY <1>1
  <1>3. ASSUME NEW v \in [1 .. n -> Int], NEW w \in [1 .. n + 1 -> Int], \A k \in 1 .. n : w[k] = v[k],
               w[n + 1] = 0, SumFunction(v) \in Int
        PROVE  SumFunction(w) = SumFunction(v)
    <2>1. SumFunction(w) = SumFunction(v) + w[n + 1]
      BY <1>2, <1>3, SumAppended
    <2> QED BY <1>3, <2>1
  <1>4. Filled(more) = Filled(orders)
    <2>1. PICK v \in [1 .. n -> Int] : /\ v = [k \in 1 .. n |-> FilledOf(orders[k])]
                                       /\ Filled(orders) = SumFunction(v) /\ SumFunction(v) \in Int
      BY <1>1, SumsOfOrders
    <2>2. PICK w \in [1 .. n + 1 -> Int] : w = [k \in 1 .. n + 1 |-> FilledOf(more[k])] /\ Filled(more) = SumFunction(w)
      BY <1>2, SumsOfOrders
    <2>3. (\A k \in 1 .. n : w[k] = v[k]) /\ w[n + 1] = FilledOf(o)
      BY <1>2, <2>1, <2>2
    <2>4. FilledOf(o) = 0
      BY OrderComesTo
    <2> QED BY <1>3, <2>1, <2>2, <2>3, <2>4
  <1>5. Paid(more) = Paid(orders)
    <2>1. PICK v \in [1 .. n -> Int] : /\ v = [k \in 1 .. n |-> PaidOf(orders[k])]
                                       /\ Paid(orders) = SumFunction(v) /\ SumFunction(v) \in Int
      BY <1>1, SumsOfOrders
    <2>2. PICK w \in [1 .. n + 1 -> Int] : w = [k \in 1 .. n + 1 |-> PaidOf(more[k])] /\ Paid(more) = SumFunction(w)
      BY <1>2, SumsOfOrders
    <2>3. (\A k \in 1 .. n : w[k] = v[k]) /\ w[n + 1] = PaidOf(o)
      BY <1>2, <2>1, <2>2
    <2>4. PaidOf(o) = 0
      BY OrderComesTo
    <2> QED BY <1>3, <2>1, <2>2, <2>3, <2>4
  <1>6. ASSUME NEW s \in Symbols PROVE FilledIn(more, s) = FilledIn(orders, s)
    <2>1. PICK v \in [1 .. n -> Int] : /\ v = [k \in 1 .. n |-> FilledFor(orders[k], s)]
                                       /\ FilledIn(orders, s) = SumFunction(v) /\ SumFunction(v) \in Int
      BY <1>1, SumsFor
    <2>2. PICK w \in [1 .. n + 1 -> Int] : w = [k \in 1 .. n + 1 |-> FilledFor(more[k], s)] /\ FilledIn(more, s) = SumFunction(w)
      <3>1. PICK m : m = Len(more)
        OBVIOUS
      <3>2. PICK w \in [1 .. m -> Int] : /\ w = [k \in 1 .. m |-> FilledFor(more[k], s)]
                                         /\ FilledIn(more, s) = SumFunction(w) /\ SumFunction(w) \in Int
        BY <3>1, SumsFor
      <3>3. m = n + 1
        BY <1>2, <3>1
      <3> QED BY <3>2, <3>3
    <2>3. (\A k \in 1 .. n : w[k] = v[k]) /\ w[n + 1] = FilledFor(o, s)
      BY <1>2, <2>1, <2>2
    <2>4. FilledFor(o, s) = 0
      BY OrderComesToFor
    <2> QED BY <1>3, <2>1, <2>2, <2>3, <2>4
  <1> QED BY <1>4, <1>5, <1>6

\* The positions, the cash and the checks of a book agree with its orders.
Balanced(b) ==
    /\ \A s \in Symbols : PositionOf(b, s) = FilledIn(b.orders, s)
    /\ b.cash = Paid(b.orders)
    /\ Inventory(b.positions) = Filled(b.orders)
    /\ b.inventoryOk /\ b.cashOk

\* An order event keeps the balance of a book, as long as it replaces no order that has
\* fills.
LEMMA OrderKeepsBalance ==
    ASSUME NEW b, BookSound(b), Balanced(b), NEW e \in OrderEvents,
           IdOf(b, e) \in KnownIds(b) => b.orders[At(b, IdOf(b, e))].fills = <<>>
    PROVE  Balanced(AcceptOrder(b, e))
  <1>1. PICK o, n, id, c : o = NewOrder(b, e) /\ n = Len(b.orders) /\ id = IdOf(b, e) /\ c = AcceptOrder(b, e)
    OBVIOUS
  <1>2. b \in Books /\ o \in ReplayOrders /\ o.fills = <<>> /\ n \in Nat /\ b.orders \in Seq(ReplayOrders)
    BY <1>1, NewOrderType DEF BookSound, Books, NewOrder
  <1>3. ASSUME NEW orders, c = [b EXCEPT !.orders = orders], Filled(orders) = Filled(b.orders),
               Paid(orders) = Paid(b.orders), \A s \in Symbols : FilledIn(orders, s) = FilledIn(b.orders, s)
        PROVE  Balanced(c)
    <2>1. /\ c.orders = orders /\ c.positions = b.positions /\ c.cash = b.cash
          /\ c.inventoryOk = b.inventoryOk /\ c.cashOk = b.cashOk
      BY <1>2, <1>3 DEF Books
    <2> QED BY <1>3, <2>1 DEF Balanced, PositionOf
  <1>4. CASE id \in KnownIds(b)
    <2>1. PICK i, orders : i = At(b, id) /\ orders = [b.orders EXCEPT ![i] = o]
      OBVIOUS
    <2>2. i \in 1 .. n /\ b.orders[i].fills = <<>> /\ c = [b EXCEPT !.orders = orders]
      BY <1>1, <1>4, <2>1, OrderReplaced
    <2>3. /\ orders \in Seq(ReplayOrders) /\ Len(orders) = n /\ orders[i] = o /\ b.orders[i] \in ReplayOrders
          /\ \A k \in 1 .. n : k # i => orders[k] = b.orders[k]
      BY <1>1, <1>2, <2>1, <2>2
    <2>4. /\ FilledOf(o) = 0 /\ PaidOf(o) = 0 /\ FilledOf(b.orders[i]) = 0 /\ PaidOf(b.orders[i]) = 0
      BY <1>2, <2>2, <2>3, OrderComesTo
    <2>5. \A s \in Symbols : FilledFor(o, s) = 0 /\ FilledFor(b.orders[i], s) = 0
      BY <1>2, <2>2, <2>3, OrderComesToFor
    <2>6. /\ Filled(orders) = Filled(b.orders) + (0 - 0) /\ Paid(orders) = Paid(b.orders) + (0 - 0)
          /\ \A s \in Symbols : FilledIn(orders, s) = FilledIn(b.orders, s) + (0 - 0)
      BY <1>1, <1>2, <2>2, <2>3, <2>4, <2>5, OrdersChanged
    <2>7. Filled(b.orders) \in Int /\ Paid(b.orders) \in Int /\ \A s \in Symbols : FilledIn(b.orders, s) \in Int
      <3>1. Filled(b.orders) \in Int /\ Paid(b.orders) \in Int
        BY <1>1, <1>2, SumsOfOrders
      <3>2. ASSUME NEW s \in Symbols PROVE FilledIn(b.orders, s) \in Int
        BY <1>1, <1>2, SumsFor
      <3> QED BY <3>1, <3>2
    <2>8. /\ Filled(orders) = Filled(b.orders) /\ Paid(orders) = Paid(b.orders)
          /\ \A s \in Symbols : FilledIn(orders, s) = FilledIn(b.orders, s)
      BY <2>6, <2>7
    <2> QED BY <1>1, <1>3, <2>2, <2>8
  <1>5. CASE id \notin KnownIds(b)
    <2>1. PICK orders : orders = Append(b.orders, o)
      OBVIOUS
    <2>2. c = [b EXCEPT !.orders = orders]
      BY <1>1, <1>5, <2>1, OrderAdded
    <2>3. /\ orders \in Seq(ReplayOrders) /\ Len(orders) = Len(b.orders) + 1 /\ orders[Len(orders)] = o
          /\ \A k \in 1 .. Len(b.orders) : orders[k] = b.orders[k]
      BY <1>2, <2>1
    <2>4. /\ Filled(orders) = Filled(b.orders) /\ Paid(orders) = Paid(b.orders)
          /\ \A s \in Symbols : FilledIn(orders, s) = FilledIn(b.orders, s)
      BY <1>2, <2>3, OrdersAdded
    <2> QED BY <1>1, <1>3, <2>2, <2>4
  <1> QED BY <1>4, <1>5

\* The inventory after a fill: it has moved by one.
LEMMA InventoryAfterFill ==
    ASSUME NEW b, BookSound(b), NEW e \in FillEvents, e.id \in KnownIds(b), NEW o, o = b.orders[At(b, e.id)]
    PROVE  Inventory(FilledPositions(b, e)) = Inventory(b.positions) + o.side
  <1>1. PICK D, s, p, q : D = DOMAIN b.positions /\ s = o.symbol /\ p = b.positions /\ q = FilledPositions(b, e)
    OBVIOUS
  <1>2. /\ o.side \in Int /\ q \in [D \cup {s} -> Int] /\ p \in [D -> Int] /\ PositionMoved(b, q, o)
        /\ PositionOf(b, s) \in Int
    BY <1>1, PositionsAfterFill
  <1>3. IsFiniteSet(D)
    BY <1>1 DEF BookSound
  <1>4. \A x \in D : x # s => q[x] = p[x] + 0
    BY <1>1, <1>2 DEF PositionMoved, PositionOf
  <1>5. \A x \in D : x # s => q[x] = p[x]
    BY <1>2, <1>4
  <1>6. SumFunction(p) \in Int
    BY <1>2, <1>3, SumType
  <1>7. CASE s \in D
    <2>1. D \cup {s} = D /\ q[s] = p[s] + o.side /\ p[s] \in Int
      BY <1>1, <1>2, <1>7 DEF PositionMoved, PositionOf
    <2>2. q \in [D -> Int] /\ \A x \in D \ {s} : q[x] = p[x]
      BY <1>2, <1>5, <2>1
    <2>3. SumFunction(q) = SumFunction(p) + (q[s] - p[s])
      BY <1>2, <1>3, <1>7, <2>2, SumChanged
    <2>4. SumFunction(q) = SumFunction(p) + ((p[s] + o.side) - p[s])
      BY <2>1, <2>3
    <2>5. SumFunction(q) = SumFunction(p) + o.side
      <3>1. PICK a, c, d : a = SumFunction(p) /\ c = p[s] /\ d = o.side
        OBVIOUS
      <3>2. a \in Int /\ c \in Int /\ d \in Int
        BY <1>2, <1>6, <2>1, <3>1
      <3> QED BY <2>4, <3>1, <3>2
    <2> QED BY <1>1, <2>5 DEF Inventory
  <1>8. CASE s \notin D
    <2>1. q[s] = 0 + o.side
      BY <1>1, <1>2, <1>8 DEF PositionMoved, PositionOf
    <2>2. \A x \in D : q[x] = p[x]
      BY <1>5, <1>8
    <2>3. SumFunction(q) = SumFunction(p) + q[s]
      BY <1>2, <1>3, <1>8, <2>2, SumOneMore
    <2> QED BY <1>1, <1>2, <1>6, <2>1, <2>3 DEF Inventory
  <1> QED BY <1>7, <1>8

\* A fill of a known order keeps it too, and both of its checks hold.
LEMMA FillKeepsBalance ==
    ASSUME NEW b, BookSound(b), Balanced(b), NEW e \in FillEvents, e.id \in KnownIds(b)
    PROVE  Balanced(ApplyFill(b, e))
  <1>1. PICK i, o, orders, positions, cash, c :
          /\ i = At(b, e.id) /\ o = b.orders[i] /\ orders = FilledOrders(b, e) /\ positions = FilledPositions(b, e)
          /\ cash = FilledCash(b, e) /\ c = ApplyFill(b, e)
    OBVIOUS
  <1>2. b \in Books /\ b.orders \in Seq(ReplayOrders) /\ b.cash \in Int
    BY DEF BookSound, Books
  <1>3. /\ i \in 1 .. Len(b.orders) /\ orders \in Seq(ReplayOrders) /\ Len(orders) = Len(b.orders)
        /\ orders[i] = [o EXCEPT !.fills = Append(o.fills, e.price)]
        /\ \A k \in 1 .. Len(b.orders) : k # i => orders[k] = b.orders[k]
    BY <1>1, <1>2, OrdersAfterFill, SMTT(30)
  <1>4. /\ o \in ReplayOrders /\ o.symbol \in Symbols /\ o.side \in Int /\ e.price \in FillPrices /\ orders[i] \in ReplayOrders
    <2>1. o.side \in Int /\ o.symbol \in Symbols
      BY <1>1, PositionsAfterFill
    <2>2. o \in ReplayOrders /\ orders[i] \in ReplayOrders
      BY <1>1, <1>2, <1>3
    <2>3. e.price \in FillPrices
      BY DEF FillEvents
    <2> QED BY <2>1, <2>2, <2>3
  <1>5. /\ FilledOf(orders[i]) = FilledOf(o) + o.side /\ orders[i].symbol = o.symbol
        /\ PaidOf(orders[i]) = PaidOf(o) + (-(o.side * e.price) - Fee)
    <2>1. PICK p : p = orders[i]
      OBVIOUS
    <2>2. p \in ReplayOrders /\ o \in ReplayOrders /\ p = [o EXCEPT !.fills = Append(o.fills, e.price)]
      BY <1>3, <1>4, <2>1
    <2>3. e.price \in FillPrices
      BY <1>4
    <2>4. /\ FilledOf(p) = FilledOf(o) + o.side /\ p.symbol = o.symbol
          /\ PaidOf(p) = PaidOf(o) + (-(o.side * e.price) - Fee)
      BY <2>2, <2>3, OrderFilledOnce, SMTT(20)
    <2> QED BY <2>1, <2>4
  <1>6. FilledOf(o) \in Int /\ PaidOf(o) \in Int
    BY <1>4, OrderComesTo
  <1>7. /\ Filled(orders) = Filled(b.orders) + (FilledOf(orders[i]) - FilledOf(o))
        /\ Paid(orders) = Paid(b.orders) + (PaidOf(orders[i]) - PaidOf(o))
        /\ \A s \in Symbols : FilledIn(orders, s) = FilledIn(b.orders, s) + (FilledFor(orders[i], s) - FilledFor(o, s))
    <2>1. PICK a : a = b.orders
      OBVIOUS
    <2>2. a \in Seq(ReplayOrders) /\ orders \in Seq(ReplayOrders) /\ Len(orders) = Len(a) /\ i \in 1 .. Len(a) /\ o = a[i]
      BY <1>1, <1>2, <1>3, <2>1
    <2>3. \A k \in 1 .. Len(a) : k # i => orders[k] = a[k]
      BY <1>3, <2>1
    <2>4. /\ Filled(orders) = Filled(a) + (FilledOf(orders[i]) - FilledOf(a[i]))
          /\ Paid(orders) = Paid(a) + (PaidOf(orders[i]) - PaidOf(a[i]))
          /\ \A s \in Symbols : FilledIn(orders, s) = FilledIn(a, s) + (FilledFor(orders[i], s) - FilledFor(a[i], s))
      BY <2>2, <2>3, OrdersChanged, SMTT(30)
    <2> QED BY <2>1, <2>2, <2>4
  <1>8. cash = Paid(orders)
    <2>1. PICK x : x = o.side * e.price
      OBVIOUS
    <2>2. x \in Int
      <3>1. e.price \in Nat
        BY <1>4, ReplayConstants DEF ReplayConstants
      <3> QED BY <1>4, <2>1, <3>1
    <2>3. b.cash = Paid(b.orders)
      BY DEF Balanced
    <2>4. cash = b.cash - x - Fee
      BY <1>1, <2>1 DEF FilledCash
    <2>5. Paid(orders) = b.cash + ((PaidOf(o) + (-x - Fee)) - PaidOf(o))
      BY <1>5, <1>7, <2>1, <2>3
    <2>6. PICK c1, p1, q1 : c1 = b.cash /\ p1 = PaidOf(o) /\ q1 = Paid(orders)
      OBVIOUS
    <2>7. c1 \in Int /\ p1 \in Int /\ q1 = c1 + ((p1 + (-x - 1)) - p1) /\ cash = c1 - x - 1
      BY <1>2, <1>6, <2>4, <2>5, <2>6 DEF Fee
    <2> QED BY <2>2, <2>6, <2>7
  <1>9. Inventory(positions) = Filled(orders)
    <2>1. Inventory(positions) = Inventory(b.positions) + o.side
      BY <1>1, InventoryAfterFill
    <2>2. Inventory(b.positions) = Filled(b.orders) /\ Inventory(b.positions) \in Int
      <3>1. b.positions \in [DOMAIN b.positions -> Int] /\ IsFiniteSet(DOMAIN b.positions)
        BY <1>1, PositionsAfterFill DEF BookSound
      <3> QED BY <3>1, SumType DEF Balanced, Inventory
    <2> QED BY <1>4, <1>5, <1>6, <1>7, <2>1, <2>2
  <1>10. c = [b EXCEPT !.orders = orders, !.positions = positions, !.cash = cash, !.fees = b.fees + Fee,
                       !.slippage = b.slippage + Slip(e.price), !.inventoryOk = InventoryFits(b, e),
                       !.cashOk = CashFits(b, e)]
    BY <1>1, <1>2, FillApplied
  <1>11. /\ c.orders = orders /\ c.positions = positions /\ c.cash = cash
         /\ c.inventoryOk = InventoryFits(b, e) /\ c.cashOk = CashFits(b, e)
    BY <1>2, <1>10 DEF Books
  <1>12. InventoryFits(b, e) /\ CashFits(b, e)
    BY <1>1, <1>8, <1>9 DEF Balanced, InventoryFits, CashFits
  <1>13. ASSUME NEW s \in Symbols PROVE PositionOf(c, s) = FilledIn(orders, s)
    <2>1. PositionOf(b, s) = FilledIn(b.orders, s)
      BY DEF Balanced
    <2>2. /\ PositionMoved(b, positions, o) /\ DOMAIN positions = DOMAIN b.positions \cup {o.symbol}
          /\ PositionOf(b, s) \in Int
      BY <1>1, PositionsAfterFill
    <2>3. PositionOf(c, s) = PositionOf(b, s) + (IF s = o.symbol THEN o.side ELSE 0)
      <3>1. CASE s \in DOMAIN positions
        BY <1>11, <2>2, <3>1 DEF PositionMoved, PositionOf
      <3>2. CASE s \notin DOMAIN positions
        BY <1>11, <2>2, <3>2 DEF PositionOf
      <3> QED BY <3>1, <3>2
    <2>4. FilledFor(orders[i], s) - FilledFor(o, s) = IF s = o.symbol THEN o.side ELSE 0
      BY <1>4, <1>5, <1>6 DEF FilledFor
    <2> QED BY <1>7, <2>1, <2>3, <2>4
  <1> QED BY <1>1, <1>8, <1>9, <1>11, <1>12, <1>13 DEF Balanced

\* Another decision changes nothing else of a book.
LEMMA DecisionKeepsBook ==
    ASSUME NEW b, BookSound(b), NEW c, c = [b EXCEPT !.decisions = @ + 1]
    PROVE  /\ BookSound(c) /\ c.fees = b.fees /\ c.orders = b.orders
           /\ Balanced(b) => Balanced(c)
  <1>1. b \in Books
    BY DEF BookSound
  <1>2. /\ c.orders = b.orders /\ c.positions = b.positions /\ c.cash = b.cash /\ c.fees = b.fees
        /\ c.slippage = b.slippage /\ c.inventoryOk = b.inventoryOk /\ c.cashOk = b.cashOk /\ c \in Books
    BY <1>1 DEF Books
  <1>3. BookSound(c)
    BY <1>2 DEF BookSound
  <1>4. Balanced(b) => Balanced(c)
    BY <1>2 DEF Balanced, PositionOf
  <1> QED BY <1>2, <1>3, <1>4

\* The three kinds of events.
LEMMA EventKinds ==
    ASSUME NEW b, NEW e \in ReplayEvents
    PROVE  \/ e \in OrderEvents /\ e.type = "order" /\ ReplayEvent(b, e) = AcceptOrder(b, e)
           \/ e \in FillEvents /\ e.type = "fill" /\ ReplayEvent(b, e) = ApplyFill(b, e)
           \/ e \in DecisionEvents /\ e.type = "decision" /\ ReplayEvent(b, e) = [b EXCEPT !.decisions = @ + 1]
  <1>1. CASE e \in OrderEvents
    <2>1. e.type = "order"
      BY <1>1 DEF OrderEvents
    <2> QED BY <1>1, <2>1 DEF ReplayEvent
  <1>2. CASE e \in FillEvents
    <2>1. e.type = "fill"
      BY <1>2 DEF FillEvents
    <2> QED BY <1>2, <2>1 DEF ReplayEvent
  <1>3. CASE e \in DecisionEvents
    <2>1. e.type = "decision"
      BY <1>3 DEF DecisionEvents
    <2> QED BY <1>3, <2>1 DEF ReplayEvent
  <1> QED BY <1>1, <1>2, <1>3 DEF ReplayEvents

\* What an event costs: a fee for the fill of a known order.
Charge(b, e) == IF e.type = "fill" /\ e.id \in KnownIds(b) THEN 1 ELSE 0

\* Every event leaves a book, with the fee it costs.
LEMMA EventKeepsBook ==
    ASSUME NEW b, BookSound(b), NEW e \in ReplayEvents
    PROVE  BookSound(ReplayEvent(b, e)) /\ ReplayEvent(b, e).fees = b.fees + Charge(b, e)
  <1>0. b.fees \in Nat
    BY DEF BookSound, Books
  <1>1. CASE e \in OrderEvents /\ e.type = "order" /\ ReplayEvent(b, e) = AcceptOrder(b, e)
    BY <1>0, <1>1, OrderKeepsBook DEF Charge
  <1>2. CASE e \in DecisionEvents /\ e.type = "decision" /\ ReplayEvent(b, e) = [b EXCEPT !.decisions = @ + 1]
    BY <1>0, <1>2, DecisionKeepsBook DEF Charge
  <1>3. CASE e \in FillEvents /\ e.type = "fill" /\ ReplayEvent(b, e) = ApplyFill(b, e)
    <2>1. CASE e.id \in KnownIds(b)
      BY <1>3, <2>1, FillKeepsBook DEF Charge
    <2>2. CASE e.id \notin KnownIds(b)
      BY <1>0, <1>3, <2>2 DEF Charge, ApplyFill
    <2> QED BY <2>1, <2>2
  <1> QED BY <1>1, <1>2, <1>3, EventKinds

\* An event keeps the ids at their places; only an order of an unknown id adds one.
Adds(b, e) == e.type = "order" /\ IdOf(b, e) \notin KnownIds(b)

\* After an event the known ids are where they were, and a new one is at most at the end.
LEMMA EventKeepsIds ==
    ASSUME NEW b, BookSound(b), NEW e \in ReplayEvents, NEW c, c = ReplayEvent(b, e), NEW n, n = Len(b.orders)
    PROVE  /\ n \in Nat /\ Len(c.orders) \in Nat
           /\ \A k \in 1 .. n : c.orders[k].id = b.orders[k].id
           /\ Adds(b, e) => Len(c.orders) = n + 1 /\ c.orders[n + 1].id = IdOf(b, e)
           /\ ~Adds(b, e) => Len(c.orders) = n
  <1>1. b \in Books /\ b.orders \in Seq(ReplayOrders) /\ n \in Nat
    BY DEF BookSound, Books
  <1>2. CASE e \in DecisionEvents /\ e.type = "decision" /\ c = [b EXCEPT !.decisions = @ + 1]
    BY <1>1, <1>2, DecisionKeepsBook DEF Adds
  <1>3. CASE e \in FillEvents /\ e.type = "fill" /\ c = ApplyFill(b, e)
    <2>0. ~Adds(b, e)
      BY <1>3 DEF Adds
    <2>1. CASE e.id \in KnownIds(b)
      <3>1. PICK orders : orders = FilledOrders(b, e)
        OBVIOUS
      <3>2. c.orders = orders
        <4>1. c = [b EXCEPT !.orders = orders, !.positions = FilledPositions(b, e), !.cash = FilledCash(b, e),
                            !.fees = b.fees + Fee, !.slippage = b.slippage + Slip(e.price),
                            !.inventoryOk = InventoryFits(b, e), !.cashOk = CashFits(b, e)]
          BY <1>1, <1>3, <2>1, <3>1, FillApplied
        <4> QED BY <1>1, <4>1 DEF Books
      <3>3. Len(orders) = n /\ \A k \in 1 .. n : orders[k].id = b.orders[k].id
        BY <1>1, <1>3, <2>1, <3>1, OrdersAfterFill
      <3> QED BY <1>1, <2>0, <3>2, <3>3
    <2>2. CASE e.id \notin KnownIds(b)
      BY <1>1, <1>3, <2>0, <2>2 DEF ApplyFill
    <2> QED BY <2>1, <2>2
  <1>4. CASE e \in OrderEvents /\ e.type = "order" /\ c = AcceptOrder(b, e)
    <2>1. PICK o, id : o = NewOrder(b, e) /\ id = IdOf(b, e)
      OBVIOUS
    <2>2. o \in ReplayOrders /\ o.id = id
      BY <1>1, <1>4, <2>1, NewOrderType DEF NewOrder
    <2>3. CASE id \in KnownIds(b)
      <3>1. PICK i, orders : i = At(b, id) /\ orders = [b.orders EXCEPT ![i] = o]
        OBVIOUS
      <3>2. i \in 1 .. n /\ b.orders[i].id = id /\ c = [b EXCEPT !.orders = orders]
        BY <1>4, <2>1, <2>3, <3>1, OrderReplaced
      <3>3. c.orders = orders
        BY <1>1, <3>2 DEF Books
      <3>4. Len(orders) = n /\ \A k \in 1 .. n : orders[k].id = b.orders[k].id
        BY <1>1, <2>2, <3>1, <3>2
      <3>5. ~Adds(b, e)
        BY <2>1, <2>3 DEF Adds
      <3> QED BY <1>1, <3>3, <3>4, <3>5
    <2>4. CASE id \notin KnownIds(b)
      <3>1. PICK orders : orders = Append(b.orders, o)
        OBVIOUS
      <3>2. c = [b EXCEPT !.orders = orders]
        BY <1>4, <2>1, <2>4, <3>1, OrderAdded
      <3>3. c.orders = orders
        BY <1>1, <3>2 DEF Books
      <3>4. Len(orders) = n + 1 /\ orders[n + 1] = o /\ \A k \in 1 .. n : orders[k] = b.orders[k]
        BY <1>1, <2>2, <3>1
      <3>5. Adds(b, e)
        BY <1>4, <2>1, <2>4 DEF Adds
      <3> QED BY <1>1, <2>1, <2>2, <3>3, <3>4, <3>5
    <2> QED BY <2>3, <2>4
  <1> QED BY <1>2, <1>3, <1>4, EventKinds

\* Two books of the same ids, whatever their fills: an event does the same to both.
SameIds(b, c) ==
    /\ Len(b.orders) = Len(c.orders)
    /\ \A k \in 1 .. Len(b.orders) : b.orders[k].id = c.orders[k].id

\* Books of the same ids know the same orders, give the same number to the next one and
\* charge the same fee.
LEMMA SameIdsKnown ==
    ASSUME NEW b, NEW c, BookSound(b), BookSound(c), SameIds(b, c), NEW e
    PROVE  KnownIds(b) = KnownIds(c) /\ IdOf(b, e) = IdOf(c, e) /\ Charge(b, e) = Charge(c, e) /\ (Adds(b, e) <=> Adds(c, e))
  <1>1. b.orders \in Seq(ReplayOrders) /\ c.orders \in Seq(ReplayOrders)
    BY DEF BookSound, Books
  <1>2. PICK n : n = Len(b.orders)
    OBVIOUS
  <1>3. DOMAIN b.orders = 1 .. n /\ DOMAIN c.orders = 1 .. n
    BY <1>1, <1>2 DEF SameIds
  <1>4. KnownIds(b) = KnownIds(c)
    BY <1>2, <1>3 DEF SameIds, KnownIds
  <1>5. IdOf(b, e) = IdOf(c, e)
    BY DEF IdOf, SameIds
  <1> QED BY <1>4, <1>5 DEF Charge, Adds

\* The same event leaves books of the same ids with the same ids.
LEMMA SameIdsKept ==
    ASSUME NEW b, NEW c, BookSound(b), BookSound(c), SameIds(b, c), NEW e \in ReplayEvents
    PROVE  SameIds(ReplayEvent(b, e), ReplayEvent(c, e))
  <1>0. PICK p, q : p = ReplayEvent(b, e) /\ q = ReplayEvent(c, e)
    OBVIOUS
  <1>1. PICK n, s, t : n = Len(b.orders) /\ s = p.orders /\ t = q.orders
    OBVIOUS
  <1>2. n = Len(c.orders) /\ \A k \in 1 .. n : b.orders[k].id = c.orders[k].id
    BY <1>1 DEF SameIds
  <1>3. /\ n \in Nat /\ \A k \in 1 .. n : s[k].id = b.orders[k].id
        /\ Adds(b, e) => Len(s) = n + 1 /\ s[n + 1].id = IdOf(b, e)
        /\ ~Adds(b, e) => Len(s) = n
    <2>1. /\ n \in Nat /\ Len(p.orders) \in Nat
          /\ \A k \in 1 .. n : p.orders[k].id = b.orders[k].id
          /\ Adds(b, e) => Len(p.orders) = n + 1 /\ p.orders[n + 1].id = IdOf(b, e)
          /\ ~Adds(b, e) => Len(p.orders) = n
      <3>1. n = Len(b.orders)
        BY <1>1
      <3> QED BY <1>0, <3>1, EventKeepsIds
    <2> QED BY <1>1, <2>1
  <1>4. /\ \A k \in 1 .. n : t[k].id = c.orders[k].id
        /\ Adds(c, e) => Len(t) = n + 1 /\ t[n + 1].id = IdOf(c, e)
        /\ ~Adds(c, e) => Len(t) = n
    <2>1. /\ n \in Nat /\ Len(q.orders) \in Nat
          /\ \A k \in 1 .. n : q.orders[k].id = c.orders[k].id
          /\ Adds(c, e) => Len(q.orders) = n + 1 /\ q.orders[n + 1].id = IdOf(c, e)
          /\ ~Adds(c, e) => Len(q.orders) = n
      BY <1>0, <1>2, EventKeepsIds
    <2> QED BY <1>1, <2>1
  <1>5. (Adds(b, e) <=> Adds(c, e)) /\ IdOf(b, e) = IdOf(c, e)
    BY SameIdsKnown
  <1>6. \A k \in 1 .. n : s[k].id = t[k].id
    BY <1>2, <1>3, <1>4
  <1>7. CASE Adds(b, e)
    <2>1. \A k \in 1 .. n + 1 : k = n + 1 \/ k \in 1 .. n
      BY <1>3
    <2>2. Len(s) = n + 1 /\ Len(t) = n + 1 /\ s[n + 1].id = t[n + 1].id
      BY <1>3, <1>4, <1>5, <1>7
    <2>3. \A k \in 1 .. n + 1 : s[k].id = t[k].id
      BY <1>6, <2>1, <2>2
    <2> QED BY <1>0, <1>1, <2>2, <2>3 DEF SameIds
  <1>8. CASE ~Adds(b, e)
    BY <1>0, <1>1, <1>3, <1>4, <1>5, <1>6, <1>8 DEF SameIds
  <1> QED BY <1>7, <1>8

\* A fill costs a fee and leaves the ids.
LEMMA FillKeepsIds ==
    ASSUME NEW b, BookSound(b), NEW e \in ReplayEvents, e.type = "fill", e.id \in KnownIds(b),
           NEW c, c = ReplayEvent(b, e)
    PROVE  BookSound(c) /\ SameIds(b, c) /\ SameIds(c, b) /\ c.fees = b.fees + 1 /\ e.id \in KnownIds(c)
  <1>1. BookSound(c) /\ c.fees = b.fees + 1
    BY EventKeepsBook DEF Charge
  <1>2. ~Adds(b, e)
    BY DEF Adds
  <1>3. SameIds(b, c) /\ SameIds(c, b)
    BY <1>2, EventKeepsIds DEF SameIds
  <1> QED BY <1>1, <1>3, SameIdsKnown

\* An event keeps the balance, unless it accepts an id again after a fill.
Replaces(b, e) ==
    /\ e.type = "order" /\ IdOf(b, e) \in KnownIds(b)
    /\ b.orders[At(b, IdOf(b, e))].fills # <<>>

\* Every event that replaces no filled order keeps the balance.
LEMMA EventKeepsBalance ==
    ASSUME NEW b, BookSound(b), Balanced(b), NEW e \in ReplayEvents, ~Replaces(b, e)
    PROVE  Balanced(ReplayEvent(b, e))
  <1>1. CASE e \in OrderEvents /\ e.type = "order" /\ ReplayEvent(b, e) = AcceptOrder(b, e)
    BY <1>1, OrderKeepsBalance DEF Replaces
  <1>2. CASE e \in DecisionEvents /\ e.type = "decision" /\ ReplayEvent(b, e) = [b EXCEPT !.decisions = @ + 1]
    BY <1>2, DecisionKeepsBook
  <1>3. CASE e \in FillEvents /\ e.type = "fill" /\ ReplayEvent(b, e) = ApplyFill(b, e)
    <2>1. CASE e.id \in KnownIds(b)
      BY <1>3, <2>1, FillKeepsBalance
    <2>2. CASE e.id \notin KnownIds(b)
      BY <1>3, <2>2 DEF ApplyFill
    <2> QED BY <2>1, <2>2
  <1> QED BY <1>1, <1>2, <1>3, EventKinds

-----------------------------------------------------------------------------
\* Only chosen ids reach beyond the number of orders.
IdsFollow ==
    /\ replaced \subseteq chosen
    /\ \A k \in 1 .. Len(live.orders) : live.orders[k].id \in chosen \/ live.orders[k].id <= Len(live.orders)

\* The replayed log and the session: the same book, or the same ids and a fee apart.
FaultKnown ==
    /\ fault = "none" => live = again
    /\ fault \in {"fill lost", "fill twice"} =>
           SameIds(live, again) /\ (live.fees = again.fees + 1 \/ again.fees = live.fees + 1)
    /\ held # <<>> => fault = "other" /\ held[1] \in ReplayEvents

\* A fee is paid for an event of the session, or one that the log has twice.
FeesPaid ==
    /\ recorded \in Nat /\ live.fees <= recorded
    /\ again.fees <= recorded + 1
    /\ fault = "none" \/ held # <<>> => again.fees <= recorded

ReplayInv ==
    /\ BookSound(live) /\ BookSound(again)
    /\ replaced = {} => Balanced(live)
    /\ IdsFollow
    /\ FaultKnown
    /\ FeesPaid

\* The book a session starts from is sound and balanced.
LEMMA EmptyBookSound == BookSound(EmptyBook) /\ Balanced(EmptyBook)
  <1>1. PICK b : b = EmptyBook
    OBVIOUS
  <1>2. /\ b.orders = <<>> /\ b.positions = <<>> /\ b.cash = 0 /\ b.fees = 0 /\ b.inventoryOk = TRUE /\ b.cashOk = TRUE
    BY <1>1 DEF EmptyBook
  <1>3. b.positions \in [{} -> Int] /\ DOMAIN b.positions = {} /\ {} \in SUBSET Symbols
    BY <1>2
  <1>4. b \in Books
    <2>0. PICK orders, positions : orders = b.orders /\ positions = b.positions
      OBVIOUS
    <2>1. positions \in UNION {[S -> Int] : S \in SUBSET Symbols}
      BY <1>3, <2>0
    <2>2. orders \in Seq(ReplayOrders)
      BY <1>2, <2>0
    <2>3. b = [orders |-> orders, positions |-> positions, cash |-> 0, fees |-> 0, slippage |-> 0,
               inventoryOk |-> TRUE, cashOk |-> TRUE, decisions |-> 0]
      BY <1>1, <1>2, <2>0 DEF EmptyBook
    <2> QED BY <2>1, <2>2, <2>3 DEF Books
  <1>5. BookSound(b)
    BY <1>2, <1>3, <1>4, FS_EmptySet DEF BookSound
  <1>6. SumFunction(b.positions) = 0
    BY <1>2, <1>3, SumOfNothing
  <1>7. Filled(b.orders) = 0 /\ Paid(b.orders) = 0
    <2>1. ASSUME NEW v, DOMAIN v = {}, v = [x \in {} |-> v[x]] PROVE SumFunction(v) = 0
      BY <2>1, SumOfNothing
    <2>2. DOMAIN b.orders = {}
      BY <1>2
    <2>3. SumFunction([i \in DOMAIN b.orders |-> FilledOf(b.orders[i])]) = 0
      BY <2>2, SumOfNothing
    <2>4. SumFunction([i \in DOMAIN b.orders |-> PaidOf(b.orders[i])]) = 0
      BY <2>2, SumOfNothing
    <2> QED BY <2>3, <2>4 DEF Filled, Paid
  <1>8. ASSUME NEW s \in Symbols PROVE PositionOf(b, s) = FilledIn(b.orders, s)
    <2>1. DOMAIN b.orders = {}
      BY <1>2
    <2>2. SumFunction([i \in DOMAIN b.orders |-> IF b.orders[i].symbol = s THEN FilledOf(b.orders[i]) ELSE 0]) = 0
      BY <2>1, SumOfNothing
    <2> QED BY <1>3, <2>2 DEF FilledIn, PositionOf
  <1> QED BY <1>1, <1>2, <1>5, <1>6, <1>7, <1>8 DEF Balanced, Inventory

\* The invariant holds at the start of a session.
LEMMA ReplayInvInit == ReplayInit => ReplayInv
  <1> SUFFICES ASSUME ReplayInit PROVE ReplayInv
    OBVIOUS
  <1>1. live = EmptyBook /\ again = EmptyBook /\ BookSound(EmptyBook) /\ Balanced(EmptyBook)
    BY EmptyBookSound DEF ReplayInit
  <1>2. live.orders = <<>> /\ live.fees = 0 /\ again.fees = 0
    BY <1>1 DEF EmptyBook
  <1> QED BY <1>1, <1>2 DEF ReplayInit, ReplayInv, IdsFollow, FaultKnown, FeesPaid

\* The session: its ids and its balance.
LEMMA RecordKeeps ==
    ASSUME ReplayInv, NEW e \in ReplayEvents, Record(e)
    PROVE  /\ BookSound(live)' /\ (replaced = {} => Balanced(live))' /\ IdsFollow'
           /\ live' = ReplayEvent(live, e) /\ recorded' = recorded + 1
           /\ recorded' \in Nat /\ live'.fees = live.fees + Charge(live, e) /\ live'.fees <= recorded'
           /\ live.fees \in Nat /\ again.fees \in Nat /\ Charge(live, e) \in {0, 1}
  <1>1. BookSound(live) /\ live \in Books /\ again \in Books /\ recorded \in Nat /\ live.fees <= recorded
    BY DEF ReplayInv, FeesPaid, BookSound
  <1>2. live' = ReplayEvent(live, e) /\ recorded' = recorded + 1
    BY DEF Record
  <1>3. BookSound(live') /\ live'.fees = live.fees + Charge(live, e)
    BY <1>1, <1>2, EventKeepsBook
  <1>4. live.fees \in Nat /\ again.fees \in Nat
    BY <1>1 DEF Books
  <1>5. replaced' = IF Replaces(live, e) THEN replaced \cup {IdOf(live, e)} ELSE replaced
    BY DEF Record, Replaces
  <1>6. replaced' = {} => Balanced(live')
    BY <1>1, <1>2, <1>5, EventKeepsBalance DEF ReplayInv
  <1>7. PICK n, id : n = Len(live.orders) /\ id = IdOf(live, e)
    OBVIOUS
  <1>8. /\ n \in Nat /\ \A k \in 1 .. n : live'.orders[k].id = live.orders[k].id
        /\ Adds(live, e) => Len(live'.orders) = n + 1 /\ live'.orders[n + 1].id = id
        /\ ~Adds(live, e) => Len(live'.orders) = n
    <2>1. PICK b, c : b = live /\ c = ReplayEvent(b, e)
      OBVIOUS
    <2>2. BookSound(b) /\ n = Len(b.orders)
      BY <1>1, <1>7, <2>1
    <2>3. /\ n \in Nat /\ \A k \in 1 .. n : c.orders[k].id = b.orders[k].id
          /\ Adds(b, e) => Len(c.orders) = n + 1 /\ c.orders[n + 1].id = IdOf(b, e)
          /\ ~Adds(b, e) => Len(c.orders) = n
      BY <2>1, <2>2, EventKeepsIds
    <2>4. c = live'
      BY <1>2, <2>1
    <2> QED BY <1>7, <2>1, <2>3, <2>4
  <1>9. chosen' = IF e.type = "order" /\ e.id # 0 THEN chosen \cup {e.id} ELSE chosen
    BY DEF Record
  <1>10. \A k \in 1 .. n : live.orders[k].id \in chosen \/ live.orders[k].id <= n
    BY <1>7 DEF ReplayInv, IdsFollow
  <1>11. e.type = "order" => id \in chosen' \/ id = n + 1
    BY <1>7, <1>9 DEF IdOf
  <1>12. \A k \in 1 .. n : live.orders[k].id \in Nat
    <2>1. live.orders \in Seq(ReplayOrders)
      BY <1>1 DEF Books
    <2>2. \A k \in 1 .. n : live.orders[k] \in ReplayOrders
      BY <1>7, <2>1
    <2> QED BY <2>2 DEF ReplayOrders
  <1>13. replaced' \subseteq chosen'
    <2>1. replaced \subseteq chosen /\ chosen \subseteq chosen'
      BY <1>9 DEF ReplayInv, IdsFollow
    <2>2. ASSUME Replaces(live, e) PROVE id \in chosen'
      <3>1. id \in KnownIds(live) /\ e.type = "order"
        BY <1>7, <2>2 DEF Replaces
      <3>2. \E k \in 1 .. n : live.orders[k].id = id
        <4>1. live.orders \in Seq(ReplayOrders)
          BY <1>1 DEF Books
        <4> QED BY <1>7, <3>1, <4>1 DEF KnownIds
      <3>3. id \in chosen \/ id <= n
        BY <1>10, <3>2
      <3>4. id # n + 1 \/ id \in chosen
        BY <1>8, <3>3
      <3> QED BY <1>11, <2>1, <3>1, <3>4
    <2> QED BY <1>5, <1>7, <2>1, <2>2
  <1>14. \A k \in 1 .. Len(live'.orders) : live'.orders[k].id \in chosen' \/ live'.orders[k].id <= Len(live'.orders)
    <2>1. chosen \subseteq chosen'
      BY <1>9
    <2>2. CASE Adds(live, e)
      <3>1. \A k \in 1 .. n + 1 : k = n + 1 \/ k \in 1 .. n
        BY <1>8
      <3>2. \A k \in 1 .. n : live'.orders[k].id \in chosen' \/ live'.orders[k].id <= n + 1
        BY <1>8, <1>10, <1>12, <2>1
      <3>3. live'.orders[n + 1].id \in chosen' \/ live'.orders[n + 1].id <= n + 1
        BY <1>8, <1>11, <2>2 DEF Adds
      <3> QED BY <1>8, <2>2, <3>1, <3>2, <3>3
    <2>3. CASE ~Adds(live, e)
      BY <1>8, <1>10, <2>1, <2>3
    <2> QED BY <2>2, <2>3
  <1>15. Charge(live, e) \in {0, 1}
    BY DEF Charge
  <1>16. live'.fees <= recorded' /\ recorded' \in Nat
    BY <1>1, <1>2, <1>3, <1>4, <1>15
  <1>17. IdsFollow'
    BY <1>13, <1>14 DEF IdsFollow
  <1> QED BY <1>2, <1>3, <1>4, <1>6, <1>15, <1>16, <1>17

\* Every event of the session, in whatever way it reaches the log, keeps the invariant.
LEMMA ReplayInvStep == ReplayInv /\ [ReplayNext]_replayVars => ReplayInv'
  <1> SUFFICES ASSUME ReplayInv, [ReplayNext]_replayVars PROVE ReplayInv'
    OBVIOUS
  <1>1. /\ BookSound(live) /\ BookSound(again) /\ FaultKnown /\ FeesPaid
        /\ live.fees \in Nat /\ again.fees \in Nat /\ recorded \in Nat
    BY DEF ReplayInv, FeesPaid, BookSound, Books
  <1>2. ASSUME NEW e \in ReplayEvents, LogEvent(e) PROVE ReplayInv'
    <2>1. Record(e) /\ again' = ReplayEvent(again, e) /\ held' = held /\ fault' = fault
      BY <1>2 DEF LogEvent
    <2>2. /\ BookSound(live)' /\ (replaced = {} => Balanced(live))' /\ IdsFollow'
          /\ live' = ReplayEvent(live, e) /\ recorded' = recorded + 1
          /\ live'.fees = live.fees + Charge(live, e) /\ live'.fees <= recorded' /\ Charge(live, e) \in {0, 1}
      BY <2>1, RecordKeeps
    <2>3. BookSound(again') /\ again'.fees = again.fees + Charge(again, e) /\ Charge(again, e) \in {0, 1}
      BY <1>1, <2>1, EventKeepsBook DEF Charge
    <2>4. fault = "none" => live' = again'
      BY <1>1, <2>1, <2>2 DEF FaultKnown
    <2>5. ASSUME fault \in {"fill lost", "fill twice"}
          PROVE  SameIds(live', again') /\ (live'.fees = again'.fees + 1 \/ again'.fees = live'.fees + 1)
      <3>1. SameIds(live, again) /\ (live.fees = again.fees + 1 \/ again.fees = live.fees + 1)
        BY <1>1, <2>5 DEF FaultKnown
      <3>2. Charge(live, e) = Charge(again, e) /\ SameIds(live', again')
        BY <1>1, <2>1, <2>2, <3>1, SameIdsKnown, SameIdsKept
      <3> QED BY <1>1, <2>2, <2>3, <3>1, <3>2
    <2>6. FaultKnown'
      BY <1>1, <2>1, <2>4, <2>5 DEF FaultKnown
    <2>7. FeesPaid'
      BY <1>1, <2>1, <2>2, <2>3 DEF FeesPaid
    <2> QED BY <2>2, <2>3, <2>6, <2>7 DEF ReplayInv
  <1>3. ASSUME NEW e \in ReplayEvents, LoseEvent(e) PROVE ReplayInv'
    <2>1. /\ Record(e) /\ again' = again /\ held' = held /\ fault = "none"
          /\ fault' = IF Applies(e) THEN "fill lost" ELSE "other"
      BY <1>3 DEF LoseEvent
    <2>2. /\ BookSound(live)' /\ (replaced = {} => Balanced(live))' /\ IdsFollow'
          /\ live' = ReplayEvent(live, e) /\ recorded' = recorded + 1
          /\ live'.fees = live.fees + Charge(live, e) /\ live'.fees <= recorded' /\ Charge(live, e) \in {0, 1}
      BY <2>1, RecordKeeps
    <2>3. live = again /\ held = <<>> /\ again.fees <= recorded
      BY <1>1, <2>1 DEF FaultKnown, FeesPaid
    <2>4. ASSUME Applies(e) PROVE SameIds(live', again') /\ live'.fees = again'.fees + 1
      BY <1>1, <2>1, <2>2, <2>3, <2>4, FillKeepsIds DEF Applies
    <2>5. FaultKnown'
      BY <2>1, <2>3, <2>4 DEF FaultKnown
    <2>6. FeesPaid'
      <3>1. again'.fees <= recorded' /\ recorded' \in Nat /\ again'.fees <= recorded' + 1
        <4>1. PICK x, y : x = again.fees /\ y = recorded
          OBVIOUS
        <4>2. again'.fees = x /\ recorded' = y + 1
          BY <2>1, <2>2, <4>1
        <4>3. x \in Nat /\ y \in Nat /\ x <= y
          BY <1>1, <2>3, <4>1
        <4>4. x <= y + 1 /\ y + 1 \in Nat /\ x <= (y + 1) + 1
          BY <4>3
        <4> QED BY <4>2, <4>4
      <3> QED BY <2>2, <3>1 DEF FeesPaid
    <2> QED BY <1>1, <2>1, <2>2, <2>5, <2>6 DEF ReplayInv
  <1>4. ASSUME NEW e \in ReplayEvents, RepeatEvent(e) PROVE ReplayInv'
    <2>1. /\ Record(e) /\ held' = held /\ fault = "none" /\ again' = ReplayEvent(ReplayEvent(again, e), e)
          /\ fault' = IF Applies(e) THEN "fill twice" ELSE "other"
      BY <1>4 DEF RepeatEvent
    <2>2. /\ BookSound(live)' /\ (replaced = {} => Balanced(live))' /\ IdsFollow'
          /\ live' = ReplayEvent(live, e) /\ recorded' = recorded + 1
          /\ live'.fees = live.fees + Charge(live, e) /\ live'.fees <= recorded' /\ Charge(live, e) \in {0, 1}
      BY <2>1, RecordKeeps
    <2>3. live = again /\ held = <<>> /\ again.fees <= recorded
      BY <1>1, <2>1 DEF FaultKnown, FeesPaid
    <2>4. PICK once : once = ReplayEvent(again, e)
      OBVIOUS
    <2>5. BookSound(once) /\ once.fees = again.fees + Charge(again, e) /\ once = live'
      BY <1>1, <2>2, <2>3, <2>4, EventKeepsBook
    <2>6. BookSound(again') /\ again'.fees = once.fees + Charge(once, e)
      BY <2>1, <2>4, <2>5, EventKeepsBook
    <2>7. Charge(again, e) \in {0, 1} /\ Charge(once, e) \in {0, 1}
      BY DEF Charge
    <2>8. ASSUME Applies(e) PROVE SameIds(live', again') /\ again'.fees = live'.fees + 1
      <3>1. e.type = "fill" /\ e.id \in KnownIds(again)
        BY <2>3, <2>8 DEF Applies
      <3>2. e.id \in KnownIds(once)
        BY <1>1, <2>4, <3>1, FillKeepsIds
      <3>3. SameIds(once, again') /\ again'.fees = once.fees + 1
        BY <2>1, <2>4, <2>5, <3>1, <3>2, FillKeepsIds
      <3> QED BY <2>5, <3>3
    <2>9. FaultKnown'
      BY <2>1, <2>3, <2>8 DEF FaultKnown
    <2>10. FeesPaid'
      <3>1. again'.fees <= recorded' + 1
        <4>1. PICK x, y, d, f : x = again.fees /\ y = recorded /\ d = Charge(again, e) /\ f = Charge(once, e)
          OBVIOUS
        <4>2. again'.fees = x + d + f /\ recorded' = y + 1
          BY <2>2, <2>5, <2>6, <4>1
        <4>3. x \in Nat /\ y \in Nat /\ x <= y /\ d \in {0, 1} /\ f \in {0, 1}
          BY <1>1, <2>3, <2>7, <4>1
        <4>4. x + d + f <= (y + 1) + 1
          BY <4>3
        <4> QED BY <4>2, <4>4
      <3>2. fault' # "none" /\ held' = <<>>
        BY <2>1, <2>3
      <3>3. recorded' \in Nat /\ live'.fees <= recorded'
        BY <1>1, <2>2
      <3> QED BY <3>1, <3>2, <3>3 DEF FeesPaid
    <2> QED BY <2>2, <2>6, <2>9, <2>10 DEF ReplayInv
  <1>5. ASSUME NEW e \in ReplayEvents, DelayEvent(e) PROVE ReplayInv'
    <2>1. Record(e) /\ again' = again /\ held' = <<e>> /\ fault = "none" /\ fault' = "other"
      BY <1>5 DEF DelayEvent
    <2>2. /\ BookSound(live)' /\ (replaced = {} => Balanced(live))' /\ IdsFollow'
          /\ recorded' = recorded + 1 /\ live'.fees <= recorded'
      BY <2>1, RecordKeeps
    <2>3. again.fees <= recorded
      BY <1>1, <2>1 DEF FeesPaid
    <2>4. FaultKnown'
      BY <2>1 DEF FaultKnown
    <2>5. FeesPaid'
      BY <1>1, <2>1, <2>2, <2>3 DEF FeesPaid
    <2> QED BY <1>1, <2>1, <2>2, <2>4, <2>5 DEF ReplayInv
  <1>6. ASSUME ReleaseEvent PROVE ReplayInv'
    <2>1. /\ held # <<>> /\ held' = <<>> /\ again' = ReplayEvent(again, held[1]) /\ live' = live
          /\ recorded' = recorded /\ fault' = fault /\ replaced' = replaced /\ chosen' = chosen
      BY <1>6 DEF ReleaseEvent
    <2>2. fault = "other" /\ held[1] \in ReplayEvents /\ again.fees <= recorded
      BY <1>1, <2>1 DEF FaultKnown, FeesPaid
    <2>3. BookSound(again') /\ again'.fees = again.fees + Charge(again, held[1]) /\ Charge(again, held[1]) \in {0, 1}
      BY <1>1, <2>1, <2>2, EventKeepsBook DEF Charge
    <2>4. FaultKnown'
      BY <2>1, <2>2 DEF FaultKnown
    <2>5. FeesPaid'
      BY <1>1, <2>1, <2>2, <2>3 DEF FeesPaid
    <2>6. IdsFollow' /\ BookSound(live)' /\ (replaced = {} => Balanced(live))'
      BY <2>1 DEF ReplayInv, IdsFollow
    <2> QED BY <2>3, <2>4, <2>5, <2>6 DEF ReplayInv
  <1>7. CASE UNCHANGED replayVars
    BY <1>7 DEF replayVars, ReplayInv, IdsFollow, FaultKnown, FeesPaid
  <1> QED BY <1>2, <1>3, <1>4, <1>5, <1>6, <1>7 DEF ReplayNext, ReplayEvents

\* The books of a session and their replay tell the truth.
LEMMA ReplayInvTells == ReplayInv => ReplayTells
  <1> SUFFICES ASSUME ReplayInv PROVE ReplayTells
    OBVIOUS
  <1>1. BookSound(live) /\ BookSound(again) /\ FaultKnown /\ FeesPaid /\ IdsFollow /\ (replaced = {} => Balanced(live))
    BY DEF ReplayInv
  <1>2. live \in Books /\ again \in Books
    BY <1>1 DEF BookSound
  <1>3. ASSUME NEW b \in {live, again}
        PROVE  /\ \A i, j \in DOMAIN b.orders : b.orders[i].id = b.orders[j].id => i = j
               /\ \A s \in DOMAIN b.positions : s \in Symbols /\ b.positions[s] \in -b.fees .. b.fees
               /\ b.fees \in 0 .. recorded + 1 /\ b.slippage \in Nat
               /\ {b.inventoryOk, b.cashOk} \subseteq BOOLEAN
    <2>1. BookSound(b) /\ b \in Books
      BY <1>1, <1>2
    <2>2. b.fees \in Nat /\ b.slippage \in Nat /\ b.inventoryOk \in BOOLEAN /\ b.cashOk \in BOOLEAN
      BY <2>1 DEF Books
    <2>3. b.positions \in [DOMAIN b.positions -> Int] /\ DOMAIN b.positions \in SUBSET Symbols
      BY <2>1 DEF Books
    <2>4. recorded \in Nat /\ b.fees <= recorded + 1
      BY <1>1, <1>2 DEF FeesPaid, Books
    <2>5. \A i, j \in DOMAIN b.orders : b.orders[i].id = b.orders[j].id => i = j
      BY <2>1 DEF BookSound
    <2>6. ASSUME NEW s \in DOMAIN b.positions PROVE s \in Symbols /\ b.positions[s] \in -b.fees .. b.fees
      BY <2>1, <2>2, <2>3 DEF BookSound
    <2> QED BY <2>2, <2>4, <2>5, <2>6
  <1>4. ReplayTypeOK
    BY <1>3 DEF ReplayTypeOK
  <1>5. BooksBalance
    BY <1>1 DEF BooksBalance, Balanced
  <1>6. AlarmsExplained
    BY <1>1 DEF AlarmsExplained, Balanced
  <1>7. AnonymousNeverMeet
    BY <1>1 DEF AnonymousNeverMeet, IdsFollow
  <1>8. FillFaultTold
    <2>1. ASSUME fault \in {"fill lost", "fill twice"} PROVE Verdict(TRUE) = "diverged"
      <3>1. live.fees # again.fees
        <4>1. live.fees \in Nat /\ again.fees \in Nat
          BY <1>2 DEF Books
        <4>2. live.fees = again.fees + 1 \/ again.fees = live.fees + 1
          BY <1>1, <2>1 DEF FaultKnown
        <4>3. PICK x, y : x = live.fees /\ y = again.fees
          OBVIOUS
        <4>4. x \in Nat /\ y \in Nat /\ (x = y + 1 \/ y = x + 1)
          BY <4>1, <4>2, <4>3
        <4>5. x # y
          BY <4>4
        <4> QED BY <4>3, <4>5
      <3>2. Outcome(live).pnl[2] = live.fees /\ Outcome(again).pnl[2] = again.fees
        BY DEF Outcome
      <3>3. Outcome(live) # Outcome(again)
        BY <3>1, <3>2
      <3> QED BY <3>3 DEF Verdict
    <2>2. ASSUME fault = "none" PROVE Verdict(TRUE) = "ok"
      BY <1>1, <2>2 DEF FaultKnown, Verdict
    <2> QED BY <2>1, <2>2 DEF FillFaultTold
  <1> QED BY <1>4, <1>5, <1>6, <1>7, <1>8 DEF ReplayTells

\* The replay of a backtest tells the truth, whatever happens to one event of its log: the
\* books balance until an id is accepted again after a fill, their checks raise no false
\* alarm, and a fill that is lost or there twice is always told (replay_backtest and
\* validate_replay).
THEOREM ReplayStaysTold == ReplaySpec => []ReplayTells
  <1>1. ReplayInit => ReplayInv
    BY ReplayInvInit
  <1>2. ReplayInv /\ [ReplayNext]_replayVars => ReplayInv'
    BY ReplayInvStep
  <1>3. ReplayInv => ReplayTells
    BY ReplayInvTells
  <1> QED BY <1>1, <1>2, <1>3, PTL DEF ReplaySpec
=============================================================================
