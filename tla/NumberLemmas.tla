----------------------------- MODULE NumberLemmas -----------------------------
(***************************************************************************)
(* Sets of natural numbers have a least element, bounded ones a greatest,  *)
(* and the members of a bounded one can be counted.  Sums over finite sets *)
(* compare as their numbers do, member by member.                          *)
(***************************************************************************)
EXTENDS Integers, Sequences, FiniteSets, Places, Sums, FiniteSetTheorems, WellFoundedInduction, TLAPS

\* A set of natural numbers that is not empty has a least element.
LEMMA LeastNumber ==
  ASSUME NEW S \in SUBSET Nat, S # {}
  PROVE  \E m \in S : \A k \in S : m <= k
<1> DEFINE L == OpToRel(<, Nat)
<1>1. IsWellFoundedOn(L, Nat)
  BY NatLessThanWellFounded
<1>2. \A m, k \in S : k < m => <<k, m>> \in L
  BY DEF OpToRel
<1> HIDE DEF L
<1>3. PICK m \in S : \A k \in S : <<k, m>> \notin L
  BY <1>1, WFMin
<1>4. \A k \in S : ~(k < m)
  BY <1>2, <1>3
<1>5. \A k \in S : k \in Nat /\ m \in Nat
  OBVIOUS
<1> QED BY <1>4, <1>5

\* A bounded one has a greatest element.
LEMMA GreatestNumber ==
  ASSUME NEW S \in SUBSET Nat, S # {}, NEW n \in Nat, \A k \in S : k <= n
  PROVE  \E m \in S : \A k \in S : k <= m
<1> DEFINE T == {n - k : k \in S}
<1>1. \A k \in S : n - k \in Nat
  OBVIOUS
<1>6. T \in SUBSET Nat /\ T # {}
  BY <1>1
<1> HIDE DEF T
<1>2. PICK t \in T : \A u \in T : t <= u
  BY <1>6, LeastNumber
<1>3. PICK m \in S : t = n - m
  BY DEF T
<1>4. \A k \in S : n - m <= n - k
  BY <1>2, <1>3 DEF T
<1>5. \A k \in S : k \in Nat /\ m \in Nat
  OBVIOUS
<1> QED BY <1>4, <1>5

\* The numbers of a set are at most as many as there are, and one more is one more.
LEMMA CountedNumbers ==
  ASSUME NEW n \in Nat, NEW S \in SUBSET (1..n)
  PROVE  /\ Cardinality(S) \in Nat /\ Cardinality(S) <= n
         /\ \A x \in (1..n) \ S : Cardinality(S \cup {x}) = Cardinality(S) + 1
<1>1. IsFiniteSet(1..n) /\ Cardinality(1..n) = n
  <2>1. 1 \in Int /\ n \in Int
    OBVIOUS
  <2>2. IsFiniteSet(1..n) /\ Cardinality(1..n) = IF 1 > n THEN 0 ELSE n - 1 + 1
    BY <2>1, FS_Interval
  <2> QED BY <2>2
<1>2. IsFiniteSet(S) /\ Cardinality(S) <= Cardinality(1..n)
  BY <1>1, FS_Subset
<1>3. Cardinality(S) \in Nat
  BY <1>2, FS_CardinalityType
<1>4. \A x \in (1..n) \ S : Cardinality(S \cup {x}) = Cardinality(S) + 1
  BY <1>2, FS_AddElement
<1> QED BY <1>1, <1>2, <1>3, <1>4

\* Places: for each count up to their number there is the place with so many up to it.
LEMMA PlaceOfCount ==
  ASSUME NEW n \in Nat, NEW S \in SUBSET (1..n), NEW k \in 1..Cardinality(S)
  PROVE  \E i \in S : Cardinality({j \in S : j <= i}) = k
<1> DEFINE upTo(i) == {j \in S : j <= i}
<1>1. \A T \in SUBSET S : Cardinality(T) \in Nat /\ Cardinality(T) <= n /\ IsFiniteSet(T)
  <2>1. IsFiniteSet(1..n)
    BY FS_Interval
  <2> QED BY <2>1, CountedNumbers, FS_Subset
<1>2. DEFINE Enough == {i \in S : k <= Cardinality(upTo(i))}
<1>0. S \in SUBSET Nat /\ \A j \in S : j <= n
  OBVIOUS
<1>3. Enough \in SUBSET Nat
  BY <1>0
<1>4. Enough # {}
  <2>1. S # {}
    BY FS_EmptySet
  <2>2. PICK m \in S : \A j \in S : j <= m
    BY <1>0, <2>1, GreatestNumber
  <2>3. upTo(m) = S
    BY <2>2
  <2> QED BY <2>3, <1>1
<1> HIDE DEF Enough
<1>5. PICK i \in Enough : \A j \in Enough : i <= j
  BY <1>3, <1>4, LeastNumber
<1>6. i \in S /\ i \in Nat /\ k <= Cardinality(upTo(i))
  BY <1>5 DEF Enough
<1>7. Cardinality(upTo(i)) <= k
  <2> SUFFICES ASSUME ~(Cardinality(upTo(i)) <= k) PROVE FALSE
    OBVIOUS
  <2>1. PICK T : T = upTo(i) \ {i}
    OBVIOUS
  <2>2. T \in SUBSET S /\ upTo(i) \in SUBSET S /\ i \in upTo(i)
    BY <1>6, <2>1
  <2>3. Cardinality(T) = Cardinality(upTo(i)) - 1
    BY <1>1, <2>1, <2>2, FS_RemoveElement
  <2>4. k <= Cardinality(T) /\ T # {}
    <3>1. Cardinality(T) \in Nat /\ Cardinality(upTo(i)) \in Nat /\ k \in Nat /\ k # 0
      BY <1>1, <2>2
    <3>2. k <= Cardinality(T)
      BY <2>3, <3>1
    <3> QED BY <3>1, <3>2, FS_EmptySet
  <2>5. PICK m \in T : \A j \in T : j <= m
    <3>1. T \in SUBSET Nat /\ \A j \in T : j <= n
      BY <2>2
    <3> QED BY <2>4, <3>1, GreatestNumber
  <2>6. upTo(m) = T
    <3>1. \A j \in T : j \in S /\ j <= i /\ j # i /\ j <= m
      BY <2>1, <2>5
    <3>2. m \in S /\ m <= i /\ m # i
      BY <3>1, <2>5
    <3>3. ASSUME NEW j \in S, j <= m PROVE j \in T
      <4>1. j \in Nat /\ m \in Nat /\ i \in Nat
        BY <1>0, <1>6, <3>2
      <4>2. j <= i /\ j # i
        BY <3>2, <3>3, <4>1
      <4> QED BY <2>1, <3>3, <4>2
    <3> QED BY <3>1, <3>3
  <2>7. m \in Enough
    BY <2>2, <2>4, <2>5, <2>6 DEF Enough
  <2> QED BY <1>5, <1>6, <2>1, <2>2, <2>5, <2>7
<1>8. Cardinality(upTo(i)) \in Nat /\ k \in Nat
  BY <1>1
<1>9. Cardinality(upTo(i)) = k
  BY <1>6, <1>7, <1>8
<1> QED BY <1>6, <1>9, Zenon

\* f numbers the places S of the sequence s in their order, and t has the members at them.
Numbered(f, S, s, t) ==
  /\ \A i \in 1..Len(t) : f[i] \in S /\ t[i] = s[f[i]]
  /\ \A i, j \in 1..Len(t) : i < j => f[i] < f[j]
  /\ \A x \in S : \E i \in 1..Len(t) : f[i] = x

\* A part of a sequence by its places.
LEMMA PartIs ==
  ASSUME NEW T, NEW s \in Seq(T), NEW S \in SUBSET (1..Len(s))
  PROVE  AtPlaces(s, S) \in Seq(T) /\ \E f : Numbered(f, S, s, AtPlaces(s, S))
<1> DEFINE upTo(i) == {j \in S : j <= i}
<1>1. Len(s) \in Nat /\ \A i \in 1..Len(s) : s[i] \in T
  OBVIOUS
<1>2. Cardinality(S) \in Nat
  BY <1>1, CountedNumbers
<1>3. PICK f : f = [k \in 1..Cardinality(S) |-> CHOOSE i \in S : Cardinality(upTo(i)) = k]
  OBVIOUS
<1>4. \A k \in 1..Cardinality(S) : f[k] \in S /\ Cardinality(upTo(f[k])) = k
  <2>1. \A k \in 1..Cardinality(S) : \E i \in S : Cardinality(upTo(i)) = k
    BY <1>1, PlaceOfCount
  <2> QED BY <1>3, <2>1
<1>5. PICK p : p = AtPlaces(s, S)
  OBVIOUS
<1>6. p = [k \in 1..Cardinality(S) |-> s[f[k]]]
  BY <1>3, <1>5 DEF AtPlaces
<1>7. p \in Seq(T) /\ Len(p) = Cardinality(S) /\ \A i \in 1..Cardinality(S) : p[i] = s[f[i]]
  <2>1. \A k \in 1..Cardinality(S) : s[f[k]] \in T
    BY <1>1, <1>4
  <2>2. p \in [1..Cardinality(S) -> T]
    BY <1>6, <2>1
  <2> QED BY <1>2, <1>6, <2>2
<1>8. /\ IsFiniteSet(S)
      /\ \A i \in S : i \in Nat /\ i \in upTo(i) /\ upTo(i) \subseteq S /\ IsFiniteSet(upTo(i))
                      /\ Cardinality(upTo(i)) \in Nat /\ Cardinality(upTo(i)) <= Cardinality(S)
      /\ \A x, y \in S : x <= y => upTo(x) \subseteq upTo(y)
      /\ \A x, y \in S : x < y => x \in upTo(y) /\ y \notin upTo(x)
  <2>1. IsFiniteSet(1..Len(s))
    BY <1>1, FS_Interval
  <2>2. S \subseteq 1..Len(s)
    OBVIOUS
  <2>3. IsFiniteSet(S)
    BY <2>1, <2>2, FS_Subset
  <2>4. \A i \in S : i \in Nat
    BY <1>1, <2>2
  <2>5. \A i \in S : i \in upTo(i) /\ upTo(i) \subseteq S
    BY <2>4
  <2>6. \A i \in S : IsFiniteSet(upTo(i)) /\ Cardinality(upTo(i)) \in Nat /\ Cardinality(upTo(i)) <= Cardinality(S)
    BY <2>3, <2>5, FS_Subset, FS_CardinalityType
  <2>7. \A x, y \in S : x <= y => upTo(x) \subseteq upTo(y)
    <3>1. SUFFICES ASSUME NEW x \in S, NEW y \in S, x <= y, NEW j \in S, j <= x PROVE j <= y
      OBVIOUS
    <3>2. x \in Nat /\ y \in Nat /\ j \in Nat
      BY <2>4
    <3> QED BY <3>1, <3>2
  <2>8. \A x, y \in S : x < y => x \in upTo(y) /\ y \notin upTo(x)
    BY <2>4
  <2> QED BY <2>3, <2>4, <2>5, <2>6, <2>7, <2>8
<1> HIDE DEF upTo
<1>9. \A x, y \in S : x < y => Cardinality(upTo(x)) < Cardinality(upTo(y))
  <2>1. SUFFICES ASSUME NEW x \in S, NEW y \in S, x < y PROVE Cardinality(upTo(x)) < Cardinality(upTo(y))
    OBVIOUS
  <2>2. x <= y
    BY <1>8, <2>1
  <2>3. upTo(x) \subseteq upTo(y) \ {y} /\ y \in upTo(y) /\ IsFiniteSet(upTo(y))
    BY <1>8, <2>1, <2>2
  <2>4. IsFiniteSet(upTo(y) \ {y}) /\ Cardinality(upTo(y) \ {y}) = Cardinality(upTo(y)) - 1
    BY <2>3, FS_RemoveElement
  <2>5. Cardinality(upTo(x)) <= Cardinality(upTo(y) \ {y})
    BY <2>3, <2>4, FS_Subset
  <2>6. Cardinality(upTo(x)) \in Nat /\ Cardinality(upTo(y)) \in Nat
    BY <1>8
  <2> QED BY <2>4, <2>5, <2>6
<1>10. \A i, j \in 1..Len(p) : i < j => f[i] < f[j]
  <2>1. SUFFICES ASSUME NEW i \in 1..Cardinality(S), NEW j \in 1..Cardinality(S), i < j, ~(f[i] < f[j])
                 PROVE  FALSE
    BY <1>7
  <2>2. f[i] \in S /\ f[j] \in S /\ Cardinality(upTo(f[i])) = i /\ Cardinality(upTo(f[j])) = j
    BY <1>4
  <2>3. f[j] < f[i] \/ f[j] = f[i]
    <3>1. f[i] \in Nat /\ f[j] \in Nat
      BY <1>8, <2>2
    <3> QED BY <2>1, <3>1
  <2>4. j < i \/ j = i
    BY <1>9, <2>2, <2>3
  <2> QED BY <1>2, <2>1, <2>4
<1>11. \A x \in S : \E i \in 1..Len(p) : f[i] = x
  <2>1. SUFFICES ASSUME NEW x \in S PROVE \E i \in 1..Cardinality(S) : f[i] = x
    BY <1>7
  <2>2. PICK k : k = Cardinality(upTo(x))
    OBVIOUS
  <2>3. k \in 1..Cardinality(S)
    <3>1. k \in Nat /\ k <= Cardinality(S)
      BY <1>8, <2>2
    <3>2. k # 0
      BY <1>8, <2>2, FS_EmptySet
    <3> QED BY <1>2, <3>1, <3>2
  <2>4. f[k] \in S /\ Cardinality(upTo(f[k])) = k
    BY <1>4, <2>3
  <2>5. f[k] \in Nat /\ x \in Nat
    BY <1>8, <2>4
  <2>6. ~(f[k] < x)
    <3>1. ~(k < k)
      BY <1>2, <2>3
    <3> QED BY <1>9, <2>2, <2>4, <3>1
  <2>7. ~(x < f[k])
    <3>1. ~(k < k)
      BY <1>2, <2>3
    <3> QED BY <1>9, <2>2, <2>4, <3>1
  <2>8. f[k] = x
    BY <2>5, <2>6, <2>7
  <2> QED BY <2>3, <2>8
<1>12. Numbered(f, S, s, p)
  BY <1>4, <1>7, <1>10, <1>11 DEF Numbered
<1> QED BY <1>5, <1>7, <1>12
------------------------------------------------------------------------------
(* Sums.                                                                     *)

\* The member that Only picks.
LEMMA OneIsIn ==
  ASSUME NEW c, c # {}
  PROVE  Only(c) \in c
BY DEF Only

LEMMA OneOfOne ==
  ASSUME NEW x
  PROVE  Only({x}) = x
BY DEF Only

\* What holds of the empty set, and of a set if of the set without one member, holds
\* of a finite set: said with the set of the sets of which it holds.
LEMMA OneByOne ==
  ASSUME NEW S, IsFiniteSet(S), NEW Q \in SUBSET (SUBSET S), {} \in Q,
         \A T \in SUBSET S : T # {} /\ T \ {Only(T)} \in Q => T \in Q
  PROVE  SUBSET S \subseteq Q
<1> SUFFICES ASSUME NEW U \in SUBSET S, U \notin Q PROVE FALSE
  OBVIOUS
<1>1. \A T \in SUBSET S : IsFiniteSet(T) /\ Cardinality(T) \in Nat
  BY FS_Subset, FS_CardinalityType
<1>2. PICK N : N = {Cardinality(T) : T \in (SUBSET S) \ Q}
  OBVIOUS
<1>3. N \in SUBSET Nat /\ N # {}
  BY <1>1, <1>2
<1>4. PICK m \in N : \A k \in N : m <= k
  BY <1>3, LeastNumber
<1>5. PICK T \in (SUBSET S) \ Q : m = Cardinality(T)
  BY <1>2
<1>6. T # {}
  OBVIOUS
<1>7. PICK V : V = T \ {Only(T)}
  OBVIOUS
<1>8. V \in SUBSET S /\ V \notin Q
  BY <1>6, <1>7
<1>9. Cardinality(V) = Cardinality(T) - 1
  BY <1>1, <1>6, <1>7, OneIsIn, FS_RemoveElement
<1>10. Cardinality(V) \in N
  BY <1>2, <1>8
<1> QED BY <1>1, <1>4, <1>5, <1>9, <1>10

\* The sum of a set is one of its numbers and the sum of the others.
LEMMA SumsAre ==
  ASSUME NEW S, IsFiniteSet(S), NEW numbers
  PROVE  \E sum : /\ sum[{}] = 0
                  /\ \A T \in SUBSET S : T # {} => sum[T] = numbers[Only(T)] + sum[T \ {Only(T)}]
                  /\ SumAt(numbers, S) = sum[S]
<1> DEFINE Step(g, T) == IF T = {} THEN 0 ELSE numbers[Only(T)] + g[T \ {Only(T)}]
           Small(n) == {T \in SUBSET S : Cardinality(T) <= n}
           Sized(n) == \E g : g = [T \in Small(n) |-> Step(g, T)]
<1>1. \A T \in SUBSET S : IsFiniteSet(T) /\ Cardinality(T) \in Nat /\ Cardinality(T) <= Cardinality(S)
                           /\ (T # {} => Cardinality(T \ {Only(T)}) = Cardinality(T) - 1)
                           /\ (Cardinality(T) = 0 => T = {})
  BY FS_Subset, FS_CardinalityType, FS_RemoveElement, FS_EmptySet, OneIsIn
<1>2. PICK N : N = Cardinality(S) /\ N \in Nat
  BY <1>1
<1>3. \A n \in 0..N : Sized(n)
  <2> SUFFICES ASSUME {n \in 0..N : ~Sized(n)} # {} PROVE FALSE
    OBVIOUS
  <2>1. {n \in 0..N : ~Sized(n)} \in SUBSET Nat
    BY <1>2
  <2> HIDE DEF Sized
  <2>2. PICK n \in 0..N : ~Sized(n) /\ \A m \in 0..N : ~Sized(m) => n <= m
    <3>1. PICK X : X = {n \in 0..N : ~Sized(n)}
      OBVIOUS
    <3>2. \E m \in X : \A k \in X : m <= k
      BY <2>1, <3>1, LeastNumber
    <3> QED BY <3>1, <3>2
  <2>3. CASE n = 0
    <3>1. \A T \in Small(0) : T = {}
      <4>1. ASSUME NEW T \in SUBSET S, Cardinality(T) <= 0 PROVE T = {}
        <5>1. Cardinality(T) \in Nat
          BY <1>1
        <5>2. Cardinality(T) = 0
          BY <4>1, <5>1
        <5> QED BY <1>1, <5>2
      <4> QED BY <4>1
    <3>2. PICK g : g = [T \in Small(0) |-> 0]
      OBVIOUS
    <3> HIDE DEF Small
    <3>3. g = [T \in Small(0) |-> Step(g, T)]
      BY <3>1, <3>2
    <3> QED BY <2>2, <2>3, <3>3 DEF Sized
  <2>4. CASE n # 0
    <3>1. n - 1 \in 0..N /\ ~(n <= n - 1) /\ n \in Nat
      BY <1>2, <2>4
    <3>2. Sized(n - 1)
      BY <2>2, <3>1
    <3>3. PICK f : f = [T \in Small(n - 1) |-> Step(f, T)]
      BY <3>2 DEF Sized
    <3>4. PICK g : g = [T \in Small(n) |-> Step(f, T)]
      OBVIOUS
    <3>5. \A T \in Small(n) : T # {} => T \ {Only(T)} \in Small(n) /\ T \ {Only(T)} \in Small(n - 1)
      <4> SUFFICES ASSUME NEW T \in Small(n), T # {} PROVE T \ {Only(T)} \in Small(n)
            /\ T \ {Only(T)} \in Small(n - 1)
        OBVIOUS
      <4>1. PICK V : V = T \ {Only(T)}
        OBVIOUS
      <4>2. Cardinality(T) \in Nat /\ Cardinality(T) <= n /\ Cardinality(V) = Cardinality(T) - 1 /\ V \in SUBSET S
        BY <1>1, <4>1
      <4>3. Cardinality(V) <= n - 1 /\ Cardinality(V) <= n
        BY <3>1, <4>2
      <4> QED BY <4>1, <4>2, <4>3
    <3>6. \A T \in Small(n - 1) : T \in Small(n)
      <4>1. ASSUME NEW T \in SUBSET S, Cardinality(T) <= n - 1 PROVE Cardinality(T) <= n
        <5>1. Cardinality(T) \in Nat
          BY <1>1
        <5> QED BY <3>1, <4>1, <5>1
      <4> QED BY <4>1
    <3> HIDE DEF Small
    <3>7. \A T \in Small(n) : T # {} => g[T \ {Only(T)}] = f[T \ {Only(T)}]
      <4> SUFFICES ASSUME NEW T \in Small(n), T # {} PROVE g[T \ {Only(T)}] = f[T \ {Only(T)}]
        OBVIOUS
      <4>1. PICK V : V = T \ {Only(T)}
        OBVIOUS
      <4>2. V \in Small(n) /\ V \in Small(n - 1)
        BY <3>5, <4>1
      <4>3. g[V] = Step(f, V) /\ f[V] = Step(f, V)
        BY <3>3, <3>4, <4>2, Zenon
      <4> QED BY <4>1, <4>3
    <3>8. \A T \in Small(n) : Step(f, T) = Step(g, T)
      BY <3>7
    <3> HIDE DEF Step
    <3>9. g = [T \in Small(n) |-> Step(g, T)]
      BY <3>4, <3>8
    <3> QED BY <2>2, <3>9 DEF Sized
  <2> QED BY <2>3, <2>4
<1>4. Small(N) = SUBSET S
  BY <1>1, <1>2
<1>5. \E g : g = [T \in SUBSET S |-> Step(g, T)]
  <2> HIDE DEF Sized
  <2>0. N \in 0..N
    BY <1>2
  <2>1. Sized(N)
    BY <1>3, <2>0
  <2> USE DEF Sized
  <2> HIDE DEF Small, Step
  <2> QED BY <2>1, <1>4
<1>6. PICK f : f = CHOOSE g : g = [T \in SUBSET S |-> Step(g, T)]
  OBVIOUS
<1>7. f = [T \in SUBSET S |-> Step(f, T)]
  <2> HIDE DEF Step
  <2> QED BY <1>5, <1>6
<1>8. SumAt(numbers, S) = f[S]
  BY <1>6 DEF SumAt
<1>9. \A T \in SUBSET S : f[T] = Step(f, T)
  BY <1>7, Zenon
<1> QED BY <1>8, <1>9

\* A sum of numbers none of which is more is not more; and less, if one is less.
LEMMA SumsCompare ==
  ASSUME NEW S, IsFiniteSet(S), NEW h, NEW g, \A f \in S : h[f] \in Int /\ g[f] \in Int /\ h[f] <= g[f]
  PROVE  /\ SumAt(h, S) \in Int /\ SumAt(g, S) \in Int /\ SumAt(h, S) <= SumAt(g, S)
         /\ \A f \in S : h[f] < g[f] => SumAt(h, S) < SumAt(g, S)
<1>1. PICK a : /\ a[{}] = 0
               /\ \A T \in SUBSET S : T # {} => a[T] = h[Only(T)] + a[T \ {Only(T)}]
               /\ SumAt(h, S) = a[S]
  BY SumsAre
<1>2. PICK b : /\ b[{}] = 0
               /\ \A T \in SUBSET S : T # {} => b[T] = g[Only(T)] + b[T \ {Only(T)}]
               /\ SumAt(g, S) = b[S]
  BY SumsAre
<1> DEFINE Good(T) == /\ a[T] \in Int /\ b[T] \in Int /\ a[T] <= b[T]
                      /\ \A f \in T : h[f] < g[f] => a[T] < b[T]
           Q == {T \in SUBSET S : Good(T)}
<1>3. {} \in Q
  BY <1>1, <1>2
<1>4. ASSUME NEW T \in SUBSET S, T # {}, T \ {Only(T)} \in Q PROVE T \in Q
  <2>1. PICK V, x : x = Only(T) /\ V = T \ {x}
    OBVIOUS
  <2>2. Good(V) /\ x \in S /\ x \in T /\ T = V \cup {x}
    BY <1>4, <2>1, OneIsIn
  <2>3. a[T] = h[x] + a[V] /\ b[T] = g[x] + b[V]
    BY <1>1, <1>2, <1>4, <2>1
  <2>4. h[x] \in Int /\ g[x] \in Int /\ h[x] <= g[x] /\ a[V] \in Int /\ b[V] \in Int /\ a[V] <= b[V]
    BY <2>2
  <2>5. a[T] \in Int /\ b[T] \in Int /\ a[T] <= b[T]
    BY <2>3, <2>4
  <2>6. a[V] < b[V] \/ h[x] < g[x] => a[T] < b[T]
    BY <2>3, <2>4
  <2>7. \A f \in T : h[f] < g[f] => a[T] < b[T]
    BY <2>2, <2>6
  <2> QED BY <2>5, <2>7
<1> HIDE DEF Q
<1>5. SUBSET S \subseteq Q
  <2>1. Q \in SUBSET (SUBSET S)
    BY DEF Q
  <2> QED BY <1>3, <1>4, <2>1, OneByOne
<1>6. Good(S)
  BY <1>5 DEF Q
<1> QED BY <1>1, <1>2, <1>6

\* Each number of the set is a multiple of k.
AllMultiples(h, S, k) == \A f \in S : \E c \in Int : h[f] = k * c
\* A sum of multiples is a multiple.
LEMMA SumDivides ==
  ASSUME NEW S, IsFiniteSet(S), NEW h, NEW k \in Int, AllMultiples(h, S, k)
  PROVE  \E c \in Int : SumAt(h, S) = k * c
<1>1. PICK a : /\ a[{}] = 0
               /\ \A T \in SUBSET S : T # {} => a[T] = h[Only(T)] + a[T \ {Only(T)}]
               /\ SumAt(h, S) = a[S]
  BY SumsAre
<1> DEFINE Q == {T \in SUBSET S : \E c \in Int : a[T] = k * c}
<1>2. {} \in Q
  <2>1. k * 0 = 0
    OBVIOUS
  <2> QED BY <1>1, <2>1
<1>3. ASSUME NEW T \in SUBSET S, T # {}, T \ {Only(T)} \in Q PROVE T \in Q
  <2>1. PICK V, x : x = Only(T) /\ V = T \ {x}
    OBVIOUS
  <2>2. PICK c \in Int : a[V] = k * c
    BY <1>3, <2>1
  <2>3. x \in S
    BY <1>3, <2>1, OneIsIn
  <2>4. PICK d \in Int : h[x] = k * d
    BY <2>3 DEF AllMultiples
  <2>5. a[T] = h[x] + a[V]
    BY <1>1, <1>3, <2>1
  <2>6. k * d + k * c = k * (d + c) /\ d + c \in Int
    OBVIOUS
  <2> QED BY <2>2, <2>4, <2>5, <2>6
<1> HIDE DEF Q
<1>4. SUBSET S \subseteq Q
  <2>1. Q \in SUBSET (SUBSET S)
    BY DEF Q
  <2> QED BY <1>2, <1>3, <2>1, OneByOne
<1> QED BY <1>1, <1>4 DEF Q

\* What divides is divided exactly.
LEMMA DivExact ==
  ASSUME NEW k \in Nat \ {0}, NEW c \in Int
  PROVE  (k * c) \div k = c
BY Z3
================================================================================
