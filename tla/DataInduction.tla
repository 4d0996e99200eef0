---------------------------- MODULE DataInduction ----------------------------
(***************************************************************************)
(* Induction over data, for the proofs about the functions that the code   *)
(* computes in loops: patterns, texts, digits.  The induction theorems of  *)
(* the library take the formula to be proved as an operator; these take    *)
(* the set of the numbers for which it holds, and rest on the library's    *)
(* theorem that finite sets are well founded.                              *)
(***************************************************************************)
EXTENDS Integers, SequencesExt, WellFoundedInduction, FiniteSetTheorems, TLAPS

\* Every set of natural numbers has a least element: of the intervals 1 .. n
\* that end in one of them, one includes no other.
THEOREM LeastElement ==
    ASSUME NEW S \in SUBSET Nat, S # {}
    PROVE  \E n \in S : \A m \in S : n <= m
<1> DEFINE Intervals == {1 .. n : n \in S}
<1>1. Intervals \subseteq FiniteSubsetsOf(Nat) /\ Intervals # {}
  <2>1. \A n \in Nat : IsFiniteSet(1 .. n) /\ 1 .. n \in SUBSET Nat
    BY FS_Interval
  <2> QED
    BY <2>1 DEF FiniteSubsetsOf
<1>2. PICK x \in Intervals : \A y \in Intervals : ~ (<<y, x>> \in StrictSubsetOrdering(Nat))
  BY <1>1, FS_StrictSubsetOrderingWellFounded, WFMin
<1>3. PICK n \in S : x = 1 .. n
  BY <1>2
<1>4. \A m \in S : m < n => <<1 .. m, 1 .. n>> \in StrictSubsetOrdering(Nat)
  <2> SUFFICES ASSUME NEW m \in S, m < n
               PROVE  <<1 .. m, 1 .. n>> \in StrictSubsetOrdering(Nat)
    OBVIOUS
  <2>1. n \in 1 .. n /\ n \notin 1 .. m
    OBVIOUS
  <2>2. 1 .. m \subseteq 1 .. n /\ 1 .. m # 1 .. n
    BY <2>1
  <2>3. 1 .. m \in SUBSET Nat /\ 1 .. n \in SUBSET Nat
    OBVIOUS
  <2> QED
    BY <2>2, <2>3 DEF StrictSubsetOrdering
<1>5. \A m \in S : ~(m < n)
  BY <1>2, <1>3, <1>4
<1>6. \A m \in S : n <= m
  BY <1>5
<1> QED
  BY <1>6

\* Induction: a set that has 0, and the successor of each number it has.
THEOREM SetInduction ==
    ASSUME NEW S, 0 \in S, \A n \in Nat : n \in S => n + 1 \in S
    PROVE  Nat \subseteq S
<1> SUFFICES ASSUME Nat \ S # {} PROVE FALSE
  OBVIOUS
<1>1. PICK n \in Nat \ S : \A m \in Nat \ S : n <= m
  BY LeastElement
<1>2. n # 0 /\ n - 1 \in Nat
  BY <1>1
<1>3. n - 1 \in S
  BY <1>1, <1>2
<1> QED
  BY <1>1, <1>2, <1>3

\* The same up to a bound, and down from it.
THEOREM UpTo ==
    ASSUME NEW N \in Nat, NEW S, 0 \in S, \A n \in 0 .. N - 1 : n \in S => n + 1 \in S
    PROVE  0 .. N \subseteq S
<1> DEFINE T == {n \in Nat : n <= N => n \in S}
<1> HIDE DEF T
<1>1. 0 \in T
  BY DEF T
<1>2. \A n \in Nat : n \in T => n + 1 \in T
  BY DEF T
<1>3. Nat \subseteq T
  BY <1>1, <1>2, SetInduction
<1> QED
  BY <1>3 DEF T

\* Induction downwards: a set with N that goes from each n to n - 1 has 0 ..
\* N.
THEOREM DownFrom ==
    ASSUME NEW N \in Nat, NEW S, N \in S, \A n \in 1 .. N : n \in S => n - 1 \in S
    PROVE  0 .. N \subseteq S
<1> DEFINE T == {n \in Nat : N - n \in S}
<1> HIDE DEF T
<1>1. 0 \in T
  BY DEF T
<1>2. \A n \in 0 .. N - 1 : n \in T => n + 1 \in T
  <2> SUFFICES ASSUME NEW n \in 0 .. N - 1, n \in T PROVE n + 1 \in T
    OBVIOUS
  <2>1. N - n \in 1 .. N /\ N - n \in S /\ (N - n) - 1 = N - (n + 1)
    BY DEF T
  <2> QED
    BY <2>1 DEF T
<1>3. 0 .. N \subseteq T
  BY <1>1, <1>2, UpTo
<1> SUFFICES ASSUME NEW n \in 0 .. N PROVE n \in S
  OBVIOUS
<1>4. N - n \in 0 .. N /\ N - (N - n) = n
  OBVIOUS
<1> QED
  BY <1>3, <1>4 DEF T

----------------------------------------------------------------------------
\* A fold takes the greatest index off a set of indices until none is left.
\* There is such a function for every step, so that the CHOOSE of its recursive
\* definition finds one.

Largest(n, T) == n \in T /\ \A m \in T : m <= n

Folded(f, N, base, step) ==
    \A T \in SUBSET (1 .. N) :
        f[T] = IF T = {} THEN base ELSE step[<<f[T \ {Max(T)}], Max(T)>>]

\* The CHOOSE of Max finds the largest element, if there is one.
LEMMA MaxIsLargest ==
    ASSUME NEW T \in SUBSET Int, NEW n, Largest(n, T)
    PROVE  Max(T) = n
<1>1. \E x \in T : \A y \in T : x >= y
  BY DEF Largest
<1>2. Max(T) \in T /\ \A y \in T : Max(T) >= y
  BY <1>1 DEF Max
<1>3. Max(T) >= n /\ n >= Max(T) /\ n \in Int /\ Max(T) \in Int
  BY <1>2 DEF Largest
<1> QED
  BY <1>3

\* A set of numbers that is not empty and has a bound has a greatest one.
LEMMA MaxInside ==
    ASSUME NEW N \in Nat, NEW T \in SUBSET (1 .. N), T # {}
    PROVE  Largest(Max(T), T) /\ Max(T) \in T
<1> DEFINE Bounds == {n \in Nat : \A m \in T : m <= n}
<1>1. N \in Bounds
  OBVIOUS
<1>2. PICK n \in Bounds : \A b \in Bounds : n <= b
  BY <1>1, LeastElement
<1>3. n \in T
  <2> SUFFICES ASSUME n \notin T PROVE FALSE
    OBVIOUS
  <2>1. PICK m : m \in T
    OBVIOUS
  <2>2. n - 1 \in Nat
    BY <1>2, <2>1
  <2>3. \A k \in T : k <= n - 1
    BY <1>2
  <2> QED
    BY <1>2, <2>2, <2>3
<1>4. Largest(n, T)
  BY <1>2, <1>3 DEF Largest
<1>5. Max(T) = n
  BY <1>4, MaxIsLargest
<1> QED
  BY <1>3, <1>4, <1>5

\* For every step there is a function that folds it over the sets of numbers
\* up to N, the largest number last: what MapThenFoldSet chooses.
THEOREM FoldExists ==
    ASSUME NEW N \in Nat, NEW Values, NEW base \in Values,
           NEW step \in [Values \X (1 .. N) -> Values]
    PROVE  \E f \in [SUBSET (1 .. N) -> Values] : Folded(f, N, base, step)
<1> DEFINE Folds(k) ==
             {f \in [SUBSET (1 .. k) -> Values] : \A T \in SUBSET (1 .. k) :
                 f[T] = IF T = {} THEN base ELSE step[<<f[T \ {Max(T)}], Max(T)>>]}
           S == {k \in 0 .. N : Folds(k) # {}}
<1>0. ASSUME NEW k \in 0 .. N, k = 0
      PROVE  k \in S
  <2> DEFINE g == [T \in SUBSET (1 .. k) |-> base]
  <2>1. \A T \in SUBSET (1 .. k) : T = {} /\ g[T] = base
    BY <1>0
  <2>2. g \in [SUBSET (1 .. k) -> Values]
    OBVIOUS
  <2> HIDE DEF g
  <2>3. g \in Folds(k)
    BY <2>1, <2>2
  <2> HIDE DEF Folds
  <2> QED
    BY <2>3
<1>1. 0 \in S
  <2> HIDE DEF S
  <2> QED
    BY <1>0
<1>2. ASSUME NEW k \in 0 .. N - 1, k \in S
      PROVE  k + 1 \in S
  <2>1. PICK g : g \in Folds(k)
    BY <1>2
  <2> DEFINE h == [T \in SUBSET (1 .. k + 1) |->
                     IF k + 1 \in T THEN step[<<g[T \ {k + 1}], k + 1>>] ELSE g[T]]
  <2>2. \A T \in SUBSET (1 .. k + 1) : T \ {k + 1} \in SUBSET (1 .. k)
    OBVIOUS
  <2>3. k + 1 \in 1 .. N
    OBVIOUS
  <2>4. g \in [SUBSET (1 .. k) -> Values]
    BY <2>1
  <2>5. \A T \in SUBSET (1 .. k + 1) :
           /\ h[T] = IF k + 1 \in T THEN step[<<g[T \ {k + 1}], k + 1>>] ELSE g[T]
           /\ k + 1 \notin T => T \in SUBSET (1 .. k)
    BY <2>2
  <2>6. h \in [SUBSET (1 .. k + 1) -> Values]
    <3> SUFFICES ASSUME NEW T \in SUBSET (1 .. k + 1)
                 PROVE  (IF k + 1 \in T THEN step[<<g[T \ {k + 1}], k + 1>>] ELSE g[T]) \in Values
      OBVIOUS
    <3>1. CASE k + 1 \in T
      <4>1. g[T \ {k + 1}] \in Values
        BY <2>2, <2>4
      <4>2. <<g[T \ {k + 1}], k + 1>> \in Values \X (1 .. N)
        BY <4>1, <2>3
      <4> QED
        BY <4>2, <3>1
    <3>2. CASE k + 1 \notin T
      BY <3>2, <2>4, <2>5
    <3> QED
      BY <3>1, <3>2
  <2> HIDE DEF h
  <2>7. ASSUME NEW T \in SUBSET (1 .. k + 1)
        PROVE  h[T] = IF T = {} THEN base ELSE step[<<h[T \ {Max(T)}], Max(T)>>]
    <3>1. CASE k + 1 \in T
      <4>1. Max(T) = k + 1
        <5>1. Largest(k + 1, T)
          BY <3>1 DEF Largest
        <5> QED
          BY <5>1, MaxIsLargest
      <4>2. h[T \ {k + 1}] = g[T \ {k + 1}]
        BY <2>5
      <4> QED
        BY <4>1, <4>2, <2>5, <3>1
    <3>2. CASE k + 1 \notin T
      <4>1. T \in SUBSET (1 .. k) /\ h[T] = g[T]
        BY <2>5, <3>2
      <4>2. h[T \ {Max(T)}] = g[T \ {Max(T)}]
        BY <2>5, <3>2
      <4>3. g[T] = IF T = {} THEN base ELSE step[<<g[T \ {Max(T)}], Max(T)>>]
        BY <2>1, <4>1
      <4> QED
        BY <4>1, <4>2, <4>3
    <3> QED
      BY <3>1, <3>2
  <2>8. h \in Folds(k + 1)
    BY <2>6, <2>7
  <2>9. k + 1 \in 0 .. N
    OBVIOUS
  <2> HIDE DEF Folds
  <2> QED
    BY <2>8, <2>9
<1>3. 0 .. N \subseteq S
  <2> HIDE DEF S
  <2> QED
    BY <1>1, <1>2, UpTo
<1>4. Folds(N) # {}
  <2> HIDE DEF Folds
  <2>1. N \in 0 .. N
    OBVIOUS
  <2> QED
    BY <1>3, <2>1
<1>5. PICK f : f \in Folds(N)
  BY <1>4
<1> QED
  BY <1>5 DEF Folded

\* A finite set of numbers has a bound.
THEOREM FiniteIsBounded ==
    ASSUME NEW S \in SUBSET Nat, IsFiniteSet(S)
    PROVE  \E n \in Nat : \A m \in S : m <= n
<1>1. PICK k \in Nat : ExistsSurjection(1 .. k, S)
  BY FS_NatSurjection
<1>2. PICK f \in Surjection(1 .. k, S) : TRUE
  BY <1>1 DEF ExistsSurjection
<1>3. f \in [1 .. k -> S] /\ \A m \in S : \E i \in 1 .. k : f[i] = m
  BY <1>2 DEF Surjection
<1> DEFINE Under(j, n) == \A i \in 1 .. j : f[i] <= n
           B == {j \in 0 .. k : \E n \in Nat : Under(j, n)}
<1>4. 0 \in B
  <2>1. Under(0, 0)
    OBVIOUS
  <2> HIDE DEF Under
  <2> QED
    BY <2>1
<1>5. ASSUME NEW j \in 0 .. k - 1, j \in B
      PROVE  j + 1 \in B
  <2>1. PICK n \in Nat : Under(j, n)
    <3> HIDE DEF Under
    <3> QED
      BY <1>5
  <2>2. j + 1 \in 1 .. k /\ j + 1 \in 0 .. k
    OBVIOUS
  <2>3. f[j + 1] \in Nat /\ \A i \in 1 .. j : f[i] \in Nat
    <3>1. \A i \in 1 .. j : i \in 1 .. k
      OBVIOUS
    <3> QED
      BY <1>3, <2>2, <3>1
  <2>4. Under(j + 1, n + f[j + 1])
    <3> SUFFICES ASSUME NEW i \in 1 .. j + 1 PROVE f[i] <= n + f[j + 1]
      OBVIOUS
    <3>1. CASE i = j + 1
      BY <2>3, <3>1
    <3>2. CASE i \in 1 .. j
      BY <2>1, <2>3, <3>2
    <3> QED
      BY <3>1, <3>2
  <2>5. n + f[j + 1] \in Nat
    BY <2>3
  <2> HIDE DEF Under
  <2> QED
    BY <2>2, <2>4, <2>5
<1>6. k \in B
  <2>1. 0 .. k \subseteq B
    <3> HIDE DEF B
    <3> QED
      BY <1>4, <1>5, UpTo
  <2>2. k \in 0 .. k
    OBVIOUS
  <2> HIDE DEF B
  <2> QED
    BY <2>1, <2>2
<1>7. PICK n \in Nat : Under(k, n)
  <2> HIDE DEF Under
  <2> QED
    BY <1>6
<1>8. \A m \in S : m <= n
  BY <1>3, <1>7
<1> QED
  BY <1>8
==============================================================================
