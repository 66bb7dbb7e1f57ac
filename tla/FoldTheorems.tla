------------------------------- MODULE FoldTheorems -------------------------------
(***************************************************************************)
(* Induction without operator parameters, and what the folds of the        *)
(* community modules compute.  A property is given as the set of numbers   *)
(* that have it and a fold's step as a function, so that every theorem     *)
(* here is first-order and can be cited for the folds of the models.       *)
(***************************************************************************)
EXTENDS Integers, FiniteSets, SequencesExt, FiniteSetTheorems, WellFoundedInduction, TLAPS

(* x contains no other set of T *)
Least(x, T) == x \in T /\ \A y \in T : ~(y \subseteq x /\ y # x)

(* A set of subsets of a finite set has one that contains no other *)
THEOREM LeastSubset ==
  ASSUME NEW S, NEW T \in SUBSET (SUBSET S), IsFiniteSet(S), T # {}
  PROVE  \E x : Least(x, T)
<1>1. PICK x \in T : \A y \in T : <<y, x>> \notin StrictSubsetOrdering(S)
  BY FS_StrictSubsetOrderingWellFounded, FS_FiniteSubsetsOfFinite, WFMin
<1>2. Least(x, T) BY <1>1 DEF StrictSubsetOrdering, Least
<1>3. QED BY <1>2

(* A set that has 0 and the successor of each number it has, has all of them *)
THEOREM InductionOver ==
  ASSUME NEW P, 0 \in P, \A k \in Nat : k \in P => k + 1 \in P
  PROVE  Nat \subseteq P
<1> SUFFICES ASSUME NEW m \in Nat, m \notin P PROVE FALSE
  OBVIOUS
<1> DEFINE D == {0 .. k : k \in {n \in 0 .. m : n \notin P}}
<1>1. IsFiniteSet(0 .. m)
  BY FS_Interval
<1>2. D \in SUBSET (SUBSET (0 .. m)) /\ D # {}
  OBVIOUS
<1>3. \E d : Least(d, D)
  <2> HIDE DEF D
  <2>1. QED BY <1>1, <1>2, LeastSubset
<1>4. PICK n \in 0 .. m : n \notin P /\ \A y \in D : ~(y \subseteq 0 .. n /\ y # 0 .. n)
  BY <1>3 DEF Least
<1>5. n # 0 /\ n - 1 \in 0 .. m /\ n - 1 \notin P
  BY <1>4
<1>6. 0 .. n - 1 \in D
  BY <1>5
<1>7. 0 .. n - 1 \subseteq 0 .. n /\ n \in 0 .. n /\ n \notin 0 .. n - 1
  BY <1>5
<1>8. QED BY <1>4, <1>6, <1>7

(* The same up to a number: what each step below n keeps holds at n *)
THEOREM InductionUpTo ==
  ASSUME NEW n \in Nat, NEW P, 0 \in P, \A k \in Nat : k < n /\ k \in P => k + 1 \in P
  PROVE  n \in P
<1> DEFINE Q == {k \in Nat : k <= n => k \in P}
<1>1. 0 \in Q /\ \A k \in Nat : k \in Q => k + 1 \in Q
  OBVIOUS
<1>2. Nat \subseteq Q
  <2> HIDE DEF Q
  <2>1. QED BY <1>1, InductionOver
<1>3. QED BY <1>2

(* A set of numbers has a smallest one *)
THEOREM Smallest ==
  ASSUME NEW S \in SUBSET Nat, S # {}
  PROVE  \E n \in S : \A m \in S : n <= m
<1> SUFFICES ASSUME \A n \in S : \E m \in S : ~(n <= m) PROVE FALSE
  OBVIOUS
<1> DEFINE P == {k \in Nat : \A j \in S : k < j}
<1>1. 0 \in P
  <2>1. ASSUME NEW j \in S, ~(0 < j) PROVE FALSE
    <3>1. j = 0
      BY <2>1
    <3>2. \A m \in S : j <= m
      BY <3>1
    <3>3. QED BY <3>2
  <2>2. QED BY <2>1
<1>2. ASSUME NEW k \in Nat, k \in P PROVE k + 1 \in P
  <2>1. ASSUME NEW j \in S, ~(k + 1 < j) PROVE FALSE
    <3>1. j = k + 1 /\ j \in Nat
      <4>1. k < j /\ j \in Nat
        BY <1>2
      <4>2. QED BY <2>1, <4>1
    <3>2. PICK m \in S : ~(j <= m)
      OBVIOUS
    <3>3. k < m /\ m \in Nat
      BY <1>2
    <3>4. QED BY <3>1, <3>2, <3>3
  <2>2. QED BY <2>1
<1>3. Nat \subseteq P
  <2> HIDE DEF P
  <2>1. QED BY <1>1, <1>2, InductionOver
<1>4. \A j \in S : ~(j < j)
  OBVIOUS
<1>5. \A j \in S : j \in P
  BY <1>3
<1>6. QED BY <1>4, <1>5

-------------------------------------------------------------------------------
(* The recursive function behind MapThenFoldSet is well defined: C chooses an  *)
(* element of each set, G[x, a] is what the fold makes of it and of a.         *)
Folds(g, S, b, C, G) ==
  g = [s \in SUBSET S |-> IF s = {} THEN b ELSE G[<<C[s], g[s \ {C[s]}]>>]]

THEOREM FoldExists ==
  ASSUME NEW S, IsFiniteSet(S), NEW A, NEW b \in A,
         NEW C, \A s \in SUBSET S : s # {} => C[s] \in s,
         NEW G \in [S \X A -> A]
  PROVE  \E g \in [SUBSET S -> A] : Folds(g, S, b, C, G)
<1> DEFINE Upto(k) == {s \in SUBSET S : Cardinality(s) <= k}
           Good(g, k) == \A s \in Upto(k) :
                           g[s] = IF s = {} THEN b ELSE G[<<C[s], g[s \ {C[s]}]>>]
           P == {k \in Nat : \E g \in [Upto(k) -> A] : Good(g, k)}
<1>1. ASSUME NEW s \in SUBSET S
      PROVE  /\ Cardinality(s) \in Nat /\ (Cardinality(s) = 0 <=> s = {})
             /\ s # {} => /\ C[s] \in S /\ s \ {C[s]} \in SUBSET S
                          /\ Cardinality(s \ {C[s]}) = Cardinality(s) - 1
  <2>1. IsFiniteSet(s)
    BY FS_Subset
  <2>2. QED BY <2>1, FS_CardinalityType, FS_EmptySet, FS_RemoveElement
<1>2. 0 \in P
  <2>1. Upto(0) = {{}}
    <3>1. ASSUME NEW s \in Upto(0) PROVE s = {}
      <4>1. s \in SUBSET S /\ Cardinality(s) <= 0
        BY <3>1
      <4>2. Cardinality(s) \in Nat /\ (Cardinality(s) = 0 => s = {})
        BY <1>1, <4>1
      <4>3. Cardinality(s) = 0
        BY <4>1, <4>2
      <4>4. QED BY <4>2, <4>3
    <3>2. {} \in Upto(0)
      <4>1. Cardinality({}) = 0
        BY <1>1
      <4>2. QED BY <4>1
    <3> HIDE DEF Upto
    <3>3. QED BY <3>1, <3>2
  <2>2. [s \in {{}} |-> b] \in [{{}} -> A]
    OBVIOUS
  <2>3. [s \in {{}} |-> b] \in [Upto(0) -> A] /\ Good([s \in {{}} |-> b], 0)
    <3> HIDE DEF Upto
    <3> QED BY <2>1, <2>2
  <2>4. QED BY <2>3
<1>3. ASSUME NEW k \in Nat, k \in P PROVE k + 1 \in P
  <2>1. PICK g \in [Upto(k) -> A] : Good(g, k)
    BY <1>3
  <2> DEFINE Step(s) == IF s = {} THEN b ELSE G[<<C[s], g[s \ {C[s]}]>>]
             h == [s \in Upto(k + 1) |-> Step(s)]
  <2>2. ASSUME NEW s \in Upto(k + 1), s # {} PROVE s \ {C[s]} \in Upto(k) /\ C[s] \in S
    BY <1>1, <2>2
  <2>3. ASSUME NEW s \in Upto(k + 1) PROVE Step(s) \in A
    BY <2>2, <2>3
  <2>4. h \in [Upto(k + 1) -> A]
    <3> HIDE DEF Step
    <3> QED BY <2>3
  <2>5. ASSUME NEW s \in Upto(k) PROVE h[s] = g[s] /\ s \in Upto(k + 1)
    <3>1. s \in Upto(k + 1)
      <4>1. s \in SUBSET S /\ Cardinality(s) <= k
        BY <2>5
      <4>2. Cardinality(s) \in Nat
        BY <1>1, <4>1
      <4>3. Cardinality(s) <= k + 1
        BY <4>1, <4>2
      <4>4. QED BY <4>1, <4>3
    <3>2. g[s] = Step(s)
      BY <2>1, <2>5
    <3>3. QED BY <3>1, <3>2
  <2>6. ASSUME NEW s \in Upto(k + 1)
        PROVE  h[s] = IF s = {} THEN b ELSE G[<<C[s], h[s \ {C[s]}]>>]
    <3>1. s # {} => h[s \ {C[s]}] = g[s \ {C[s]}]
      BY <2>2, <2>5
    <3>2. h[s] = Step(s)
      OBVIOUS
    <3>3. QED BY <3>1, <3>2
  <2>7. Good(h, k + 1)
    <3> HIDE DEF h, Upto
    <3> QED BY <2>6
  <2>8. \E f \in [Upto(k + 1) -> A] : Good(f, k + 1)
    <3> HIDE DEF h, Upto, Good
    <3> QED BY <2>4, <2>7
  <2>9. k + 1 \in Nat
    OBVIOUS
  <2> HIDE DEF Upto, Good
  <2>10. QED BY <2>8, <2>9
<1>4. Cardinality(S) \in P
  <2>1. Nat \subseteq P
    <3> HIDE DEF P
    <3> QED BY <1>2, <1>3, InductionOver
  <2>2. QED BY <1>1, <2>1
<1>5. Upto(Cardinality(S)) = SUBSET S
  <2>1. ASSUME NEW s \in SUBSET S PROVE Cardinality(s) <= Cardinality(S)
    BY <2>1, FS_Subset
  <2>2. \A s \in SUBSET S : s \in Upto(Cardinality(S))
    BY <2>1
  <2>3. QED BY <2>2
<1>6. PICK g \in [SUBSET S -> A] : Good(g, Cardinality(S))
  BY <1>4, <1>5
<1>7. Folds(g, S, b, C, G)
  BY <1>5, <1>6 DEF Folds
<1>8. QED BY <1>7

(* What holds of {} and of every set that holds for it less one element, the *)
(* element C takes from the set, holds of every subset of a finite set.      *)
Takes(C, S) == \A s \in SUBSET S : s # {} => C[s] \in s

THEOREM SubsetInduction ==
  ASSUME NEW S, IsFiniteSet(S), NEW P, {} \in P, NEW C, Takes(C, S),
         \A s \in SUBSET S : s # {} /\ s \ {C[s]} \in P => s \in P
  PROVE  SUBSET S \subseteq P
<1> SUFFICES ASSUME NEW r \in SUBSET S, r \notin P PROVE FALSE
  OBVIOUS
<1> DEFINE D == {s \in SUBSET S : s \notin P}
<1>1. D \in SUBSET (SUBSET S) /\ D # {}
  OBVIOUS
<1>2. PICK d : Least(d, D)
  <2> HIDE DEF D
  <2>1. QED BY <1>1, LeastSubset
<1>3. d \in SUBSET S /\ d \notin P /\ d # {}
  BY <1>2 DEF Least
<1>4. d \ {C[d]} \in SUBSET S /\ d \ {C[d]} \notin P
  BY <1>3
<1>5. d \ {C[d]} \in D
  BY <1>4
<1>6. d \ {C[d]} \subseteq d /\ C[d] \in d
  BY <1>3 DEF Takes
<1>7. d \ {C[d]} # d
  BY <1>6
<1>8. QED BY <1>2, <1>5, <1>6, <1>7 DEF Least

-------------------------------------------------------------------------------
(* The sums MapThenSumSet takes *)

Chosen(s) == CHOOSE x \in s : TRUE

Sums(g, S, w) ==
  g = [s \in SUBSET S |-> IF s = {} THEN 0 ELSE w[Chosen(s)] + g[s \ {Chosen(s)}]]

LEMMA ChosenIn == \A s : s # {} => Chosen(s) \in s
BY DEF Chosen

THEOREM SumExists ==
  ASSUME NEW S, IsFiniteSet(S), NEW w \in [S -> Nat]
  PROVE  \E g : Sums(g, S, w)
<1> DEFINE C == [s \in SUBSET S |-> Chosen(s)]
           G == [p \in S \X Nat |-> w[p[1]] + p[2]]
<1>1. \A s \in SUBSET S : s # {} => C[s] \in s /\ C[s] = Chosen(s)
  BY ChosenIn
<1>2. G \in [S \X Nat -> Nat] /\ \A x \in S, a \in Nat : G[<<x, a>>] = w[x] + a
  OBVIOUS
<1>3. PICK g \in [SUBSET S -> Nat] : Folds(g, S, 0, C, G)
  <2> HIDE DEF C, G
  <2>1. QED BY <1>1, <1>2, FoldExists
<1>4. ASSUME NEW s \in SUBSET S
      PROVE  g[s] = IF s = {} THEN 0 ELSE w[Chosen(s)] + g[s \ {Chosen(s)}]
  <2>1. g[s] = IF s = {} THEN 0 ELSE G[<<C[s], g[s \ {C[s]}]>>]
    BY <1>3 DEF Folds
  <2>2. s # {} => C[s] \in S /\ g[s \ {C[s]}] \in Nat
    BY <1>1
  <2> HIDE DEF C, G
  <2>3. QED BY <1>1, <1>2, <2>1, <2>2
<1>5. Sums(g, S, w)
  BY <1>3, <1>4 DEF Sums
<1>6. QED BY <1>5

THEOREM SumType ==
  ASSUME NEW S, IsFiniteSet(S), NEW w \in [S -> Nat], NEW g, Sums(g, S, w)
  PROVE  \A s \in SUBSET S : g[s] \in Nat
<1> DEFINE P == {s \in SUBSET S : g[s] \in Nat}
           C == [s \in SUBSET S |-> Chosen(s)]
<1>1. \A s \in SUBSET S : s # {} => C[s] \in s /\ C[s] = Chosen(s)
  BY ChosenIn
<1>2. \A s \in SUBSET S : g[s] = IF s = {} THEN 0 ELSE w[Chosen(s)] + g[s \ {Chosen(s)}]
  BY DEF Sums
<1>3. {} \in P
  BY <1>2
<1>4. ASSUME NEW s \in SUBSET S, s # {}, s \ {C[s]} \in P PROVE s \in P
  <2>1. Chosen(s) \in S /\ g[s \ {Chosen(s)}] \in Nat
    BY <1>1, <1>4
  <2>2. g[s] = w[Chosen(s)] + g[s \ {Chosen(s)}]
    BY <1>2, <1>4
  <2>3. QED BY <2>1, <2>2
<1>5. SUBSET S \subseteq P
  <2>1. Takes(C, S)
    BY <1>1 DEF Takes
  <2> HIDE DEF P, C
  <2>2. QED BY <1>3, <1>4, <2>1, SubsetInduction
<1>6. QED BY <1>5

THEOREM SumZero ==
  ASSUME NEW S, IsFiniteSet(S), NEW g, Sums(g, S, [x \in S |-> 0])
  PROVE  g[S] = 0
<1> DEFINE P == {s \in SUBSET S : g[s] = 0}
           C == [s \in SUBSET S |-> Chosen(s)]
<1>1. \A s \in SUBSET S : s # {} => C[s] \in s /\ C[s] = Chosen(s)
  BY ChosenIn
<1>2. \A s \in SUBSET S : g[s] = IF s = {} THEN 0
                                 ELSE [x \in S |-> 0][Chosen(s)] + g[s \ {Chosen(s)}]
  BY DEF Sums
<1>3. {} \in P
  BY <1>2
<1>4. ASSUME NEW s \in SUBSET S, s # {}, s \ {C[s]} \in P PROVE s \in P
  <2>1. Chosen(s) \in S /\ g[s \ {Chosen(s)}] = 0
    BY <1>1, <1>4
  <2>2. g[s] = [x \in S |-> 0][Chosen(s)] + g[s \ {Chosen(s)}]
    BY <1>2, <1>4
  <2>3. QED BY <2>1, <2>2
<1>5. SUBSET S \subseteq P
  <2>1. Takes(C, S)
    BY <1>1 DEF Takes
  <2> HIDE DEF P, C
  <2>2. QED BY <1>3, <1>4, <2>1, SubsetInduction
<1>6. QED BY <1>5

(* One weight changed: the sum grows by no more than the new weight *)
THEOREM SumGrows ==
  ASSUME NEW S, IsFiniteSet(S), NEW w \in [S -> Nat], NEW v \in [S -> Nat],
         NEW g, Sums(g, S, w), NEW h, Sums(h, S, v),
         NEW a \in S, \A x \in S : x # a => v[x] = w[x]
  PROVE  h[S] <= g[S] + v[a]
<1> DEFINE P == {s \in SUBSET S : h[s] <= g[s] + (IF a \in s THEN v[a] ELSE 0)}
           C == [s \in SUBSET S |-> Chosen(s)]
<1>1. \A s \in SUBSET S : s # {} => C[s] \in s /\ C[s] = Chosen(s)
  BY ChosenIn
<1>2. \A s \in SUBSET S :
        /\ g[s] = IF s = {} THEN 0 ELSE w[Chosen(s)] + g[s \ {Chosen(s)}]
        /\ h[s] = IF s = {} THEN 0 ELSE v[Chosen(s)] + h[s \ {Chosen(s)}]
  BY DEF Sums
<1>3. \A s \in SUBSET S : g[s] \in Nat /\ h[s] \in Nat
  BY SumType
<1>4. {} \in P
  BY <1>2
<1>5. ASSUME NEW s \in SUBSET S, s # {}, s \ {C[s]} \in P PROVE s \in P
  <2> DEFINE c == Chosen(s)
             r == s \ {c}
  <2>1. c \in s /\ c \in S /\ r \in SUBSET S /\ h[r] <= g[r] + (IF a \in r THEN v[a] ELSE 0)
    BY <1>1, <1>5
  <2>2. g[s] = w[c] + g[r] /\ h[s] = v[c] + h[r]
    BY <1>2, <1>5
  <2>3. g[r] \in Nat /\ h[r] \in Nat /\ v[c] \in Nat /\ w[c] \in Nat /\ v[a] \in Nat
    BY <1>3, <2>1
  <2>4. c = a => a \in s /\ a \notin r
    BY <2>1
  <2>5. c # a => v[c] = w[c] /\ (a \in s <=> a \in r)
    BY <2>1
  <2>6. h[s] <= g[s] + (IF a \in s THEN v[a] ELSE 0)
    <3> HIDE DEF c, r
    <3>1. CASE c = a BY <2>1, <2>2, <2>3, <2>4, <3>1
    <3>2. CASE c # a /\ a \in r BY <2>1, <2>2, <2>3, <2>5, <3>2
    <3>3. CASE c # a /\ a \notin r BY <2>1, <2>2, <2>3, <2>5, <3>3
    <3>4. QED BY <3>1, <3>2, <3>3
  <2>7. QED BY <2>6
<1>6. SUBSET S \subseteq P
  <2>1. Takes(C, S)
    BY <1>1 DEF Takes
  <2> HIDE DEF P, C
  <2>2. QED BY <1>4, <1>5, <2>1, SubsetInduction
<1>7. QED BY <1>6

-------------------------------------------------------------------------------
(* FoldLeft goes through a sequence of n elements from the last index down: Top *)
(* is the Max it chooses by.                                                 *)

Top(s) == CHOOSE x \in s : \A y \in s : x >= y

LEMMA TopIn ==
  ASSUME NEW n \in Nat, NEW s \in SUBSET (1 .. n), s # {}
  PROVE  Top(s) \in s /\ \A y \in s : Top(s) >= y
<1> DEFINE T == {x .. n : x \in s}
<1>1. IsFiniteSet(1 .. n)
  BY FS_Interval
<1>2. T \in SUBSET (SUBSET (1 .. n)) /\ T # {}
  <2>1. \A x \in s : x .. n \in SUBSET (1 .. n)
    OBVIOUS
  <2>2. QED BY <2>1
<1>3. PICK d : Least(d, T)
  <2> HIDE DEF T
  <2>1. QED BY <1>1, <1>2, LeastSubset
<1>4. PICK x \in s : d = x .. n
  BY <1>3 DEF Least
<1>5. ASSUME NEW y \in s, ~(x >= y) PROVE FALSE
  <2>1. y .. n \in T
    OBVIOUS
  <2>2. x \in 1 .. n /\ y \in 1 .. n /\ x < y
    BY <1>5
  <2>3. y .. n \subseteq x .. n /\ x \in x .. n /\ x \notin y .. n
    BY <2>2
  <2>4. QED BY <1>3, <1>4, <2>1, <2>3 DEF Least
<1>6. \E t \in s : \A y \in s : t >= y
  BY <1>5
<1>7. QED BY <1>6 DEF Top

LEMMA TopOfInterval == ASSUME NEW k \in Nat, k # 0 PROVE Top(1 .. k) = k
<1>1. k \in 1 .. k
  OBVIOUS
<1>2. Top(1 .. k) \in 1 .. k /\ \A y \in 1 .. k : Top(1 .. k) >= y
  BY <1>1, TopIn
<1>3. QED BY <1>1, <1>2

LEMMA IntervalLess ==
  ASSUME NEW n \in Nat, NEW k \in Nat, k < n
  PROVE  1 .. k + 1 \in SUBSET (1 .. n) /\ 1 .. k + 1 # {} /\ (1 .. k + 1) \ {k + 1} = 1 .. k
OBVIOUS

(* G[i, a] is what the fold makes of a and of the i-th element *)
LeftFold(f, n, b, G) ==
  f = [s \in SUBSET (1 .. n) |-> IF s = {} THEN b ELSE G[<<Top(s), f[s \ {Top(s)}]>>]]

THEOREM LeftFoldExists ==
  ASSUME NEW n \in Nat, NEW A, NEW b \in A, NEW G \in [(1 .. n) \X A -> A]
  PROVE  \E f \in [SUBSET (1 .. n) -> A] : LeftFold(f, n, b, G)
<1> DEFINE C == [s \in SUBSET (1 .. n) |-> Top(s)]
<1>1. \A s \in SUBSET (1 .. n) : s # {} => C[s] \in s
  BY TopIn
<1>2. IsFiniteSet(1 .. n)
  BY FS_Interval
<1>3. PICK f \in [SUBSET (1 .. n) -> A] : Folds(f, 1 .. n, b, C, G)
  <2> HIDE DEF C
  <2>1. QED BY <1>1, <1>2, FoldExists
<1>4. LeftFold(f, n, b, G)
  BY <1>3 DEF Folds, LeftFold
<1>5. QED BY <1>4

(* The fold of the first k elements, from the fold of those before the last *)
THEOREM LeftFoldSteps ==
  ASSUME NEW n \in Nat, NEW b, NEW G, NEW f, LeftFold(f, n, b, G)
  PROVE  /\ f[1 .. 0] = b
         /\ \A k \in Nat : k < n => f[1 .. k + 1] = G[<<k + 1, f[1 .. k]>>]
<1>1. 1 .. 0 = {} /\ {} \in SUBSET (1 .. n)
  OBVIOUS
<1>2. f[1 .. 0] = b
  BY <1>1 DEF LeftFold
<1>3. ASSUME NEW k \in Nat, k < n PROVE f[1 .. k + 1] = G[<<k + 1, f[1 .. k]>>]
  <2>1. 1 .. k + 1 \in SUBSET (1 .. n) /\ 1 .. k + 1 # {}
    BY <1>3
  <2>2. Top(1 .. k + 1) = k + 1
    BY TopOfInterval
  <2>3. (1 .. k + 1) \ {k + 1} = 1 .. k
    OBVIOUS
  <2>4. QED BY <2>1, <2>2, <2>3 DEF LeftFold
<1>4. QED BY <1>2, <1>3

-------------------------------------------------------------------------------
(* FlattenSeq concatenates from the first list on *)

LEMMA FlattenUnfolds ==
  ASSUME NEW l, Len(l) # 0
  PROVE  \E f : /\ FlattenSeq(l) = f[Len(l)]
                /\ f = CHOOSE g : g = [i \in 1 .. Len(l) |->
                                         IF i = 1 THEN l[i] ELSE g[i - 1] \o l[i]]
BY DEF FlattenSeq

(* One list of lists over S is a list over S *)
THEOREM FlattenType ==
  ASSUME NEW S, NEW l \in Seq(Seq(S))
  PROVE  FlattenSeq(l) \in Seq(S)
<1> DEFINE n == Len(l)
           A == Seq(S)
           G == [p \in (1 .. n) \X A |-> IF p[1] = 1 THEN l[1] ELSE p[2] \o l[p[1]]]
           E(g) == [i \in 1 .. n |-> IF i = 1 THEN l[i] ELSE g[i - 1] \o l[i]]
<1>1. n \in Nat /\ \A i \in 1 .. n : l[i] \in A
  OBVIOUS
<1>2. CASE n = 0
  <2>1. FlattenSeq(l) = l /\ l = <<>>
    BY <1>2 DEF FlattenSeq
  <2>2. QED BY <2>1
<1>3. CASE n # 0
  <2>1. PICK f : FlattenSeq(l) = f[n] /\ f = CHOOSE g : g = E(g)
    BY <1>3, FlattenUnfolds
  <2> HIDE DEF n
  <2>2. <<>> \in A /\ \A a, b \in A : a \o b \in A
    OBVIOUS
  <2> HIDE DEF A
  <2>3. G \in [(1 .. n) \X A -> A]
        /\ \A i \in 1 .. n, a \in A : G[<<i, a>>] = IF i = 1 THEN l[1] ELSE a \o l[i]
    BY <1>1, <2>2
  <2>4. PICK h \in [SUBSET (1 .. n) -> A] : LeftFold(h, n, <<>>, G)
    <3> HIDE DEF G
    <3>1. QED BY <1>1, <2>2, <2>3, LeftFoldExists
  <2> DEFINE w == [i \in 1 .. n |-> h[1 .. i]]
  <2>5. ASSUME NEW i \in 1 .. n
        PROVE  w[i] = (IF i = 1 THEN l[i] ELSE w[i - 1] \o l[i]) /\ w[i] \in A
    <3>1. i - 1 \in Nat /\ i - 1 < n /\ (i - 1) + 1 = i
      BY <1>1
    <3>2. h[1 .. (i - 1) + 1] = G[<<(i - 1) + 1, h[1 .. i - 1]>>]
      <4> HIDE DEF G
      <4>1. QED BY <1>1, <2>4, <3>1, LeftFoldSteps
    <3>3. 1 .. i \in SUBSET (1 .. n) /\ 1 .. i - 1 \in SUBSET (1 .. n)
      BY <1>1
    <3>4. h[1 .. i] \in A /\ h[1 .. i - 1] \in A
      BY <3>3
    <3>5. h[1 .. i] = IF i = 1 THEN l[1] ELSE h[1 .. i - 1] \o l[i]
      <4> HIDE DEF G
      <4>1. QED BY <2>3, <3>1, <3>2, <3>4
    <3>6. i # 1 => w[i - 1] = h[1 .. i - 1]
      BY <1>1
    <3>7. w[i] = h[1 .. i]
      OBVIOUS
    <3> HIDE DEF w, G
    <3>8. QED BY <3>4, <3>5, <3>6, <3>7
  <2>6. w = E(w)
    <3>1. w = [i \in 1 .. n |-> w[i]]
      OBVIOUS
    <3> HIDE DEF w
    <3>2. QED BY <2>5, <3>1
  <2>7. f = E(f)
    <3> HIDE DEF E, w
    <3>1. QED BY <2>1, <2>6
  <2> HIDE DEF w
  <2> DEFINE P == {k \in Nat : k = 0 \/ (k \in 1 .. n => f[k] \in A)}
  <2>8. 0 \in P
    OBVIOUS
  <2>9. ASSUME NEW k \in Nat, k < n, k \in P PROVE k + 1 \in P
    <3>1. k + 1 \in 1 .. n /\ (k + 1) - 1 = k /\ (k # 0 => k \in 1 .. n)
      BY <1>1, <2>9
    <3>2. f[k + 1] = IF k + 1 = 1 THEN l[k + 1] ELSE f[k] \o l[k + 1]
      BY <2>7, <3>1
    <3>3. l[k + 1] \in A
      BY <1>1, <3>1
    <3>4. k # 0 => f[k] \in A
      BY <2>9, <3>1
    <3> HIDE DEF E
    <3>5. f[k + 1] \in A
      BY <2>2, <3>2, <3>3, <3>4
    <3>6. QED BY <3>5
  <2>10. n \in P
    <3> HIDE DEF P
    <3>1. QED BY <1>1, <2>8, <2>9, InductionUpTo
  <2>11. n \in 1 .. n
    BY <1>1, <1>3
  <2>12. QED BY <2>1, <2>10, <2>11, <1>3 DEF A
<1>4. QED BY <1>2, <1>3

-------------------------------------------------------------------------------
(* A finite set in an order: the n-th member has n - 1 before it             *)

StrictOrder(R, S) ==
  /\ \A x \in S : <<x, x>> \notin R
  /\ \A x, y, z \in S : <<x, y>> \in R /\ <<y, z>> \in R => <<x, z>> \in R
  /\ \A x, y \in S : x = y \/ <<x, y>> \in R \/ <<y, x>> \in R

InTurn(S, R) ==
  [n \in 1 .. Cardinality(S) |-> CHOOSE i \in S : Cardinality({j \in S : <<j, i>> \in R}) = n - 1]

THEOREM InOrder ==
  ASSUME NEW S, IsFiniteSet(S), NEW R, StrictOrder(R, S), NEW at, at = InTurn(S, R)
  PROVE  /\ at \in [1 .. Cardinality(S) -> S]
         /\ \A m, n \in 1 .. Cardinality(S) : m < n => <<at[m], at[n]>> \in R
         /\ \A m, n \in 1 .. Cardinality(S) : at[m] = at[n] => m = n
         /\ \A x \in S : \E n \in 1 .. Cardinality(S) : at[n] = x
         /\ \A n \in 1 .. Cardinality(S), x \in S :
              at[n] = x <=> Cardinality({y \in S : <<y, x>> \in R}) = n - 1
<1> DEFINE N == Cardinality(S)
           Below(i) == {j \in S : <<j, i>> \in R}
           place == [i \in S |-> Cardinality(Below(i)) + 1]
<1>1. N \in Nat /\ IsFiniteSet(1 .. N) /\ Cardinality(1 .. N) = N
  BY FS_CardinalityType, FS_Interval
<1>2. ASSUME NEW i \in S PROVE IsFiniteSet(Below(i)) /\ Cardinality(Below(i)) \in Nat
  <2>1. Below(i) \subseteq S
    OBVIOUS
  <2> HIDE DEF Below
  <2>2. QED BY <2>1, FS_Subset, FS_CardinalityType
<1>3. ASSUME NEW i \in S PROVE place[i] \in 1 .. N
  <2>1. Below(i) \subseteq S \ {i}
    BY DEF StrictOrder
  <2>2. IsFiniteSet(S \ {i}) /\ Cardinality(S \ {i}) = N - 1
    BY FS_RemoveElement
  <2> HIDE DEF Below, N
  <2>3. Cardinality(Below(i)) <= N - 1
    BY <2>1, <2>2, FS_Subset
  <2>4. place[i] = Cardinality(Below(i)) + 1
    OBVIOUS
  <2> HIDE DEF place
  <2>5. QED BY <1>1, <1>2, <2>3, <2>4
<1>4. ASSUME NEW i \in S, NEW j \in S, <<j, i>> \in R PROVE place[j] < place[i]
  <2>1. Below(j) \subseteq Below(i) \ {j} /\ j \in Below(i)
    BY <1>4 DEF StrictOrder
  <2> HIDE DEF Below
  <2>2. IsFiniteSet(Below(i) \ {j}) /\ Cardinality(Below(i) \ {j}) = Cardinality(Below(i)) - 1
    BY <1>2, <2>1, FS_RemoveElement
  <2>3. Cardinality(Below(j)) <= Cardinality(Below(i)) - 1
    BY <2>1, <2>2, FS_Subset
  <2>4. place[i] = Cardinality(Below(i)) + 1 /\ place[j] = Cardinality(Below(j)) + 1
    OBVIOUS
  <2> HIDE DEF place
  <2>5. QED BY <1>2, <2>3, <2>4
<1>5. \A i, j \in S : place[i] = place[j] => i = j
  <2> SUFFICES ASSUME NEW i \in S, NEW j \in S, place[i] = place[j], i # j PROVE FALSE
    OBVIOUS
  <2>1. place[i] \in 1 .. N /\ place[j] \in 1 .. N
    BY <1>3
  <2>2. place[i] < place[j] \/ place[j] < place[i]
    <3> HIDE DEF place
    <3>1. QED BY <1>4 DEF StrictOrder
  <2> HIDE DEF place, N
  <2>3. QED BY <1>1, <2>1, <2>2
<1>6. place \in [S -> 1 .. N]
  <2>1. place = [i \in S |-> place[i]]
    OBVIOUS
  <2> HIDE DEF place, N
  <2>2. QED BY <1>3, <2>1
<1> HIDE DEF place, N
<1>7. place \in Injection(S, 1 .. N)
  BY <1>5, <1>6 DEF Injection, IsInjective
<1>8. place \in Surjection(S, 1 .. N)
  BY <1>1, <1>7, FS_Injection DEF N
<1>9. ASSUME NEW n \in 1 .. N PROVE at[n] \in S /\ place[at[n]] = n
  <2>1. PICK i \in S : place[i] = n
    BY <1>8 DEF Surjection
  <2>2. \A j \in S : place[j] = n <=> Cardinality({k \in S : <<k, j>> \in R}) = n - 1
    <3> SUFFICES ASSUME NEW j \in S
                 PROVE  place[j] = n <=> Cardinality({k \in S : <<k, j>> \in R}) = n - 1
      OBVIOUS
    <3>1. place[j] = Cardinality(Below(j)) + 1 /\ Cardinality(Below(j)) \in Nat
      BY <1>2 DEF place
    <3>2. n \in Nat
      BY <1>1
    <3>3. place[j] = n <=> Cardinality(Below(j)) = n - 1
      <4> HIDE DEF Below
      <4>1. QED BY <3>1, <3>2
    <3>4. QED BY <3>3
  <2>3. at[n] = CHOOSE j \in S : Cardinality({k \in S : <<k, j>> \in R}) = n - 1
    BY DEF N, InTurn
  <2>4. \E j \in S : Cardinality({k \in S : <<k, j>> \in R}) = n - 1
    BY <2>1, <2>2
  <2>5. at[n] \in S /\ Cardinality({k \in S : <<k, at[n]>> \in R}) = n - 1
    BY <2>3, <2>4
  <2>6. QED BY <2>2, <2>5
<1>10. at \in [1 .. N -> S]
  BY <1>9 DEF N, InTurn
<1>11. \A m, n \in 1 .. N : at[m] = at[n] => m = n
  BY <1>9
<1>12. \A x \in S : place[x] \in 1 .. N /\ at[place[x]] = x
  BY <1>5, <1>6, <1>9
<1>13. ASSUME NEW m \in 1 .. N, NEW n \in 1 .. N, m < n PROVE <<at[m], at[n]>> \in R
  <2>1. at[m] \in S /\ at[n] \in S /\ place[at[m]] = m /\ place[at[n]] = n
    BY <1>9
  <2>2. m # n /\ ~(n < m)
    BY <1>1, <1>13
  <2>3. at[m] # at[n]
    BY <2>1, <2>2
  <2>4. <<at[n], at[m]>> \notin R
    BY <1>4, <2>1, <2>2
  <2>5. QED BY <2>1, <2>3, <2>4 DEF StrictOrder
<1>14. ASSUME NEW n \in 1 .. N, NEW x \in S
       PROVE  at[n] = x <=> Cardinality({y \in S : <<y, x>> \in R}) = n - 1
  <2>1. place[x] = Cardinality(Below(x)) + 1 /\ Cardinality(Below(x)) \in Nat /\ n \in Nat
    <3>1. place[x] = Cardinality(Below(x)) + 1
      BY DEF place
    <3>2. Cardinality(Below(x)) \in Nat
      BY <1>2
    <3>3. n \in Nat
      BY <1>1
    <3>4. QED BY <3>1, <3>2, <3>3
  <2>2. place[x] = n <=> Cardinality(Below(x)) = n - 1
    <3> HIDE DEF Below
    <3>1. QED BY <2>1
  <2>3. at[n] = x <=> place[x] = n
    BY <1>9, <1>12
  <2>4. QED BY <2>2, <2>3
<1>15. QED BY <1>10, <1>11, <1>12, <1>13, <1>14 DEF N

-------------------------------------------------------------------------------
(* The sums of a fold that takes the element C chooses                       *)
Totals(g, S, C, w) ==
  g = [s \in SUBSET S |-> IF s = {} THEN 0 ELSE w[C[s]] + g[s \ {C[s]}]]

THEOREM TotalExists ==
  ASSUME NEW S, IsFiniteSet(S), NEW w \in [S -> Nat],
         NEW C, Takes(C, S)
  PROVE  \E g \in [SUBSET S -> Nat] : Totals(g, S, C, w)
<1> DEFINE G == [p \in S \X Nat |-> w[p[1]] + p[2]]
<1>1. G \in [S \X Nat -> Nat] /\ \A x \in S, a \in Nat : G[<<x, a>>] = w[x] + a
  OBVIOUS
<1>0. \A s \in SUBSET S : s # {} => C[s] \in s
  BY DEF Takes
<1>2. PICK g \in [SUBSET S -> Nat] : Folds(g, S, 0, C, G)
  <2> HIDE DEF G
  <2>1. QED BY <1>0, <1>1, FoldExists
<1>3. ASSUME NEW s \in SUBSET S
      PROVE  g[s] = IF s = {} THEN 0 ELSE w[C[s]] + g[s \ {C[s]}]
  <2>1. g[s] = IF s = {} THEN 0 ELSE G[<<C[s], g[s \ {C[s]}]>>]
    BY <1>2 DEF Folds
  <2>2. s # {} => C[s] \in S /\ g[s \ {C[s]}] \in Nat
    BY <1>0
  <2> HIDE DEF G
  <2>3. QED BY <1>1, <2>1, <2>2
<1>4. Totals(g, S, C, w)
  BY <1>2, <1>3 DEF Totals
<1>5. QED BY <1>4

(* Disjoint sets, their sizes and their union *)
Parts(D, S, U) ==
  D \in [S -> SUBSET U] /\ \A x, y \in S : x # y => D[x] \cap D[y] = {}

PartSizes(D, S) == [x \in S |-> Cardinality(D[x])]

Joined(D, s, U) == {u \in U : \E x \in s : u \in D[x]}

LEMMA PartSizesType ==
  ASSUME NEW S, NEW U, IsFiniteSet(U), NEW D, Parts(D, S, U)
  PROVE  PartSizes(D, S) \in [S -> Nat] /\ DOMAIN PartSizes(D, S) = S
<1>1. ASSUME NEW x \in S PROVE Cardinality(D[x]) \in Nat
  <2>1. D[x] \in SUBSET U
    BY DEF Parts
  <2>2. QED BY <2>1, FS_Subset, FS_CardinalityType
<1>2. QED BY <1>1 DEF PartSizes

(* The sizes of disjoint sets add up to the size of their union *)
THEOREM TotalOfParts ==
  ASSUME NEW S, IsFiniteSet(S), NEW U, IsFiniteSet(U), NEW D, Parts(D, S, U),
         NEW C, Takes(C, S), NEW g, Totals(g, S, C, PartSizes(D, S))
  PROVE  g[S] = Cardinality(Joined(D, S, U))
<1> DEFINE P == {s \in SUBSET S : g[s] = Cardinality(Joined(D, s, U))}
<1>1. \A s \in SUBSET S : g[s] = IF s = {} THEN 0 ELSE PartSizes(D, S)[C[s]] + g[s \ {C[s]}]
  BY DEF Totals
<1>2. {} \in P
  <2>1. g[{}] = 0
    BY <1>1
  <2>2. Joined(D, {}, U) = {}
    BY DEF Joined
  <2>3. QED BY <2>1, <2>2, FS_EmptySet
<1>3. ASSUME NEW s \in SUBSET S, s # {}, s \ {C[s]} \in P PROVE s \in P
  <2> DEFINE c == C[s]
             r == s \ {c}
             R == Joined(D, r, U)
  <2>1. c \in s /\ c \in S /\ r \in SUBSET S /\ g[r] = Cardinality(R)
    BY <1>3 DEF Takes
  <2>2. g[s] = Cardinality(D[c]) + g[r]
    <3>1. PartSizes(D, S)[c] = Cardinality(D[c])
      BY <2>1 DEF PartSizes
    <3>2. QED BY <1>1, <1>3, <3>1
  <2>3. D[c] \in SUBSET U /\ \A x \in r : D[x] \cap D[c] = {}
    BY <2>1 DEF Parts
  <2>4. Joined(D, s, U) = R \cup D[c] /\ R \cap D[c] = {} /\ R \subseteq U
    BY <2>1, <2>3 DEF Joined
  <2> HIDE DEF R, c, r
  <2>5. IsFiniteSet(R) /\ IsFiniteSet(D[c])
    BY <2>3, <2>4, FS_Subset
  <2>6. Cardinality(R \cup D[c]) = Cardinality(R) + Cardinality(D[c]) - Cardinality({})
    BY <2>4, <2>5, FS_Union
  <2>7. Cardinality(R) \in Nat /\ Cardinality(D[c]) \in Nat /\ Cardinality({}) = 0
    BY <2>5, FS_CardinalityType, FS_EmptySet
  <2>8. g[s] = Cardinality(Joined(D, s, U))
    BY <2>1, <2>2, <2>4, <2>6, <2>7
  <2>9. QED BY <2>8
<1>4. SUBSET S \subseteq P
  <2> HIDE DEF P
  <2>1. QED BY <1>2, <1>3, SubsetInduction
<1>5. QED BY <1>4

(* It makes no difference on which side a fold adds *)
Adds(g, S, C, w) ==
  g = [s \in SUBSET S |-> IF s = {} THEN 0 ELSE g[s \ {C[s]}] + w[C[s]]]

THEOREM AddsExist ==
  ASSUME NEW S, IsFiniteSet(S), NEW w \in [S -> Nat], NEW C, Takes(C, S)
  PROVE  \E g : Adds(g, S, C, w)
<1> DEFINE G == [p \in S \X Nat |-> p[2] + w[p[1]]]
<1>0. \A s \in SUBSET S : s # {} => C[s] \in s
  BY DEF Takes
<1>1. G \in [S \X Nat -> Nat] /\ \A x \in S, a \in Nat : G[<<x, a>>] = a + w[x]
  OBVIOUS
<1>2. PICK g \in [SUBSET S -> Nat] : Folds(g, S, 0, C, G)
  <2> HIDE DEF G
  <2>1. QED BY <1>0, <1>1, FoldExists
<1>3. ASSUME NEW s \in SUBSET S
      PROVE  g[s] = IF s = {} THEN 0 ELSE g[s \ {C[s]}] + w[C[s]]
  <2>1. g[s] = IF s = {} THEN 0 ELSE G[<<C[s], g[s \ {C[s]}]>>]
    BY <1>2 DEF Folds
  <2>2. s # {} => C[s] \in S /\ g[s \ {C[s]}] \in Nat
    BY <1>0
  <2> HIDE DEF G
  <2>3. QED BY <1>1, <2>1, <2>2
<1>4. Adds(g, S, C, w)
  BY <1>2, <1>3 DEF Adds
<1>5. QED BY <1>4

THEOREM TotalOfAdds ==
  ASSUME NEW S, IsFiniteSet(S), NEW w \in [S -> Nat],
         NEW C, Takes(C, S), NEW g, Adds(g, S, C, w)
  PROVE  Totals(g, S, C, w)
<1> DEFINE P == {s \in SUBSET S : g[s] \in Nat}
<1>0. /\ g = [s \in SUBSET S |-> g[s]]
      /\ \A s \in SUBSET S : g[s] = IF s = {} THEN 0 ELSE g[s \ {C[s]}] + w[C[s]]
      /\ \A s \in SUBSET S : s # {} => C[s] \in s
  BY DEF Adds, Takes
<1>1. {} \in P
  <2>1. {} \in SUBSET S
    OBVIOUS
  <2>2. g[{}] = 0
    BY Zenon, <1>0, <2>1
  <2>3. QED BY <2>1, <2>2
<1>2. ASSUME NEW s \in SUBSET S, s # {}, s \ {C[s]} \in P PROVE s \in P
  <2>1. C[s] \in S /\ g[s \ {C[s]}] \in Nat
    BY <1>0, <1>2
  <2>2. w[C[s]] \in Nat /\ g[s] = g[s \ {C[s]}] + w[C[s]]
    BY <1>0, <1>2, <2>1
  <2>3. QED BY <2>1, <2>2
<1>3. SUBSET S \subseteq P
  <2> HIDE DEF P
  <2>1. QED BY <1>1, <1>2, SubsetInduction
<1>4. ASSUME NEW s \in SUBSET S, s # {} PROVE g[s] = w[C[s]] + g[s \ {C[s]}]
  <2>1. C[s] \in S /\ g[s] = g[s \ {C[s]}] + w[C[s]]
    BY <1>0, <1>4
  <2>2. s \ {C[s]} \in SUBSET S
    OBVIOUS
  <2>3. g[s \ {C[s]}] \in Nat /\ w[C[s]] \in Nat
    BY <1>3, <2>1, <2>2
  <2>4. QED BY <2>1, <2>3
<1>5. g[{}] = 0
  BY <1>0
<1>6. QED BY <1>0, <1>4, <1>5 DEF Totals

LEMMA SumUnfolds ==
  ASSUME NEW w
  PROVE  \E f : /\ SumFunction(w) = f[DOMAIN w]
                /\ f = CHOOSE g : g = [s \in SUBSET DOMAIN w |->
                         IF s = {} THEN 0 ELSE w[Chosen(s)] + g[s \ {Chosen(s)}]]
BY Zenon DEF SumFunction, SumFunctionOnSet, FoldFunctionOnSet, MapThenFoldSet, Chosen

LEMMA SumIsTotal ==
  ASSUME NEW w, IsFiniteSet(DOMAIN w), w \in [DOMAIN w -> Nat],
         NEW C, C = [s \in SUBSET DOMAIN w |-> Chosen(s)]
  PROVE  \E g : SumFunction(w) = g[DOMAIN w] /\ Totals(g, DOMAIN w, C, w)
<1> DEFINE E(g) == [s \in SUBSET DOMAIN w |->
                      IF s = {} THEN 0 ELSE w[Chosen(s)] + g[s \ {Chosen(s)}]]
<1>1. PICK f : SumFunction(w) = f[DOMAIN w] /\ f = CHOOSE g : g = E(g)
  BY SumUnfolds
<1>2. \A s \in SUBSET DOMAIN w : s # {} => C[s] \in s /\ C[s] = Chosen(s)
  BY ChosenIn
<1>3. ASSUME NEW g PROVE g = E(g) <=> Totals(g, DOMAIN w, C, w)
  <2> DEFINE F == [s \in SUBSET DOMAIN w |-> IF s = {} THEN 0 ELSE w[C[s]] + g[s \ {C[s]}]]
  <2>1. E(g) = F
    BY <1>2
  <2> HIDE DEF E, F
  <2>2. g = E(g) <=> g = F
    BY <2>1
  <2>3. QED BY <2>2 DEF F, Totals
<1>4. PICK h : Totals(h, DOMAIN w, C, w)
  <2>1. Takes(C, DOMAIN w)
    BY <1>2 DEF Takes
  <2>2. QED BY <2>1, TotalExists
<1> HIDE DEF E
<1>5. f = E(f)
  BY Zenon, <1>1, <1>3, <1>4
<1>6. QED BY <1>1, <1>3, <1>5

(* So does SumFunction *)
THEOREM SumOfParts ==
  ASSUME NEW S, IsFiniteSet(S), NEW U, IsFiniteSet(U), NEW D, Parts(D, S, U)
  PROVE  SumFunction(PartSizes(D, S)) = Cardinality(Joined(D, S, U))
<1> DEFINE C == [s \in SUBSET S |-> Chosen(s)]
<1>1. PICK w : w = PartSizes(D, S)
  OBVIOUS
<1>2. DOMAIN w = S /\ w \in [S -> Nat]
  BY <1>1, PartSizesType
<1>3. PICK f : SumFunction(w) = f[S] /\ Totals(f, S, C, w)
  BY Zenon, <1>2, SumIsTotal
<1>4. Takes(C, S)
  BY ChosenIn DEF Takes
<1> HIDE DEF C
<1>5. QED BY <1>1, <1>3, <1>4, TotalOfParts

(* FoldLeft takes the last element that is left *)
Tops(n) == [s \in SUBSET (1 .. n) |-> Top(s)]

LEMMA TopsIn ==
  ASSUME NEW n \in Nat
  PROVE  /\ Takes(Tops(n), 1 .. n) /\ IsFiniteSet(1 .. n)
         /\ \A s \in SUBSET (1 .. n) : s # {} => Tops(n)[s] = Top(s) /\ Top(s) \in s
<1>1. \A s \in SUBSET (1 .. n) : s # {} => Top(s) \in s
  BY TopIn
<1>2. QED BY <1>1, FS_Interval DEF Tops, Takes
===============================================================================
