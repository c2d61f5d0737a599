----------------------------- MODULE SumProofs -----------------------------
(***************************************************************************)
(* Facts about what is folded over a finite set (MapThenFoldSet), and of   *)
(* its sums (MapThenSumSet), for the proofs of what the books add up to.   *)
(* A fold is recursive over the subsets of the set; the proofs are         *)
(* inductions over those subsets, in the form of a minimal counterexample  *)
(* (WFMin).                                                                *)
(***************************************************************************)
EXTENDS Integers, FiniteSets, FiniteSetsExt, FiniteSetTheorems,
        WellFoundedInduction, TLAPS

(* A set of subsets of K that has every subset whose strict subsets it has *)
(* has them all: induction over finite sets, with the property a set.      *)
LEMMA SubsetInduction ==
  ASSUME NEW K, IsFiniteSet(K), NEW A \in SUBSET SUBSET K,
         \A T \in SUBSET K : (\A U \in SUBSET T : U # T => U \in A) => T \in A
  PROVE  \A T \in SUBSET K : T \in A
<1>1. IsWellFoundedOn(StrictSubsetOrdering(K), SUBSET K)
  BY FS_StrictSubsetOrderingWellFounded, FS_FiniteSubsetsOfFinite
<1> DEFINE B == (SUBSET K) \ A
<1>2. ASSUME B # {} PROVE FALSE
  <2>0. B \subseteq SUBSET K
    OBVIOUS
  <2> HIDE DEF B
  <2>1. \E x \in B : \A y \in B : ~ (<<y, x>> \in StrictSubsetOrdering(K))
    BY <1>1, <1>2, <2>0, WFMin
  <2>2. PICK x \in B : \A y \in B : ~ (<<y, x>> \in StrictSubsetOrdering(K))
    BY <2>1
  <2>3. \A U \in SUBSET x : U # x => U \in A
    BY <2>0, <2>2 DEF StrictSubsetOrdering, B
  <2> QED BY <2>0, <2>2, <2>3 DEF B
<1> QED BY <1>2

-----------------------------------------------------------------------------
(* A recursion over the subsets of K: b for the empty one, and for another  *)
(* what F makes of it and of the value without the member that C chooses.  *)
Folding(g, F, b, C, K) ==
  g = [s \in SUBSET K |-> IF s = {} THEN b ELSE F[<<s, g[s \ {C[s]}]>>]]

Solution(F, b, C, K) == CHOOSE g : Folding(g, F, b, C, K)

\* C chooses a member of each subset of K.
Chooses(C, K) == \A s \in SUBSET K : s # {} => C[s] \in s

LEMMA FoldsAt ==
  ASSUME NEW K, NEW F, NEW b, NEW C, NEW g, Folding(g, F, b, C, K), NEW s \in SUBSET K
  PROVE  g[s] = IF s = {} THEN b ELSE F[<<s, g[s \ {C[s]}]>>]
  BY DEF Folding

LEMMA FoldUnique ==
  ASSUME NEW K, IsFiniteSet(K), NEW F, NEW b, NEW C, Chooses(C, K),
         NEW g, Folding(g, F, b, C, K), NEW h, Folding(h, F, b, C, K)
  PROVE  \A s \in SUBSET K : g[s] = h[s]
<1> DEFINE A == {s \in SUBSET K : g[s] = h[s]}
<1>0. /\ \A s \in SUBSET K : g[s] = IF s = {} THEN b ELSE F[<<s, g[s \ {C[s]}]>>]
      /\ \A s \in SUBSET K : h[s] = IF s = {} THEN b ELSE F[<<s, h[s \ {C[s]}]>>]
  BY DEF Folding
<1>1. ASSUME NEW T \in SUBSET K, \A U \in SUBSET T : U # T => U \in A
      PROVE  T \in A
  <2>1. CASE T = {}
    BY <1>0, <2>1
  <2>2. CASE T # {}
    <3>1. T \ {C[T]} \in A
      BY <1>1, <2>2 DEF Chooses
    <3>2. /\ g[T] = F[<<T, g[T \ {C[T]}]>>]
          /\ h[T] = F[<<T, h[T \ {C[T]}]>>]
      BY <1>0, <2>2
    <3> QED BY <3>1, <3>2
  <2> QED BY <2>1, <2>2
<1>2. A \in SUBSET SUBSET K
  OBVIOUS
<1> HIDE DEF A
<1>3. \A T \in SUBSET K : T \in A
  BY <1>1, <1>2, SubsetInduction
<1> QED BY <1>3 DEF A

LEMMA FoldRestricts ==
  ASSUME NEW K, NEW F, NEW b, NEW C, NEW g, Folding(g, F, b, C, K),
         NEW T \in SUBSET K, NEW h, h = [s \in SUBSET T |-> g[s]]
  PROVE  Folding(h, F, b, C, T)
<1>1. ASSUME NEW s \in SUBSET T
      PROVE  h[s] = IF s = {} THEN b ELSE F[<<s, h[s \ {C[s]}]>>]
  <2>1. s \in SUBSET K /\ s \ {C[s]} \in SUBSET T
    OBVIOUS
  <2>2. g[s] = IF s = {} THEN b ELSE F[<<s, g[s \ {C[s]}]>>]
    BY <2>1, FoldsAt
  <2> QED BY <2>1, <2>2
<1>2. h = [s \in SUBSET T |-> IF s = {} THEN b ELSE F[<<s, h[s \ {C[s]}]>>]]
  BY <1>1
<1> QED BY <1>2 DEF Folding

LEMMA SolutionFolds ==
  ASSUME NEW K, NEW F, NEW b, NEW C, \E g : Folding(g, F, b, C, K)
  PROVE  Folding(Solution(F, b, C, K), F, b, C, K)
  BY DEF Solution

LEMMA SolutionsAgree ==
  ASSUME NEW K, IsFiniteSet(K), NEW F, NEW b, NEW C, Chooses(C, K),
         NEW T \in SUBSET K,
         Folding(Solution(F, b, C, K), F, b, C, K),
         Folding(Solution(F, b, C, T), F, b, C, T)
  PROVE  Solution(F, b, C, K)[T] = Solution(F, b, C, T)[T]
<1>1. PICK g : g = Solution(F, b, C, K) /\ Folding(g, F, b, C, K)
  OBVIOUS
<1>2. PICK h : h = Solution(F, b, C, T) /\ Folding(h, F, b, C, T)
  OBVIOUS
<1>3. PICK r : r = [s \in SUBSET T |-> g[s]]
  OBVIOUS
<1>4. Folding(r, F, b, C, T) /\ IsFiniteSet(T) /\ Chooses(C, T)
  <2>1. Folding(r, F, b, C, T)
    BY <1>1, <1>3, FoldRestricts
  <2> QED BY <2>1, FS_Subset DEF Chooses
<1>5. \A s \in SUBSET T : r[s] = h[s]
  BY <1>2, <1>4, FoldUnique
<1>6. r[T] = g[T]
  BY <1>3
<1> QED BY <1>1, <1>2, <1>5, <1>6

LEMMA SolutionUnfolds ==
  ASSUME NEW T, IsFiniteSet(T), T # {}, NEW F, NEW b, NEW C, Chooses(C, T),
         NEW U, U = T \ {C[T]},
         Folding(Solution(F, b, C, T), F, b, C, T),
         Folding(Solution(F, b, C, U), F, b, C, U)
  PROVE  Solution(F, b, C, T)[T] = F[<<T, Solution(F, b, C, U)[U]>>]
<1>1. PICK g : g = Solution(F, b, C, T) /\ Folding(g, F, b, C, T)
  OBVIOUS
<1>2. g[T] = F[<<T, g[U]>>]
  <2>1. T \in SUBSET T /\ Folding(g, F, b, C, T)
    BY <1>1
  <2>2. g[T] = IF T = {} THEN b ELSE F[<<T, g[T \ {C[T]}]>>]
    BY ONLY <2>1, FoldsAt
  <2> QED BY <2>2
<1>3. U \in SUBSET T
  OBVIOUS
<1> QED BY <1>1, <1>2, <1>3, SolutionsAgree

(* The recursion over the subsets of a finite set has a solution.          *)
LEMMA FoldExists ==
  ASSUME NEW K, IsFiniteSet(K), NEW F, NEW b, NEW C, Chooses(C, K)
  PROVE  \E g : Folding(g, F, b, C, K)
<1> DEFINE A == {T \in SUBSET K : \E g : Folding(g, F, b, C, T)}
<1>1. ASSUME NEW T \in SUBSET K, \A U \in SUBSET T : U # T => U \in A
      PROVE  T \in A
  <2> DEFINE rest(s) == s \ {C[s]}
             h == [s \in SUBSET T |-> IF s = {} THEN b
                      ELSE F[<<s, Solution(F, b, C, rest(s))[rest(s)]>>]]
  <2>1. \A U \in SUBSET T : U # T => Folding(Solution(F, b, C, U), F, b, C, U)
    BY <1>1, SolutionFolds
  <2>2. ASSUME NEW s \in SUBSET T
        PROVE  h[s] = IF s = {} THEN b ELSE F[<<s, h[rest(s)]>>]
    <3>1. CASE s = {}
      BY <3>1
    <3>2. CASE s # {}
      <4>1. PICK u : u = rest(s)
        OBVIOUS
      <4>2. u \in SUBSET T /\ u # T /\ IsFiniteSet(u)
        BY <3>2, <4>1, FS_Subset DEF Chooses
      <4>3. Folding(Solution(F, b, C, u), F, b, C, u)
        BY <4>2, <2>1
      <4>4. h[u] = Solution(F, b, C, u)[u]
        <5>1. CASE u = {}
          <6>1. Solution(F, b, C, u)[u] = b
            <7>1. PICK z : z = Solution(F, b, C, u) /\ Folding(z, F, b, C, u)
              BY <4>3
            <7>2. u \in SUBSET u
              OBVIOUS
            <7> QED BY <5>1, <7>1, <7>2 DEF Folding
          <6> QED BY <4>2, <5>1, <6>1
        <5>2. CASE u # {}
          <6>1. PICK w : w = rest(u)
            OBVIOUS
          <6>2. w \in SUBSET T /\ w # T
            BY <4>2, <5>2, <6>1 DEF Chooses
          <6>3. Folding(Solution(F, b, C, w), F, b, C, w)
            BY <6>2, <2>1
          <6>5. Chooses(C, u)
            BY <4>2 DEF Chooses
          <6>4. Solution(F, b, C, u)[u] = F[<<u, Solution(F, b, C, w)[w]>>]
            BY <4>2, <4>3, <5>2, <6>1, <6>3, <6>5, SolutionUnfolds
          <6> QED BY <4>2, <5>2, <6>1, <6>4
        <5> QED BY <5>1, <5>2
      <4>5. h[s] = F[<<s, Solution(F, b, C, u)[u]>>]
        BY <3>2, <4>1
      <4> HIDE DEF h
      <4> QED BY <3>2, <4>1, <4>4, <4>5
    <3> QED BY <3>1, <3>2
  <2>3. h = [s \in SUBSET T |-> IF s = {} THEN b ELSE F[<<s, h[rest(s)]>>]]
    BY <2>2
  <2>4. Folding(h, F, b, C, T)
    BY <2>3 DEF Folding
  <2> HIDE DEF h
  <2> QED BY <2>4
<1>2. A \in SUBSET SUBSET K
  OBVIOUS
<1>3. K \in A
  <2> HIDE DEF A
  <2>1. \A T \in SUBSET K : T \in A
    BY <1>1, <1>2, SubsetInduction
  <2> QED BY <2>1
<1> QED BY <1>3

-----------------------------------------------------------------------------
(* A sum.                                                                  *)

(* The equation that MapThenSumSet's recursion solves, over the subsets of K. *)
Some(s) == CHOOSE x \in s : TRUE
Adds(g, F, K) == g = [s \in SUBSET K |-> IF s = {} THEN 0
                                       ELSE F[Some(s)] + g[s \ {Some(s)}]]
Iter(F, K) == CHOOSE g : Adds(g, F, K)

\* The sum of F over K.
SumIn(F, K) == Iter(F, K)[K]

LEMMA SumIsIter == \A F, K : MapThenSumSet(LAMBDA k : F[k], K) = SumIn(F, K)
  BY DEF MapThenSumSet, MapThenFoldSet, Adds, Some, Iter, SumIn

LEMMA SomeIsMember == \A s : s # {} => Some(s) \in s
  BY DEF Some

\* What g gives each subset of K is the sum of F over it.
Partial(g, F, K) == /\ g[{}] = 0
                    /\ \A s \in SUBSET K : s # {} =>
                         g[s] = F[Some(s)] + g[s \ {Some(s)}]

LEMMA SumExists ==
  ASSUME NEW K, IsFiniteSet(K), NEW F, \A k \in K : F[k] \in Int
  PROVE  \E g : Adds(g, F, K)
<1> DEFINE step == [p \in (SUBSET K) \X Int |-> F[Some(p[1])] + p[2]]
           some == [s \in SUBSET K |-> Some(s)]
<1>1. Chooses(some, K)
  BY SomeIsMember DEF Chooses
<1>2. \A s \in SUBSET K : s # {} => some[s] = Some(s) /\ Some(s) \in s /\ s \ {Some(s)} # s
  BY SomeIsMember
<1>3. \A s \in SUBSET K, x \in Int : s # {} =>
         step[<<s, x>>] = F[Some(s)] + x /\ step[<<s, x>>] \in Int
  <2>1. ASSUME NEW s \in SUBSET K, NEW x \in Int, s # {}
        PROVE  step[<<s, x>>] = F[Some(s)] + x /\ step[<<s, x>>] \in Int
    <3>1. F[Some(s)] \in Int
      BY <1>2, <2>1
    <3>2. step[<<s, x>>] = F[Some(s)] + x
      OBVIOUS
    <3> QED BY <3>1, <3>2
  <2> QED BY <2>1
<1> HIDE DEF step, some
<1>4. PICK g : Folding(g, step, 0, some, K)
  BY <1>1, FoldExists
<1>5. \A s \in SUBSET K : g[s] = IF s = {} THEN 0 ELSE step[<<s, g[s \ {some[s]}]>>]
  BY <1>4, FoldsAt
<1> DEFINE A == {s \in SUBSET K : g[s] \in Int}
<1>6. ASSUME NEW T \in SUBSET K, \A U \in SUBSET T : U # T => U \in A
      PROVE  T \in A
  <2>1. CASE T = {}
    <3>1. g[T] = 0
      BY <1>5, <2>1
    <3> QED BY <3>1
  <2>2. CASE T # {}
    <3>1. PICK U : U = T \ {Some(T)} /\ U \in A
      BY <1>2, <1>6, <2>2
    <3> QED BY <1>2, <1>3, <1>5, <2>2, <3>1
  <2> QED BY <2>1, <2>2
<1>7. A \in SUBSET SUBSET K
  OBVIOUS
<1> HIDE DEF A
<1>8. \A s \in SUBSET K : s \in A
  BY <1>6, <1>7, SubsetInduction
<1>9. \A s \in SUBSET K : g[s] = IF s = {} THEN 0 ELSE F[Some(s)] + g[s \ {Some(s)}]
  <2>1. \A s \in SUBSET K : g[s] \in Int
    BY <1>8 DEF A
  <2> QED BY <1>2, <1>3, <1>5, <2>1
<1>10. g = [s \in SUBSET K |-> g[s]]
  BY <1>4 DEF Folding
<1>11. g = [s \in SUBSET K |-> IF s = {} THEN 0 ELSE F[Some(s)] + g[s \ {Some(s)}]]
  BY <1>9, <1>10
<1> QED BY <1>11 DEF Adds

LEMMA SumSteps ==
  ASSUME NEW K, IsFiniteSet(K), NEW F, \A k \in K : F[k] \in Int
  PROVE  \E g : SumIn(F, K) = g[K] /\ Partial(g, F, K)
<1>1. PICK g : g = Iter(F, K) /\ Adds(g, F, K)
  BY SumExists DEF Iter
<1>2. \A s \in SUBSET K : g[s] = IF s = {} THEN 0 ELSE F[Some(s)] + g[s \ {Some(s)}]
  BY <1>1 DEF Adds
<1>3. g[{}] = 0
  BY <1>2
<1>4. Partial(g, F, K)
  BY <1>2, <1>3 DEF Partial
<1> QED BY <1>1, <1>4 DEF SumIn

(* A sum of integers is one.                                               *)
LEMMA SumIsInt ==
  ASSUME NEW K, IsFiniteSet(K), NEW F \in [K -> Int]
  PROVE  SumIn(F, K) \in Int
<1>1. PICK g : SumIn(F, K) = g[K] /\ Partial(g, F, K)
  BY SumSteps
<1> DEFINE A == {s \in SUBSET K : g[s] \in Int}
<1>2. ASSUME NEW T \in SUBSET K, \A U \in SUBSET T : U # T => U \in A
      PROVE  T \in A
  <2>1. CASE T = {}
    BY <1>1, <2>1 DEF Partial
  <2>2. CASE T # {}
    <3>1. PICK x \in T : g[T] = F[x] + g[T \ {x}]
      BY <1>1, <2>2, SomeIsMember DEF Partial
    <3>2. T \ {x} \in A
      BY <1>2
    <3> QED BY <3>1, <3>2
  <2> QED BY <2>1, <2>2
<1>3. A \in SUBSET SUBSET K
  OBVIOUS
<1> HIDE DEF A
<1>4. \A T \in SUBSET K : T \in A
  BY <1>2, <1>3, SubsetInduction
<1> QED BY <1>1, <1>4 DEF A

LEMMA SumOfZeros ==
  ASSUME NEW K, IsFiniteSet(K), NEW F, \A k \in K : F[k] = 0
  PROVE  SumIn(F, K) = 0
<1>1. PICK g : SumIn(F, K) = g[K] /\ Partial(g, F, K)
  BY SumSteps
<1> DEFINE A == {s \in SUBSET K : g[s] = 0}
<1>2. ASSUME NEW T \in SUBSET K, \A U \in SUBSET T : U # T => U \in A
      PROVE  T \in A
  <2>1. CASE T = {}
    BY <1>1, <2>1 DEF Partial
  <2>2. CASE T # {}
    <3>1. PICK x \in T : g[T] = F[x] + g[T \ {x}]
      BY <1>1, <2>2, SomeIsMember DEF Partial
    <3>2. T \ {x} \in A
      BY <1>2
    <3> QED BY <3>1, <3>2
  <2> QED BY <2>1, <2>2
<1>3. A \in SUBSET SUBSET K
  OBVIOUS
<1> HIDE DEF A
<1>4. \A T \in SUBSET K : T \in A
  BY <1>2, <1>3, SubsetInduction
<1> QED BY <1>1, <1>4 DEF A

(* Nothing in a sum of natural numbers exceeds it.                         *)
LEMMA SumBounds ==
  ASSUME NEW K, IsFiniteSet(K), NEW F \in [K -> Nat]
  PROVE  SumIn(F, K) \in Nat /\ \A k \in K : F[k] <= SumIn(F, K)
<1>1. PICK g : SumIn(F, K) = g[K] /\ Partial(g, F, K)
  BY SumSteps
<1> DEFINE A == {s \in SUBSET K : g[s] \in Nat /\ \A k \in s : F[k] <= g[s]}
<1>2. ASSUME NEW T \in SUBSET K, \A U \in SUBSET T : U # T => U \in A
      PROVE  T \in A
  <2>1. CASE T = {}
    BY <1>1, <2>1 DEF Partial
  <2>2. CASE T # {}
    <3>1. PICK x \in T : g[T] = F[x] + g[T \ {x}]
      BY <1>1, <2>2, SomeIsMember DEF Partial
    <3>2. T \ {x} \in A
      BY <1>2
    <3>3. \A k \in T : k = x \/ k \in T \ {x}
      OBVIOUS
    <3> QED BY <3>1, <3>2, <3>3
  <2> QED BY <2>1, <2>2
<1>3. A \in SUBSET SUBSET K
  OBVIOUS
<1> HIDE DEF A
<1>4. \A T \in SUBSET K : T \in A
  BY <1>2, <1>3, SubsetInduction
<1> QED BY <1>1, <1>4 DEF A

(* One summand changes, and the sum by as much.                            *)
LEMMA SumChanges ==
  ASSUME NEW K, IsFiniteSet(K), NEW F \in [K -> Int], NEW G \in [K -> Int],
         NEW k \in K, \A j \in K \ {k} : G[j] = F[j]
  PROVE  SumIn(G, K) = SumIn(F, K) + G[k] - F[k]
<1>1. PICK f : SumIn(F, K) = f[K] /\ Partial(f, F, K)
  BY SumSteps
<1>2. PICK g : SumIn(G, K) = g[K] /\ Partial(g, G, K)
  BY SumSteps
<1> DEFINE A == {s \in SUBSET K :
                    /\ f[s] \in Int
                    /\ g[s] = IF k \in s THEN f[s] + G[k] - F[k] ELSE f[s]}
<1>3. ASSUME NEW T \in SUBSET K, \A U \in SUBSET T : U # T => U \in A
      PROVE  T \in A
  <2>1. CASE T = {}
    BY <1>1, <1>2, <2>1 DEF Partial
  <2>2. CASE T # {}
    <3>1. PICK x \in T : /\ f[T] = F[x] + f[T \ {x}]
                         /\ g[T] = G[x] + g[T \ {x}]
      BY <1>1, <1>2, <2>2, SomeIsMember DEF Partial
    <3>2. PICK U : U = T \ {x}
      OBVIOUS
    <3>3. f[T] = F[x] + f[U] /\ g[T] = G[x] + g[U] /\ U \in A
      BY <1>3, <3>1, <3>2
    <3>4. CASE x = k
      BY <3>2, <3>3, <3>4
    <3>5. CASE x # k
      BY <3>2, <3>3, <3>5
    <3> QED BY <3>4, <3>5
  <2> QED BY <2>1, <2>2
<1>4. A \in SUBSET SUBSET K
  OBVIOUS
<1> HIDE DEF A
<1>5. \A T \in SUBSET K : T \in A
  BY <1>3, <1>4, SubsetInduction
<1> QED BY <1>1, <1>2, <1>5 DEF A

-----------------------------------------------------------------------------
(* Finite sets that gain or lose a member, and those of natural numbers.    *)

\* A set that one element joins or leaves.
LEMMA CountMoves ==
    ASSUME NEW S, IsFiniteSet(S), NEW A \in SUBSET S, NEW B \in SUBSET S, NEW s \in S,
           \A t \in S \ {s} : t \in B <=> t \in A
    PROVE  /\ Cardinality(A) \in Nat /\ Cardinality(B) \in Nat
           /\ Cardinality(B) = Cardinality(A) + (IF s \in B THEN 1 ELSE 0)
                                              - (IF s \in A THEN 1 ELSE 0)
<1>1. IsFiniteSet(A) /\ IsFiniteSet(B) /\ Cardinality(A) \in Nat /\ Cardinality(B) \in Nat
  BY FS_Subset, FS_CardinalityType
<1>2. CASE (s \in A) = (s \in B)
  <2>1. A = B
    BY <1>2
  <2> QED BY <1>1, <2>1
<1>3. CASE s \in B /\ s \notin A
  <2>1. B = A \cup {s}
    BY <1>3
  <2> QED BY <1>1, <1>3, <2>1, FS_AddElement
<1>4. CASE s \in A /\ s \notin B
  <2>1. B = A \ {s}
    BY <1>4
  <2> QED BY <1>1, <1>4, <2>1, FS_RemoveElement
<1> QED BY <1>2, <1>3, <1>4

LEMMA HasMaximum ==
    ASSUME NEW S \in SUBSET Nat, IsFiniteSet(S), S # {}
    PROVE  Max(S) \in S /\ \A n \in S : n <= Max(S)
<1> DEFINE A == {T \in SUBSET S : T # {} => \E m \in T : \A n \in T : m >= n}
<1>1. ASSUME NEW T \in SUBSET S, \A U \in SUBSET T : U # T => U \in A
      PROVE  T \in A
  <2>1. SUFFICES ASSUME T # {} PROVE \E m \in T : \A n \in T : m >= n
    OBVIOUS
  <2>2. PICK x \in T : TRUE
    BY <2>1
  <2>3. CASE T \ {x} = {}
    BY <2>2, <2>3
  <2>4. CASE T \ {x} # {}
    <3>1. PICK m \in T \ {x} : \A n \in T \ {x} : m >= n
      <4>1. T \ {x} \in SUBSET T /\ T \ {x} # T
        BY <2>2
      <4>2. T \ {x} \in A
        BY ONLY <1>1, <4>1
      <4> QED BY <2>4, <4>2
    <3>2. CASE m >= x
      BY <3>1, <3>2
    <3>3. CASE m < x
      BY <3>1, <3>3
    <3> QED BY <3>1, <3>2, <3>3
  <2> QED BY <2>3, <2>4
<1>2. A \in SUBSET SUBSET S
  OBVIOUS
<1> HIDE DEF A
<1>3. S \in A
  <2>1. \A T \in SUBSET S : T \in A
    BY <1>1, <1>2, SubsetInduction
  <2> QED BY <2>1
<1>4. \E m \in S : \A n \in S : m >= n
  BY <1>3 DEF A
<1>5. Max(S) \in S /\ \A n \in S : Max(S) >= n
  BY <1>4, Zenon DEF Max
<1> QED BY <1>5

LEMMA HasMinimum ==
    ASSUME NEW S \in SUBSET Nat, IsFiniteSet(S), S # {}
    PROVE  Min(S) \in S /\ \A n \in S : Min(S) <= n
<1> DEFINE A == {T \in SUBSET S : T # {} => \E m \in T : \A n \in T : m <= n}
<1>1. ASSUME NEW T \in SUBSET S, \A U \in SUBSET T : U # T => U \in A
      PROVE  T \in A
  <2>1. SUFFICES ASSUME T # {} PROVE \E m \in T : \A n \in T : m <= n
    OBVIOUS
  <2>2. PICK x \in T : TRUE
    BY <2>1
  <2>3. CASE T \ {x} = {}
    BY <2>2, <2>3
  <2>4. CASE T \ {x} # {}
    <3>1. PICK m \in T \ {x} : \A n \in T \ {x} : m <= n
      <4>1. T \ {x} \in SUBSET T /\ T \ {x} # T
        BY <2>2
      <4>2. T \ {x} \in A
        BY ONLY <1>1, <4>1
      <4> QED BY <2>4, <4>2
    <3>2. CASE m <= x
      BY <3>1, <3>2
    <3>3. CASE m > x
      BY <3>1, <3>3
    <3> QED BY <3>1, <3>2, <3>3
  <2> QED BY <2>3, <2>4
<1>2. A \in SUBSET SUBSET S
  OBVIOUS
<1> HIDE DEF A
<1>3. S \in A
  <2>1. \A T \in SUBSET S : T \in A
    BY <1>1, <1>2, SubsetInduction
  <2> QED BY <2>1
<1>4. \E m \in S : \A n \in S : m <= n
  BY <1>3 DEF A
<1>5. Min(S) \in S /\ \A n \in S : Min(S) <= n
  BY <1>4, Zenon DEF Min
<1> QED BY <1>5
=============================================================================
