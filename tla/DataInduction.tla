--------------------------- MODULE DataInduction ----------------------------
(***************************************************************************)
(* Induction over finite sets, and what it gives about the sums of the     *)
(* community module Functions.  The induction theorems of the library take *)
(* an operator, which no prover here can instantiate; that strict          *)
(* inclusion is well-founded is stated of sets, and is enough: a statement *)
(* is the set F of what it holds for.  Induction up to a number follows,   *)
(* and from it that a function defined by its first value and its steps    *)
(* exists, has them, and is the only one that does.                        *)
(***************************************************************************)
EXTENDS Integers, FiniteSets, Functions, FiniteSetTheorems, WellFoundedInduction, TLAPS

(* Induction over the subsets of a finite set. *)
LEMMA SubsetInduction ==
  ASSUME NEW S, IsFiniteSet(S), NEW F,
         \A T \in SUBSET S : (\A U \in SUBSET T : U # T => U \in F) => T \in F
  PROVE  SUBSET S \subseteq F
  <1> SUFFICES ASSUME (SUBSET S) \ F # {} PROVE FALSE
    OBVIOUS
  <1> DEFINE B == (SUBSET S) \ F
  <1>1. FiniteSubsetsOf(S) = SUBSET S
    BY FS_FiniteSubsetsOfFinite, Zenon
  <1>2. IsWellFoundedOn(StrictSubsetOrdering(S), FiniteSubsetsOf(S))
    BY FS_StrictSubsetOrderingWellFounded, Zenon
  <1>3. IsWellFoundedOn(StrictSubsetOrdering(S), SUBSET S)
    BY <1>1, <1>2, Zenon
  <1>4. B \subseteq SUBSET S /\ B # {}
    OBVIOUS
  <1> DEFINE R == StrictSubsetOrdering(S)
             P == SUBSET S
  <1>5. IsWellFoundedOn(R, P) /\ B \subseteq P /\ B # {}
    BY <1>3, <1>4
  <1> HIDE DEF B, R, P
  <1>6. \E x \in B : \A y \in B : ~ (<<y, x>> \in R)
    BY ONLY <1>5, WFMin
  <1>7. PICK T \in B : \A U \in B : ~ (<<U, T>> \in StrictSubsetOrdering(S))
    BY <1>6 DEF R
  <1>8. ASSUME NEW U \in SUBSET T, U # T PROVE U \in F
    BY <1>7, <1>8 DEF StrictSubsetOrdering, B
  <1> QED
    BY <1>7, <1>8 DEF B

(* The sum of A over S is the value at S of the function that solves the *)
(* equation below on all subsets of S.                                   *)
Pick(s) == CHOOSE x \in s : TRUE
Body(A, g, s) == IF s = {} THEN 0 ELSE A[Pick(s)] + g[s \ {Pick(s)}]
Solves(A, g, S) == g = [s \in SUBSET S |-> Body(A, g, s)]

LEMMA Unfold == ASSUME NEW A, NEW S
   PROVE SumFunctionOnSet(A, S) = (CHOOSE g : Solves(A, g, S))[S]
  BY DEF SumFunctionOnSet, FoldFunctionOnSet, MapThenFoldSet, Solves, Body, Pick

LEMMA PickIn == \A s : s # {} => Pick(s) \in s /\ s \ {Pick(s)} # s
  BY DEF Pick

LEMMA SolvesAt ==
  ASSUME NEW A, NEW g, NEW S, Solves(A, g, S)
  PROVE  /\ g[{}] = 0
         /\ \A s \in SUBSET S : s # {} => g[s] = A[Pick(s)] + g[s \ {Pick(s)}]
  <1>1. \A s \in SUBSET S : g[s] = Body(A, g, s)
    BY DEF Solves
  <1>2. {} \in SUBSET S
    OBVIOUS
  <1> QED
    BY <1>1, <1>2 DEF Body

(* There is at most one such function, and on a finite set there is one. *)
LEMMA SolvedOnce ==
  ASSUME NEW A, NEW g, NEW h, NEW S, NEW T, IsFiniteSet(S), Solves(A, g, S), Solves(A, h, T)
  PROVE  \A s \in SUBSET S : s \subseteq T => g[s] = h[s]
  <1> DEFINE F == {s \in SUBSET S : s \subseteq T => g[s] = h[s]}
  <1>1. ASSUME NEW s \in SUBSET S, \A u \in SUBSET s : u # s => u \in F PROVE s \in F
    <2> SUFFICES ASSUME s \subseteq T PROVE g[s] = h[s]
      OBVIOUS
    <2>1. CASE s = {}
      BY <2>1, SolvesAt
    <2>2. CASE s # {}
      <3> DEFINE x == Pick(s)
      <3>1. x \in s /\ s \ {x} # s
        BY <2>2, PickIn
      <3>2. g[s] = A[x] + g[s \ {x}] /\ h[s] = A[x] + h[s \ {x}]
        BY <2>2, SolvesAt
      <3>3. s \ {x} \in F
        BY <1>1, <3>1
      <3> QED
        BY <3>2, <3>3
    <2> QED
      BY <2>1, <2>2
  <1> HIDE DEF F
  <1>2. SUBSET S \subseteq F
    BY <1>1, SubsetInduction
  <1> QED
    BY <1>2 DEF F

LEMMA SolvedEver ==
  ASSUME NEW A, NEW S, IsFiniteSet(S)
  PROVE  \E g : Solves(A, g, S)
  <1> DEFINE F == {T \in SUBSET S : \E g : Solves(A, g, T)}
  <1>1. ASSUME NEW T \in SUBSET S, \A u \in SUBSET T : u # T => u \in F PROVE T \in F
    <2> DEFINE G(u) == CHOOSE g : Solves(A, g, u)
               x == Pick(T)
               V == [s \in SUBSET T |-> IF s = {} THEN 0
                                        ELSE IF s = T THEN A[x] + G(T \ {x})[T \ {x}]
                                        ELSE G(s)[s]]
    <2>1. ASSUME NEW u \in SUBSET T, u # T PROVE Solves(A, G(u), u) /\ IsFiniteSet(u)
      <3>1. \E g : Solves(A, g, u)
        BY <1>1, <2>1
      <3>2. Solves(A, G(u), u)
        BY <3>1
      <3>3. IsFiniteSet(u)
        BY FS_Subset
      <3> QED
        BY <3>2, <3>3
    <2> HIDE DEF G
    <2>2. ASSUME NEW s \in SUBSET T PROVE V[s] = Body(A, V, s)
      <3>1. CASE s = {}
        BY <3>1 DEF Body
      <3>2. CASE s # {} /\ s = T
        <4>1. x \in T /\ T \ {x} # T /\ T \ {x} \in SUBSET T
          BY <3>2, PickIn
        <4>2. V[T] = A[x] + G(T \ {x})[T \ {x}]
          BY <3>2
        <4>3. V[T \ {x}] = G(T \ {x})[T \ {x}]
          <5>1. T \ {x} = {} => G(T \ {x})[T \ {x}] = 0
            BY <2>1, <4>1, SolvesAt
          <5> QED
            BY <4>1, <5>1
        <4> QED
          BY <3>2, <4>2, <4>3 DEF Body
      <3>3. CASE s # {} /\ s # T
        <4> DEFINE y == Pick(s)
        <4>1. y \in s /\ s \ {y} # s /\ s \ {y} \in SUBSET T /\ s \ {y} # T
          BY <3>3, PickIn
        <4>2. Solves(A, G(s), s) /\ Solves(A, G(s \ {y}), s \ {y}) /\ IsFiniteSet(s \ {y})
          BY <2>1, <3>3, <4>1
        <4>3. G(s)[s] = A[y] + G(s)[s \ {y}]
          BY <3>3, <4>2, SolvesAt
        <4>4. G(s \ {y})[s \ {y}] = G(s)[s \ {y}]
          BY <4>1, <4>2, SolvedOnce
        <4>5. V[s \ {y}] = G(s)[s \ {y}]
          <5>1. s \ {y} = {} => G(s)[s \ {y}] = 0
            BY <4>2, SolvesAt
          <5> QED
            BY <4>1, <4>4, <5>1
        <4>6. V[s] = G(s)[s]
          BY <3>3
        <4> HIDE DEF V
        <4> QED
          BY <3>3, <4>3, <4>5, <4>6 DEF Body
      <3> QED
        BY <3>1, <3>2, <3>3
    <2>3. Solves(A, V, T)
      <3>1. V = [s \in SUBSET T |-> V[s]]
        OBVIOUS
      <3> HIDE DEF V
      <3> QED
        BY <2>2, <3>1 DEF Solves
    <2> QED
      BY <2>3
  <1> HIDE DEF F
  <1>2. SUBSET S \subseteq F
    BY <1>1, SubsetInduction
  <1>3. S \in F
    BY <1>2
  <1> QED
    BY <1>3 DEF F

(* The sum, one term at a time. *)
LEMMA SumSteps ==
  ASSUME NEW A, NEW S, IsFiniteSet(S)
  PROVE  /\ SumFunctionOnSet(A, {}) = 0
         /\ S # {} => SumFunctionOnSet(A, S) = A[Pick(S)] + SumFunctionOnSet(A, S \ {Pick(S)})
  <1> DEFINE G(u) == CHOOSE g : Solves(A, g, u)
  <1>1. ASSUME NEW u, IsFiniteSet(u) PROVE Solves(A, G(u), u) /\ SumFunctionOnSet(A, u) = G(u)[u]
    <2>1. \E g : Solves(A, g, u)
      BY <1>1, SolvedEver
    <2>2. Solves(A, G(u), u)
      BY <2>1
    <2> QED
      BY <2>2, Unfold
  <1> HIDE DEF G
  <1>2. IsFiniteSet({})
    BY FS_EmptySet
  <1>3. SumFunctionOnSet(A, {}) = 0
    BY <1>1, <1>2, SolvesAt
  <1>4. ASSUME S # {}
        PROVE  SumFunctionOnSet(A, S) = A[Pick(S)] + SumFunctionOnSet(A, S \ {Pick(S)})
    <2> DEFINE T == S \ {Pick(S)}
    <2>1. IsFiniteSet(T) /\ T \subseteq S
      BY FS_Subset
    <2>2. Solves(A, G(S), S) /\ Solves(A, G(T), T)
      BY <1>1, <2>1
    <2>3. G(T)[T] = G(S)[T]
      BY <2>1, <2>2, SolvedOnce
    <2>4. G(S)[S] = A[Pick(S)] + G(S)[T]
      BY <1>4, <2>2, SolvesAt
    <2> QED
      BY <1>1, <2>1, <2>3, <2>4
  <1> QED
    BY <1>3, <1>4

LEMMA SumEmpty == \A A : SumFunctionOnSet(A, {}) = 0
  <1>1. IsFiniteSet({})
    BY FS_EmptySet
  <1> QED
    BY <1>1, SumSteps

LEMMA SumType ==
  ASSUME NEW A, NEW S, IsFiniteSet(S), \A x \in S : A[x] \in Nat
  PROVE  SumFunctionOnSet(A, S) \in Nat
  <1> DEFINE F == {s \in SUBSET S : SumFunctionOnSet(A, s) \in Nat}
  <1>1. ASSUME NEW s \in SUBSET S, \A u \in SUBSET s : u # s => u \in F PROVE s \in F
    <2>1. IsFiniteSet(s)
      BY FS_Subset
    <2>2. CASE s = {}
      BY <2>2, SumEmpty
    <2>3. CASE s # {}
      <3> DEFINE x == Pick(s)
      <3>1. x \in s /\ s \ {x} # s
        BY <2>3, PickIn
      <3>2. SumFunctionOnSet(A, s \ {x}) \in Nat
        BY <1>1, <3>1
      <3>3. A[x] \in Nat
        BY <3>1
      <3>4. SumFunctionOnSet(A, s) = A[x] + SumFunctionOnSet(A, s \ {x})
        BY <2>1, <2>3, SumSteps
      <3> HIDE DEF x
      <3> QED
        BY <3>2, <3>3, <3>4
    <2> QED
      BY <2>2, <2>3
  <1> HIDE DEF F
  <1>2. SUBSET S \subseteq F
    BY <1>1, SubsetInduction
  <1> QED
    BY <1>2 DEF F

LEMMA SumZero ==
  ASSUME NEW A, NEW S, IsFiniteSet(S), \A x \in S : A[x] = 0
  PROVE  SumFunctionOnSet(A, S) = 0
  <1> DEFINE F == {s \in SUBSET S : SumFunctionOnSet(A, s) = 0}
  <1>1. ASSUME NEW s \in SUBSET S, \A u \in SUBSET s : u # s => u \in F PROVE s \in F
    <2>1. IsFiniteSet(s)
      BY FS_Subset
    <2>2. CASE s = {}
      BY <2>2, SumEmpty
    <2>3. CASE s # {}
      <3> DEFINE x == Pick(s)
      <3>1. x \in s /\ s \ {x} # s
        BY <2>3, PickIn
      <3>2. SumFunctionOnSet(A, s \ {x}) = 0 /\ A[x] = 0
        BY <1>1, <3>1
      <3>3. SumFunctionOnSet(A, s) = A[x] + SumFunctionOnSet(A, s \ {x})
        BY <2>1, <2>3, SumSteps
      <3> HIDE DEF x
      <3> QED
        BY <3>2, <3>3
    <2> QED
      BY <2>2, <2>3
  <1> HIDE DEF F
  <1>2. SUBSET S \subseteq F
    BY <1>1, SubsetInduction
  <1> QED
    BY <1>2 DEF F

(* The order of the sum does not matter. *)
LEMMA SumAny ==
  ASSUME NEW A, NEW S, IsFiniteSet(S), \A x \in S : A[x] \in Nat
  PROVE  \A x \in S : SumFunctionOnSet(A, S) = A[x] + SumFunctionOnSet(A, S \ {x})
  <1> DEFINE Sum(s) == SumFunctionOnSet(A, s)
             F == {s \in SUBSET S : \A x \in s : Sum(s) = A[x] + Sum(s \ {x})}
  <1>0. ASSUME NEW s \in SUBSET S PROVE IsFiniteSet(s) /\ Sum(s) \in Nat
    <2>1. IsFiniteSet(s)
      BY FS_Subset
    <2> QED
      BY <2>1, SumType
  <1>1. ASSUME NEW s \in SUBSET S, \A u \in SUBSET s : u # s => u \in F PROVE s \in F
    <2> SUFFICES ASSUME NEW x \in s PROVE Sum(s) = A[x] + Sum(s \ {x})
      OBVIOUS
    <2> DEFINE c == Pick(s)
    <2>1. c \in s
      BY PickIn
    <2>2. Sum(s) = A[c] + Sum(s \ {c})
      BY <1>0, SumSteps
    <2>3. CASE x = c
      BY <2>2, <2>3
    <2>4. CASE x # c
      <3>1. s \ {c} \in F /\ s \ {x} \in F
        <4>1. s \ {c} # s /\ s \ {x} # s
          BY <2>1
        <4> QED
          BY <1>1, <4>1
      <3>2. x \in s \ {c} /\ c \in s \ {x} /\ (s \ {c}) \ {x} = (s \ {x}) \ {c}
        BY <2>1, <2>4
      <3>3. Sum(s \ {c}) = A[x] + Sum((s \ {x}) \ {c})
        BY <3>1, <3>2
      <3>4. Sum(s \ {x}) = A[c] + Sum((s \ {x}) \ {c})
        BY <3>1, <3>2
      <3>5. A[x] \in Nat /\ A[c] \in Nat /\ Sum((s \ {x}) \ {c}) \in Nat
        BY <1>0, <2>1
      <3> HIDE DEF Sum, c
      <3> QED
        BY <2>2, <3>3, <3>4, <3>5
    <2> QED
      BY <2>3, <2>4
  <1> HIDE DEF F
  <1>2. SUBSET S \subseteq F
    BY <1>1, SubsetInduction
  <1> QED
    BY <1>2 DEF F

(* A sum of fewer and smaller terms is smaller. *)
LEMMA SumLeq ==
  ASSUME NEW A, NEW B, NEW S, NEW T \in SUBSET S, IsFiniteSet(S), \A x \in S : B[x] \in Nat,
         \A x \in T : A[x] \in Nat /\ A[x] <= B[x]
  PROVE  SumFunctionOnSet(A, T) <= SumFunctionOnSet(B, S)
  <1> DEFINE F == {s \in SUBSET S : SumFunctionOnSet(A, s \intersect T) <= SumFunctionOnSet(B, s)}
  <1>1. ASSUME NEW s \in SUBSET S, \A u \in SUBSET s : u # s => u \in F PROVE s \in F
    <2>1. IsFiniteSet(s) /\ IsFiniteSet(s \intersect T)
      BY FS_Subset
    <2>2. CASE s = {}
      <3>1. s \intersect T = {} /\ 0 <= 0
        BY <2>2
      <3> QED
        BY <2>2, <3>1, SumEmpty
    <2>3. CASE s # {}
      <3> DEFINE x == Pick(s)
                 r == s \ {x}
                 a == SumFunctionOnSet(A, s \intersect T)
                 b == SumFunctionOnSet(B, s)
                 c == SumFunctionOnSet(A, r \intersect T)
                 d == SumFunctionOnSet(B, r)
      <3>1. x \in s /\ s \ {x} # s
        BY <2>3, PickIn
      <3>2. c <= d
        BY <1>1, <3>1
      <3>3. b = B[x] + d
        BY <2>1, <2>3, SumSteps
      <3>4. IsFiniteSet(r) /\ IsFiniteSet(r \intersect T)
        BY <2>1, FS_Subset
      <3>5. c \in Nat /\ d \in Nat /\ B[x] \in Nat
        BY <3>1, <3>4, SumType
      <3>6. CASE x \in T
        <4>1. (s \intersect T) \ {x} = r \intersect T /\ x \in s \intersect T
          BY <3>1, <3>6
        <4>2. a = A[x] + c
          BY <2>1, <4>1, SumAny
        <4>3. A[x] \in Nat /\ A[x] <= B[x]
          BY <3>6
        <4> HIDE DEF x, a, b, c, d
        <4>4. a <= b
          BY <3>2, <3>3, <3>5, <4>2, <4>3
        <4> QED
          BY <4>4 DEF a, b
      <3>7. CASE x \notin T
        <4>1. s \intersect T = r \intersect T
          BY <3>7
        <4>2. a = c
          BY <4>1
        <4> HIDE DEF x, a, b, c, d
        <4>4. a <= b
          BY <3>2, <3>3, <3>5, <4>2
        <4> QED
          BY <4>4 DEF a, b
      <3> QED
        BY <3>6, <3>7
    <2> QED
      BY <2>2, <2>3
  <1> HIDE DEF F
  <1>2. SUBSET S \subseteq F
    BY <1>1, SubsetInduction
  <1>3. S \in F /\ S \intersect T = T
    BY <1>2
  <1> QED
    BY <1>3 DEF F

(* One term changes. *)
LEMMA SumChange ==
  ASSUME NEW A, NEW B, NEW S, IsFiniteSet(S), NEW f \in S,
         \A x \in S : A[x] \in Nat /\ B[x] \in Nat, \A x \in S : x # f => A[x] = B[x]
  PROVE  /\ SumFunctionOnSet(A, S) \in Nat /\ SumFunctionOnSet(B, S) \in Nat
         /\ SumFunctionOnSet(A, S) + B[f] = SumFunctionOnSet(B, S) + A[f]
         /\ A[f] <= SumFunctionOnSet(A, S)
  <1> DEFINE T == S \ {f}
             a == SumFunctionOnSet(A, T)
             b == SumFunctionOnSet(B, T)
  <1>1. IsFiniteSet(T) /\ T \in SUBSET T /\ \A x \in T : A[x] = B[x] /\ A[x] \in Nat
    BY FS_Subset
  <1>2. a \in Nat /\ b \in Nat
    BY <1>1, SumType
  <1>3. a <= b /\ b <= a
    <2>1. \A x \in T : A[x] <= B[x] /\ B[x] <= A[x] /\ B[x] \in Nat
      BY <1>1
    <2> HIDE DEF T
    <2> QED
      BY <1>1, <2>1, SumLeq
  <1>4. SumFunctionOnSet(A, S) = A[f] + a /\ SumFunctionOnSet(B, S) = B[f] + b
    BY SumAny
  <1>5. A[f] \in Nat /\ B[f] \in Nat
    OBVIOUS
  <1> HIDE DEF a, b
  <1> QED
    BY <1>2, <1>3, <1>4, <1>5

-----------------------------------------------------------------------------
(* Induction over an interval. *)
LEMMA UpTo ==
  ASSUME NEW n \in Nat, NEW F, 0 \in F, \A k \in 0 .. n : k # n /\ k \in F => k + 1 \in F
  PROVE  0 .. n \subseteq F
  <1> DEFINE E == {T \in SUBSET (0 .. n) : \A k \in 0 .. n : T = 0 .. k => k \in F}
  <1>1. IsFiniteSet(0 .. n)
    BY FS_Interval
  <1>2. ASSUME NEW T \in SUBSET (0 .. n), \A U \in SUBSET T : U # T => U \in E PROVE T \in E
    <2> SUFFICES ASSUME NEW k \in 0 .. n, T = 0 .. k PROVE k \in F
      OBVIOUS
    <2>1. CASE k = 0
      BY <2>1
    <2>2. CASE k # 0
      <3>1. k - 1 \in 0 .. n /\ k - 1 # n /\ (k - 1) + 1 = k
        BY <2>2
      <3>2. 0 .. k - 1 \in SUBSET T /\ 0 .. k - 1 # T
        BY <2>2
      <3>3. k - 1 \in F
        BY <1>2, <3>1, <3>2
      <3> QED
        BY <3>1, <3>3
    <2> QED
      BY <2>1, <2>2
  <1> HIDE DEF E
  <1>3. SUBSET (0 .. n) \subseteq E
    <2> DEFINE I == 0 .. n
    <2>1. IsFiniteSet(I) /\ \A T \in SUBSET I : (\A U \in SUBSET T : U # T => U \in E) => T \in E
      BY <1>1, <1>2
    <2> HIDE DEF I
    <2>2. SUBSET I \subseteq E
      BY <2>1, SubsetInduction
    <2> QED
      BY <2>2 DEF I
  <1> QED
    <2> SUFFICES ASSUME NEW k \in 0 .. n PROVE k \in F
      OBVIOUS
    <2>1. 0 .. k \in E
      BY <1>3
    <2> QED
      BY <2>1 DEF E

(* Repeating a step n times from x: the values exist. *)
Iterated(S, x, n, step) ==
  \E g \in [0 .. n -> S] : g[0] = x /\ \A i \in 1 .. n : g[i] = step[i][g[i - 1]]

LEMMA Iteration ==
  ASSUME NEW S, NEW x \in S, NEW n \in Nat, NEW step \in [1 .. n -> [S -> S]]
  PROVE  Iterated(S, x, n, step)
  <1> DEFINE F == {k \in 0 .. n :
                     \E g \in [0 .. k -> S] : g[0] = x /\ \A i \in 1 .. k : g[i] = step[i][g[i - 1]]}
  <1>1. 0 \in F
    <2> DEFINE g == [i \in 0 .. 0 |-> x]
    <2>1. g \in [0 .. 0 -> S] /\ g[0] = x /\ 1 .. 0 = {}
      OBVIOUS
    <2> HIDE DEF g
    <2>2. \E g1 \in [0 .. 0 -> S] : g1[0] = x /\ \A i \in 1 .. 0 : g1[i] = step[i][g1[i - 1]]
      BY <2>1
    <2>3. 0 \in 0 .. n
      OBVIOUS
    <2> QED
      BY <2>2, <2>3
  <1>2. ASSUME NEW k \in 0 .. n, k # n, k \in F PROVE k + 1 \in F
    <2>1. PICK g \in [0 .. k -> S] : g[0] = x /\ \A i \in 1 .. k : g[i] = step[i][g[i - 1]]
      BY <1>2
    <2>2. k + 1 \in 1 .. n /\ g[k] \in S
      BY <1>2
    <2>3. step[k + 1][g[k]] \in S
      BY <2>2
    <2> DEFINE h == [i \in 0 .. k + 1 |-> IF i = k + 1 THEN step[k + 1][g[k]] ELSE g[i]]
    <2>4. h \in [0 .. k + 1 -> S] /\ h[0] = x /\ h[k + 1] = step[k + 1][g[k]]
      BY <2>1, <2>3
    <2>5. ASSUME NEW i \in 1 .. k + 1 PROVE h[i] = step[i][h[i - 1]]
      <3>1. CASE i = k + 1
        <4>1. h[i - 1] = g[k]
          BY <3>1
        <4> QED
          BY <2>4, <3>1, <4>1
      <3>2. CASE i # k + 1
        <4>1. i \in 1 .. k /\ h[i] = g[i] /\ h[i - 1] = g[i - 1]
          BY <3>2
        <4> QED
          BY <2>1, <4>1
      <3> QED
        BY <3>1, <3>2
    <2>6. k + 1 \in 0 .. n
      BY <2>2
    <2> HIDE DEF h
    <2> QED
      BY <2>4, <2>5, <2>6
  <1> HIDE DEF F
  <1>3. 0 .. n \subseteq F
    BY <1>1, <1>2, UpTo
  <1>4. n \in F
    BY <1>3
  <1> QED
    BY <1>4 DEF F, Iterated

(* A finite set of numbers that is not empty has a largest one. *)
LEMMA FiniteMax ==
  ASSUME NEW S \in SUBSET Nat, IsFiniteSet(S), S # {}
  PROVE  \E n \in S : \A m \in S : m <= n
  <1> DEFINE F == {T \in SUBSET S : T # {} => \E n \in T : \A m \in T : m <= n}
  <1>1. ASSUME NEW T \in SUBSET S, \A U \in SUBSET T : U # T => U \in F PROVE T \in F
    <2> SUFFICES ASSUME T # {} PROVE \E n \in T : \A m \in T : m <= n
      OBVIOUS
    <2>1. PICK x \in T : TRUE
      OBVIOUS
    <2> DEFINE U == T \ {x}
    <2>2. CASE U = {}
      <3>1. \A m \in T : m = x
        BY <2>2
      <3> QED
        BY <3>1
    <2>3. CASE U # {}
      <3>1. U \in F
        BY <1>1, <2>1
      <3>2. PICK n \in U : \A m \in U : m <= n
        BY <2>3, <3>1
      <3>3. n \in Nat /\ x \in Nat /\ n \in T
        OBVIOUS
      <3>4. CASE x <= n
        <4>1. \A m \in T : m <= n
          BY <3>2, <3>4
        <4> QED
          BY <3>3, <4>1
      <3>5. CASE ~(x <= n)
        <4>1. \A m \in T : m <= x
          BY <3>2, <3>3, <3>5
        <4> QED
          BY <4>1
      <3> QED
        BY <3>4, <3>5
    <2> QED
      BY <2>2, <2>3
  <1> HIDE DEF F
  <1>2. SUBSET S \subseteq F
    BY <1>1, SubsetInduction
  <1>3. S \in F
    BY <1>2
  <1> QED
    BY <1>3 DEF F

(* Two sequences of values that start and go on alike. *)
StepAlike(n, g, h) == \A i \in 1 .. n : g[i - 1] = h[i - 1] => g[i] = h[i]
Alike(n, g, h) == \A i \in 0 .. n : g[i] = h[i]

LEMMA SameIteration ==
  ASSUME NEW n \in Nat, NEW g, NEW h, g[0] = h[0], StepAlike(n, g, h)
  PROVE  Alike(n, g, h)
  <1> USE DEF StepAlike, Alike
  <1> DEFINE F == {i \in 0 .. n : g[i] = h[i]}
  <1>1. 0 \in F
    OBVIOUS
  <1>2. ASSUME NEW k \in 0 .. n, k # n, k \in F PROVE k + 1 \in F
    <2>1. k + 1 \in 1 .. n /\ k + 1 \in 0 .. n /\ (k + 1) - 1 = k
      BY <1>2
    <2>2. g[k + 1] = h[k + 1]
      BY <1>2, <2>1
    <2> QED
      BY <2>1, <2>2
  <1> HIDE DEF F
  <1>3. 0 .. n \subseteq F
    BY <1>1, <1>2, UpTo
  <1> QED
    BY <1>3 DEF F

(* What such values have in common. *)
LEMMA IterationIn ==
  ASSUME NEW n \in Nat, NEW g, NEW S, g[0] \in S, \A i \in 1 .. n : g[i - 1] \in S => g[i] \in S
  PROVE  \A i \in 0 .. n : g[i] \in S
  <1> DEFINE F == {i \in 0 .. n : g[i] \in S}
  <1>1. 0 \in F
    OBVIOUS
  <1>2. ASSUME NEW k \in 0 .. n, k # n, k \in F PROVE k + 1 \in F
    <2>1. k + 1 \in 1 .. n /\ k + 1 \in 0 .. n /\ (k + 1) - 1 = k
      BY <1>2
    <2>2. g[k + 1] \in S
      BY <1>2, <2>1
    <2> QED
      BY <2>1, <2>2
  <1> HIDE DEF F
  <1>3. 0 .. n \subseteq F
    BY <1>1, <1>2, UpTo
  <1> QED
    BY <1>3 DEF F

(* A sum depends on the terms at its places only. *)
LEMMA SumSame ==
  ASSUME NEW A, NEW B, NEW S, IsFiniteSet(S), \A x \in S : A[x] \in Nat /\ A[x] = B[x]
  PROVE  SumFunctionOnSet(A, S) = SumFunctionOnSet(B, S)
  <1>1. S \in SUBSET S /\ \A x \in S : B[x] \in Nat /\ A[x] <= B[x] /\ B[x] <= A[x]
    OBVIOUS
  <1>2. /\ SumFunctionOnSet(A, S) <= SumFunctionOnSet(B, S)
        /\ SumFunctionOnSet(B, S) <= SumFunctionOnSet(A, S)
    BY <1>1, SumLeq
  <1>3. SumFunctionOnSet(A, S) \in Nat /\ SumFunctionOnSet(B, S) \in Nat
    BY <1>1, SumType
  <1> QED
    BY <1>2, <1>3

(* A sum whose terms move by k places. *)
Translated(U, S, k) == \A y : y \in U <=> \E x \in S : y = x + k
TermsTranslated(A, B, S, k) == \A x \in S : B[x] \in Nat /\ A[x + k] = B[x]
LEMMA SumMoved ==
  ASSUME NEW A, NEW B, NEW S \in SUBSET Int, IsFiniteSet(S), NEW k \in Int,
         NEW U, Translated(U, S, k), TermsTranslated(A, B, S, k)
  PROVE  SumFunctionOnSet(A, U) = SumFunctionOnSet(B, S)
  <1> DEFINE Up(s) == {z + k : z \in s}
             F == {s \in SUBSET S : /\ SumFunctionOnSet(A, Up(s)) = SumFunctionOnSet(B, s)
                                    /\ IsFiniteSet(Up(s))}
  <1>0. \A x \in S : B[x] \in Nat /\ A[x + k] = B[x]
    BY DEF TermsTranslated
  <1>1. ASSUME NEW s \in SUBSET S, \A u \in SUBSET s : u # s => u \in F PROVE s \in F
    <2>1. IsFiniteSet(s)
      BY FS_Subset
    <2>2. CASE s = {}
      <3>1. Up(s) = {}
        BY <2>2
      <3> QED
        BY <2>2, <3>1, SumEmpty, FS_EmptySet
    <2>3. CASE s # {}
      <3>1. PICK x : x = Pick(s)
        OBVIOUS
      <3>2. x \in s /\ x \in Int /\ s \ {x} \in SUBSET s /\ s \ {x} # s
        BY <2>3, <3>1, PickIn
      <3>3. /\ SumFunctionOnSet(A, Up(s \ {x})) = SumFunctionOnSet(B, s \ {x})
            /\ IsFiniteSet(Up(s \ {x}))
        BY <1>1, <3>2
      <3>4. SumFunctionOnSet(B, s) = B[x] + SumFunctionOnSet(B, s \ {x})
        BY <2>1, <2>3, <3>1, SumSteps
      <3>5. PICK T, y : T = Up(s \ {x}) /\ y = x + k
        OBVIOUS
      <3>6. Up(s) = T \union {y} /\ y \notin T
        <4>1. \A z \in s : z \in Int
          OBVIOUS
        <4>2. \A z \in s : z + k = x + k => z = x
          BY <3>2, <4>1
        <4> QED
          BY <3>2, <3>5, <4>2
      <3>7. \A z \in Up(s) : A[z] \in Nat
        BY <1>0
      <3>8. A[y] = B[x]
        BY <1>0, <3>2, <3>5
      <3> HIDE DEF Up
      <3>9. IsFiniteSet(Up(s))
        <4>1. IsFiniteSet(T)
          BY <3>3, <3>5
        <4>2. IsFiniteSet(T \union {y})
          BY <4>1, FS_AddElement
        <4> QED
          BY <3>6, <4>2
      <3>10. Up(s) \ {y} = T /\ y \in Up(s)
        BY <3>6
      <3>11. SumFunctionOnSet(A, Up(s)) = A[y] + SumFunctionOnSet(A, Up(s) \ {y})
        BY <3>7, <3>9, <3>10, SumAny
      <3>12. SumFunctionOnSet(A, Up(s)) = SumFunctionOnSet(B, s)
        BY <3>3, <3>4, <3>5, <3>8, <3>10, <3>11
      <3> QED
        BY <3>9, <3>12
    <2> QED
      BY <2>2, <2>3
  <1>2. U = Up(S)
    BY DEF Translated
  <1> HIDE DEF F, Up
  <1>3. SUBSET S \subseteq F
    BY <1>1, SubsetInduction
  <1> QED
    BY <1>2, <1>3 DEF F

LEMMA SumShift ==
  ASSUME NEW A, NEW B, NEW S \in SUBSET Int, IsFiniteSet(S),
         \A x \in S : B[x] \in Nat /\ A[x + 1] = B[x]
  PROVE  SumFunctionOnSet(A, {x + 1 : x \in S}) = SumFunctionOnSet(B, S)
  <1> DEFINE U == {x + 1 : x \in S}
  <1>1. Translated(U, S, 1) /\ TermsTranslated(A, B, S, 1)
    BY DEF Translated, TermsTranslated
  <1> HIDE DEF U
  <1>2. SumFunctionOnSet(A, U) = SumFunctionOnSet(B, S)
    BY <1>1, SumMoved
  <1> QED
    BY <1>2 DEF U

(* The sum of what two sets have apart. *)
LEMMA SumUnion ==
  ASSUME NEW A, NEW S, NEW T, IsFiniteSet(S), IsFiniteSet(T), S \intersect T = {},
         \A x \in S \union T : A[x] \in Nat
  PROVE  SumFunctionOnSet(A, S \union T) = SumFunctionOnSet(A, S) + SumFunctionOnSet(A, T)
  <1> DEFINE F == {s \in SUBSET S : /\ IsFiniteSet(s \union T)
                                    /\ SumFunctionOnSet(A, s \union T) =
                                          SumFunctionOnSet(A, s) + SumFunctionOnSet(A, T)}
  <1>1. ASSUME NEW s \in SUBSET S, \A u \in SUBSET s : u # s => u \in F PROVE s \in F
    <2>1. IsFiniteSet(s) /\ SumFunctionOnSet(A, T) \in Nat
      BY FS_Subset, SumType
    <2>2. CASE s = {}
      <3>1. s \union T = T
        BY <2>2
      <3> QED
        BY <2>1, <2>2, <3>1, SumEmpty
    <2>3. CASE s # {}
      <3>1. PICK x : x = Pick(s)
        OBVIOUS
      <3>2. x \in s /\ x \notin T /\ s \ {x} \in SUBSET s /\ s \ {x} # s
        BY <2>3, <3>1, PickIn
      <3>3. PICK u, v : u = s \ {x} /\ v = s \union T
        OBVIOUS
      <3>4. /\ IsFiniteSet(u \union T)
            /\ SumFunctionOnSet(A, u \union T) = SumFunctionOnSet(A, u) + SumFunctionOnSet(A, T)
        BY <1>1, <3>2, <3>3
      <3>5. SumFunctionOnSet(A, s) = A[x] + SumFunctionOnSet(A, u)
        BY <2>1, <2>3, <3>1, <3>3, SumSteps
      <3>6. v = (u \union T) \union {x} /\ v \ {x} = u \union T /\ x \in v
        BY <3>2, <3>3
      <3>7. IsFiniteSet(v)
        BY <3>4, <3>6, FS_AddElement
      <3>8. \A z \in v : A[z] \in Nat
        BY <3>3
      <3>9. SumFunctionOnSet(A, v) = A[x] + SumFunctionOnSet(A, v \ {x})
        BY <3>6, <3>7, <3>8, SumAny
      <3>10. A[x] \in Nat /\ SumFunctionOnSet(A, u) \in Nat
        <4>1. IsFiniteSet(u) /\ \A z \in u : A[z] \in Nat
          BY <2>1, <3>3, FS_Subset
        <4> QED
          BY <3>2, <4>1, SumType
      <3>11. SumFunctionOnSet(A, v) = SumFunctionOnSet(A, s) + SumFunctionOnSet(A, T)
        BY <2>1, <3>4, <3>5, <3>6, <3>9, <3>10
      <3> QED
        BY <3>3, <3>7, <3>11
    <2> QED
      BY <2>2, <2>3
  <1> HIDE DEF F
  <1>2. SUBSET S \subseteq F
    BY <1>1, SubsetInduction
  <1> QED
    BY <1>2 DEF F

(* A set of numbers that has one has a least one. *)
LEMMA FiniteMin ==
  ASSUME NEW S \in SUBSET Nat, IsFiniteSet(S), S # {}
  PROVE  \E n \in S : \A m \in S : n <= m
  <1>1. PICK b \in S : \A m \in S : m <= b
    BY FiniteMax
  <1> DEFINE T == {b - m : m \in S}
  <1>2. T \in SUBSET Nat /\ T # {} /\ T \subseteq 0 .. b
    BY <1>1
  <1>3. IsFiniteSet(T)
    <2>1. IsFiniteSet(0 .. b)
      BY FS_Interval
    <2> HIDE DEF T
    <2> QED
      BY <1>2, <2>1, FS_Subset
  <1>4. PICK t \in T : \A m \in T : m <= t
    BY <1>2, <1>3, FiniteMax
  <1>5. PICK n \in S : t = b - n
    BY <1>4
  <1>6. ASSUME NEW m \in S PROVE n <= m
    <2>1. b - m <= b - n
      BY <1>4, <1>5
    <2> QED
      BY <2>1, <1>1
  <1> QED
    BY <1>5, <1>6
=============================================================================
