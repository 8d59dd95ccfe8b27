------------------------------ MODULE FiniteSums ------------------------------
(***************************************************************************)
(* Induction without an operator as a parameter: to show a claim of every  *)
(* number, or of every subset of a finite set, look at the least one it    *)
(* fails for. With it, sums over finite sets: the fold of the community    *)
(* modules is a recursive function over the subsets of a set; that there   *)
(* is such a function, and what it returns, follows in this way.           *)
(***************************************************************************)
EXTENDS Integers, FiniteSets, Functions, FiniteSetTheorems, WellFoundedInduction, TLAPS

\* A set of naturals that is not empty has a least element.
LEMMA LeastOfNat ==
  ASSUME NEW T \in SUBSET Nat, T # {}
  PROVE  \E x \in T : \A y \in T : x <= y
  <1> DEFINE R == OpToRel(<, Nat)
  <1>1. IsWellFoundedOn(R, Nat)
    BY NatLessThanWellFounded
  <1>2. PICK x \in T : \A y \in T : ~ (<<y, x>> \in R)
    <2> HIDE DEF R
    <2> QED
      BY <1>1, WFMin
  <1>3. \A y \in T : ~(y < x)
    <2> SUFFICES ASSUME NEW y \in T, y < x PROVE FALSE
      OBVIOUS
    <2>1. <<y, x>> \in R
      BY DEF OpToRel
    <2> QED
      BY <2>1, <1>2
  <1> QED
    BY <1>3

\* The element a fold takes next.
Pick(s) == CHOOSE x \in s : TRUE

\* The recursion: g sums f over each subset of S.
SumAt(f, g, s) == IF s = {} THEN 0 ELSE f[Pick(s)] + g[s \ {Pick(s)}]
SumsUp(f, S, g) == g = [s \in SUBSET S |-> SumAt(f, g, s)]

\* A fold of the elements of a function is the recursion at its whole domain.
LEMMA FoldIsSum ==
  ASSUME NEW f
  PROVE  SumFunction(f) = (CHOOSE g : SumsUp(f, DOMAIN f, g))[DOMAIN f]
  BY DEF SumFunction, SumFunctionOnSet, FoldFunctionOnSet, MapThenFoldSet, SumsUp, SumAt, Pick

LEMMA PickIsMember ==
  ASSUME NEW s, s # {}
  PROVE  Pick(s) \in s
  BY DEF Pick

\* Without its picked element a finite set is one smaller.
LEMMA PickLeavesLess ==
  ASSUME NEW S, IsFiniteSet(S), NEW s \in SUBSET S, s # {}
  PROVE  /\ Pick(s) \in s
         /\ s \ {Pick(s)} \in SUBSET S
         /\ Cardinality(s) \in Nat /\ Cardinality(s \ {Pick(s)}) \in Nat
         /\ Cardinality(s \ {Pick(s)}) = Cardinality(s) - 1
  <1>1. IsFiniteSet(s) /\ Pick(s) \in s
    BY FS_Subset, PickIsMember
  <1>2. IsFiniteSet(s \ {Pick(s)}) /\ Cardinality(s \ {Pick(s)}) = Cardinality(s) - 1
    BY <1>1, FS_RemoveElement
  <1> QED
    BY <1>1, <1>2, FS_CardinalityType

\* To show a claim of every subset of a finite set, look at a smallest subset it fails.
LEMMA SmallestSubset ==
  ASSUME NEW S, IsFiniteSet(S), NEW C \in SUBSET (SUBSET S), C # {}
  PROVE  \E s \in C : /\ s # {} => s \ {Pick(s)} \notin C
                      /\ Cardinality(s) \in Nat
  <1> DEFINE T == {n \in Nat : \E s \in C : Cardinality(s) = n}
  <1>1. \A s \in C : Cardinality(s) \in Nat
    BY FS_Subset, FS_CardinalityType
  <1>2. T \in SUBSET Nat /\ T # {}
    BY <1>1
  <1>3. PICK n \in T : \A k \in T : n <= k
    <2> HIDE DEF T
    <2> QED BY <1>2, LeastOfNat
  <1>4. PICK s \in C : Cardinality(s) = n
    BY <1>3
  <1>5. ASSUME s # {}, s \ {Pick(s)} \in C PROVE FALSE
    <2>1. Cardinality(s \ {Pick(s)}) = n - 1 /\ n - 1 \in Nat
      BY <1>4, <1>5, PickLeavesLess
    <2>2. n - 1 \in T /\ n \in Nat
      BY <2>1, <1>5
    <2> HIDE DEF T
    <2> QED BY <2>1, <2>2, <1>3
  <1> QED
    BY <1>1, <1>4, <1>5

SumsUpTo(f, S, g, n) ==
    \A s \in SUBSET S : Cardinality(s) <= n => g[s] = SumAt(f, g, s)

\* The recursion has a solution on the subsets of any size.
LEMMA SumToSize ==
  ASSUME NEW S, IsFiniteSet(S), NEW f, NEW n \in Nat
  PROVE  \E g : SumsUpTo(f, S, g, n)
  <1> DEFINE T == {k \in Nat : ~ \E g : SumsUpTo(f, S, g, k)}
  <1> SUFFICES ASSUME T # {} PROVE FALSE
    OBVIOUS
  <1>1. PICK k \in T : \A j \in T : k <= j
    <2> HIDE DEF T
    <2>1. T \in SUBSET Nat
      BY DEF T
    <2> QED BY <2>1, LeastOfNat
  <1>2. \A s \in SUBSET S : Cardinality(s) \in Nat /\ (Cardinality(s) = 0 <=> s = {})
    BY FS_Subset, FS_CardinalityType, FS_EmptySet
  <1>3. CASE k = 0
    <2> DEFINE g == [s \in SUBSET S |-> 0]
    <2>1. SumsUpTo(f, S, g, 0)
      BY <1>2 DEF SumsUpTo, SumAt
    <2> QED BY <2>1, <1>3, <1>1
  <1>4. CASE k # 0
    <2>1. k - 1 \in Nat /\ k - 1 \notin T
      BY <1>1, <1>4
    <2>2. PICK g : SumsUpTo(f, S, g, k - 1)
      BY <2>1
    <2> DEFINE h == [s \in SUBSET S |->
                       IF Cardinality(s) <= k - 1 THEN g[s] ELSE SumAt(f, g, s)]
    <2>3. ASSUME NEW s \in SUBSET S, Cardinality(s) <= k
          PROVE  h[s] = SumAt(f, h, s)
      <3>1. h[s] = SumAt(f, g, s)
        BY <2>2 DEF SumsUpTo
      <3>2. CASE s = {}
        BY <3>1, <3>2 DEF SumAt
      <3>3. CASE s # {}
        <4>1. /\ s \ {Pick(s)} \in SUBSET S
              /\ Cardinality(s) \in Nat
              /\ Cardinality(s \ {Pick(s)}) = Cardinality(s) - 1
          BY <3>3, PickLeavesLess
        <4>2. Cardinality(s \ {Pick(s)}) <= k - 1
          BY <4>1, <2>3, <1>1
        <4>3. h[s \ {Pick(s)}] = g[s \ {Pick(s)}]
          BY <4>1, <4>2
        <4> HIDE DEF h
        <4> QED BY <3>1, <3>3, <4>3 DEF SumAt
      <3> QED BY <3>2, <3>3
    <2>4. SumsUpTo(f, S, h, k)
      <3> HIDE DEF h
      <3> QED BY <2>3 DEF SumsUpTo
    <2> QED BY <2>4, <1>1
  <1> QED BY <1>3, <1>4

\* The recursion over the subsets of a finite set has a solution.
LEMMA SumExists ==
  ASSUME NEW S, IsFiniteSet(S), NEW f
  PROVE  \E g : SumsUp(f, S, g)
  <1>1. Cardinality(S) \in Nat
    BY FS_CardinalityType
  <1>2. PICK g : SumsUpTo(f, S, g, Cardinality(S))
    BY <1>1, SumToSize
  <1>3. \A s \in SUBSET S : Cardinality(s) <= Cardinality(S)
    BY FS_Subset
  <1>4. \A s \in SUBSET S : g[s] = SumAt(f, g, s)
    BY <1>2, <1>3 DEF SumsUpTo
  <1> DEFINE h == [s \in SUBSET S |-> g[s]]
  <1>5. \A s \in SUBSET S : SumAt(f, h, s) = SumAt(f, g, s)
    <2> TAKE s \in SUBSET S
    <2>1. s # {} => s \ {Pick(s)} \in SUBSET S
      OBVIOUS
    <2>2. s # {} => h[s \ {Pick(s)}] = g[s \ {Pick(s)}]
      BY <2>1
    <2> HIDE DEF h
    <2> QED BY <2>2 DEF SumAt
  <1>6. SumsUp(f, S, h)
    BY <1>4, <1>5 DEF SumsUp
  <1> QED BY <1>6

\* What a fold of a function returns: a solution of the recursion, at the whole domain.
LEMMA FoldSumsUp ==
  ASSUME NEW f, IsFiniteSet(DOMAIN f)
  PROVE  \E g : /\ \A s \in SUBSET DOMAIN f : g[s] = SumAt(f, g, s)
                /\ SumFunction(f) = g[DOMAIN f]
  <1> DEFINE g == CHOOSE g : SumsUp(f, DOMAIN f, g)
  <1>1. SumsUp(f, DOMAIN f, g)
    BY SumExists
  <1>2. SumFunction(f) = g[DOMAIN f]
    BY FoldIsSum
  <1> HIDE DEF g
  <1>3. \A s \in SUBSET DOMAIN f : g[s] = SumAt(f, g, s)
    BY <1>1 DEF SumsUp
  <1> QED BY <1>2, <1>3

-----------------------------------------------------------------------------
(* Sums of naturals *)

\* Every partial sum of naturals is a natural.
LEMMA PartialSums ==
  ASSUME NEW S, IsFiniteSet(S), NEW f \in [S -> Nat],
         NEW g, \A s \in SUBSET S : g[s] = SumAt(f, g, s)
  PROVE  \A s \in SUBSET S : g[s] \in Nat
  <1> DEFINE C == {s \in SUBSET S : g[s] \notin Nat}
  <1> SUFFICES ASSUME C # {} PROVE FALSE
    OBVIOUS
  <1>1. PICK s \in C : s # {} => s \ {Pick(s)} \notin C
    <2> HIDE DEF C
    <2>1. C \in SUBSET (SUBSET S)
      BY DEF C
    <2> QED BY <2>1, SmallestSubset
  <1>4. g[s] = SumAt(f, g, s) /\ g[s] \notin Nat
    OBVIOUS
  <1>2. CASE s = {}
    <2> HIDE DEF C
    <2> QED BY <1>2, <1>4 DEF SumAt
  <1>3. CASE s # {}
    <2>1. Pick(s) \in S /\ g[s \ {Pick(s)}] \in Nat
      BY <1>1, <1>3, PickIsMember
    <2> HIDE DEF C
    <2> QED BY <2>1, <1>3, <1>4 DEF SumAt
  <1> QED BY <1>2, <1>3

\* A sum of naturals is a natural.
LEMMA SumType ==
  ASSUME NEW S, IsFiniteSet(S), NEW f \in [S -> Nat]
  PROVE  SumFunction(f) \in Nat
  <1>1. DOMAIN f = S
    OBVIOUS
  <1>2. PICK g : /\ \A s \in SUBSET S : g[s] = SumAt(f, g, s)
                 /\ SumFunction(f) = g[S]
    BY <1>1, FoldSumsUp
  <1>3. g[S] \in Nat
    BY <1>2, PartialSums
  <1> QED BY <1>2, <1>3

\* A sum of nothing but zeros is zero.
LEMMA SumOfZeros ==
  ASSUME NEW S, IsFiniteSet(S), NEW f \in [S -> Nat], \A x \in S : f[x] = 0
  PROVE  SumFunction(f) = 0
  <1>1. DOMAIN f = S
    OBVIOUS
  <1>2. PICK g : /\ \A s \in SUBSET S : g[s] = SumAt(f, g, s)
                 /\ SumFunction(f) = g[S]
    BY <1>1, FoldSumsUp
  <1> DEFINE C == {s \in SUBSET S : g[s] # 0}
  <1> SUFFICES ASSUME C # {} PROVE FALSE
    BY <1>2
  <1>3. PICK s \in C : s # {} => s \ {Pick(s)} \notin C
    <2> HIDE DEF C
    <2>1. C \in SUBSET (SUBSET S)
      BY DEF C
    <2> QED BY <2>1, SmallestSubset
  <1>4. s # {} => Pick(s) \in S /\ g[s \ {Pick(s)}] = 0
    BY <1>3, PickIsMember
  <1>5. g[s] = SumAt(f, g, s) /\ g[s] # 0
    BY <1>2
  <1> HIDE DEF C
  <1> QED BY <1>4, <1>5 DEF SumAt

\* Two functions that differ in one element have sums that differ by as much.
LEMMA SumOfChanged ==
  ASSUME NEW S, IsFiniteSet(S), NEW f \in [S -> Nat], NEW h \in [S -> Nat],
         NEW x \in S, \A y \in S \ {x} : h[y] = f[y]
  PROVE  SumFunction(h) = SumFunction(f) + h[x] - f[x]
  <1>1. DOMAIN f = S /\ DOMAIN h = S
    OBVIOUS
  <1>2. PICK g : /\ \A s \in SUBSET S : g[s] = SumAt(f, g, s)
                 /\ SumFunction(f) = g[S]
    BY <1>1, FoldSumsUp
  <1>3. PICK k : /\ \A s \in SUBSET S : k[s] = SumAt(h, k, s)
                 /\ SumFunction(h) = k[S]
    BY <1>1, FoldSumsUp
  <1>4. \A s \in SUBSET S : g[s] \in Nat /\ k[s] \in Nat
    BY <1>2, <1>3, PartialSums
  <1> DEFINE Gain(s) == IF x \in s THEN h[x] - f[x] ELSE 0
             C == {s \in SUBSET S : k[s] # g[s] + Gain(s)}
  <1> SUFFICES ASSUME C # {} PROVE FALSE
    BY <1>2, <1>3, <1>4
  <1>5. PICK s \in C : s # {} => s \ {Pick(s)} \notin C
    <2> HIDE DEF C
    <2>1. C \in SUBSET (SUBSET S)
      BY DEF C
    <2> QED BY <2>1, SmallestSubset
  <1>6. CASE s = {}
    <2>1. k[s] = SumAt(h, k, s) /\ g[s] = SumAt(f, g, s)
      BY <1>2, <1>3
    <2>2. k[s] = 0 /\ g[s] = 0 /\ Gain(s) = 0
      BY <2>1, <1>6 DEF SumAt
    <2>3. k[s] # g[s] + Gain(s)
      BY <1>5
    <2> HIDE DEF Gain, C
    <2> QED BY <2>2, <2>3
  <1>7. CASE s # {}
    <2> DEFINE p == Pick(s)
               r == s \ {p}
    <2>1. p \in s /\ p \in S /\ r \in SUBSET S /\ r \notin C
      BY <1>5, <1>7, PickIsMember
    <2>2. k[r] = g[r] + Gain(r)
      BY <2>1
    <2>3. k[s] = h[p] + k[r] /\ g[s] = f[p] + g[r]
      BY <1>2, <1>3, <1>7 DEF SumAt
    <2>4. k[s] # g[s] + Gain(s)
      BY <1>5
    <2>5. /\ h[p] \in Nat /\ f[p] \in Nat /\ h[x] \in Nat /\ f[x] \in Nat
          /\ g[r] \in Nat
      BY <2>1, <1>4
    <2>6. CASE p = x
      <3>1. Gain(r) = 0 /\ Gain(s) = h[p] - f[p]
        BY <2>1, <2>6
      <3> HIDE DEF p, r, Gain
      <3> QED BY <3>1, <2>2, <2>3, <2>4, <2>5
    <2>7. CASE p # x
      <3>1. Gain(r) = Gain(s) /\ h[p] = f[p] /\ Gain(s) \in Int
        BY <2>1, <2>5, <2>7
      <3> HIDE DEF p, r, Gain
      <3> QED BY <3>1, <2>2, <2>3, <2>4, <2>5
    <2> QED BY <2>6, <2>7
  <1> QED BY <1>6, <1>7

\* A summand is at most the sum.
LEMMA SummandWithinSum ==
  ASSUME NEW S, IsFiniteSet(S), NEW f \in [S -> Nat], NEW x \in S
  PROVE  f[x] <= SumFunction(f)
  <1> DEFINE h == [f EXCEPT ![x] = 0]
  <1>1. h \in [S -> Nat] /\ h[x] = 0 /\ \A y \in S \ {x} : h[y] = f[y]
    OBVIOUS
  <1> HIDE DEF h
  <1>2. SumFunction(h) = SumFunction(f) + h[x] - f[x]
    BY <1>1, SumOfChanged
  <1>3. SumFunction(h) \in Nat /\ SumFunction(f) \in Nat /\ f[x] \in Nat
    BY <1>1, SumType
  <1> QED BY <1>1, <1>2, <1>3
=============================================================================
