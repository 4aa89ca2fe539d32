------------------------------ MODULE NatFacts ------------------------------
(* Facts about natural numbers and sums that the proofs share.  What holds *)
(* of every size is shown by the least size at which it would fail.        *)
EXTENDS Integers, FiniteSetTheorems, FiniteSetsExt, WellFoundedInduction, TLAPS

(* A set of natural numbers that is not empty has a least member. *)
LEMMA NatHasLeast ==
    ASSUME NEW T, T \subseteq Nat, T # {}
    PROVE  \E x \in T : \A y \in T : x <= y
  <1> DEFINE Less == OpToRel(<, Nat)
  <1>1. IsWellFoundedOn(Less, Nat)
    BY NatLessThanWellFounded
  <1>2. \A x, y \in Nat : y < x => <<y, x>> \in Less
    BY Zenon DEF OpToRel
  <1> HIDE DEF Less
  <1>3. PICK x \in T : \A y \in T : ~(<<y, x>> \in Less)
    BY <1>1, WFMin
  <1>4. \A y \in T : y \in Nat /\ x \in Nat /\ ~(y < x)
    BY <1>2, <1>3
  <1> QED BY <1>4

---------------------------------------------------------------------------
(* What SumFunctionOnSet computes for the subset s when g holds the sums   *)
(* of the smaller ones: it takes an element out and adds up the rest.      *)
Pick(s) == CHOOSE x \in s : TRUE
SumAt(f, g, s) == IF s = {} THEN 0 ELSE f[Pick(s)] + g[s \ {Pick(s)}]
SumTable(f, S) == CHOOSE g : g = [s \in SUBSET S |-> SumAt(f, g, s)]

LEMMA SumIsTable ==
    ASSUME NEW f, NEW S
    PROVE  SumFunctionOnSet(f, S) = SumTable(f, S)[S]
  BY DEF SumFunctionOnSet, FoldFunctionOnSet, MapThenFoldSet, SumTable, SumAt, Pick

(* Taking out an element makes a finite set smaller. *)
LEMMA PickSmaller ==
    ASSUME NEW S, IsFiniteSet(S), NEW s \in SUBSET S, s # {}
    PROVE  /\ Pick(s) \in s
           /\ s \ {Pick(s)} \in SUBSET S
           /\ Cardinality(s) \in Nat /\ Cardinality(s \ {Pick(s)}) \in Nat
           /\ Cardinality(s \ {Pick(s)}) = Cardinality(s) - 1
  <1>1. Pick(s) \in s
    BY DEF Pick
  <1>2. IsFiniteSet(s)
    BY FS_Subset
  <1>3. IsFiniteSet(s \ {Pick(s)}) /\ Cardinality(s \ {Pick(s)}) = Cardinality(s) - 1
    BY <1>1, <1>2, FS_RemoveElement
  <1>4. Cardinality(s) \in Nat /\ Cardinality(s \ {Pick(s)}) \in Nat
    BY <1>2, <1>3, FS_CardinalityType
  <1> QED BY <1>1, <1>3, <1>4

SmallSubsets(S, n) == {s \in SUBSET S : Cardinality(s) <= n}

(* The sums of all small subsets can be tabulated, however large "small"   *)
(* is: the least size for which they could not follows one that can.       *)
LEMMA SmallSums ==
    ASSUME NEW S, IsFiniteSet(S), NEW f \in [S -> Int], NEW n \in Nat
    PROVE  \E g \in [SmallSubsets(S, n) -> Int] :
              \A s \in SmallSubsets(S, n) : g[s] = SumAt(f, g, s)
  <1> DEFINE Tabulates(k) == \E g \in [SmallSubsets(S, k) -> Int] :
                                \A s \in SmallSubsets(S, k) : g[s] = SumAt(f, g, s)
             T == {k \in Nat : ~Tabulates(k)}
  <1>1. SUFFICES ASSUME T # {} PROVE FALSE
    OBVIOUS
  <1>2. PICK k \in T : \A j \in T : k <= j
    BY <1>1, NatHasLeast
  <1>3. Tabulates(0)
    <2> DEFINE g == [s \in SmallSubsets(S, 0) |-> 0]
    <2>1. \A s \in SmallSubsets(S, 0) : s = {}
      <3> SUFFICES ASSUME NEW s \in SmallSubsets(S, 0) PROVE s = {}
        OBVIOUS
      <3>1. s \in SUBSET S /\ Cardinality(s) <= 0
        BY DEF SmallSubsets
      <3>2. IsFiniteSet(s)
        BY <3>1, FS_Subset
      <3>3. Cardinality(s) \in Nat
        BY <3>2, FS_CardinalityType
      <3>4. Cardinality(s) = 0
        BY <3>1, <3>3
      <3> QED BY <3>2, <3>4, FS_EmptySet
    <2>2. g \in [SmallSubsets(S, 0) -> Int] /\ \A s \in SmallSubsets(S, 0) : g[s] = SumAt(f, g, s)
      BY <2>1 DEF SumAt
    <2> QED BY <2>2
  <1>4. k - 1 \in Nat /\ Tabulates(k - 1)
    <2>1. k \in Nat /\ k # 0
      BY <1>3
    <2>2. k - 1 \in Nat /\ ~(k <= k - 1)
      BY <2>1
    <2>3. k - 1 \notin T
      BY <1>2, <2>2
    <2> QED BY <2>2, <2>3
  <1>5. PICK g \in [SmallSubsets(S, k - 1) -> Int] :
           \A s \in SmallSubsets(S, k - 1) : g[s] = SumAt(f, g, s)
    BY <1>4
  <1> DEFINE h == [s \in SmallSubsets(S, k) |-> SumAt(f, g, s)]
  <1>6. \A s \in SmallSubsets(S, k) :
           s # {} => Pick(s) \in S /\ s \ {Pick(s)} \in SmallSubsets(S, k - 1)
    <2> SUFFICES ASSUME NEW s \in SmallSubsets(S, k), s # {}
                 PROVE  Pick(s) \in S /\ s \ {Pick(s)} \in SmallSubsets(S, k - 1)
      OBVIOUS
    <2>1. s \in SUBSET S /\ Cardinality(s) <= k /\ k \in Nat
      BY <1>2 DEF SmallSubsets
    <2>2. /\ Pick(s) \in s
          /\ s \ {Pick(s)} \in SUBSET S
          /\ Cardinality(s) \in Nat /\ Cardinality(s \ {Pick(s)}) \in Nat
          /\ Cardinality(s \ {Pick(s)}) = Cardinality(s) - 1
      BY <2>1, PickSmaller
    <2>3. Cardinality(s \ {Pick(s)}) <= k - 1
      BY <2>1, <2>2
    <2> QED BY <2>1, <2>2, <2>3 DEF SmallSubsets
  <1>7. \A s \in SmallSubsets(S, k) : SumAt(f, g, s) \in Int
    BY <1>6 DEF SumAt
  <1>8. h \in [SmallSubsets(S, k) -> Int]
    BY <1>7
  <1>9. \A s \in SmallSubsets(S, k - 1) : s \in SmallSubsets(S, k) /\ h[s] = g[s]
    <2>1. \A s \in SmallSubsets(S, k - 1) : s \in SmallSubsets(S, k)
      <3> SUFFICES ASSUME NEW s \in SmallSubsets(S, k - 1) PROVE s \in SmallSubsets(S, k)
        OBVIOUS
      <3>1. s \in SUBSET S /\ Cardinality(s) <= k - 1 /\ k \in Nat
        BY <1>2 DEF SmallSubsets
      <3>2. IsFiniteSet(s)
        BY <3>1, FS_Subset
      <3>3. Cardinality(s) \in Nat
        BY <3>2, FS_CardinalityType
      <3>4. Cardinality(s) <= k
        BY <3>1, <3>3
      <3> QED BY <3>1, <3>4 DEF SmallSubsets
    <2> QED BY <1>5, <2>1
  <1>10. \A s \in SmallSubsets(S, k) : h[s] = SumAt(f, h, s)
    BY <1>6, <1>9 DEF SumAt
  <1>11. Tabulates(k)
    BY <1>8, <1>10
  <1> QED BY <1>2, <1>11

(* So the table exists, and it is one of integers. *)
LEMMA SumTableWorks ==
    ASSUME NEW S, IsFiniteSet(S), NEW f \in [S -> Int]
    PROVE  /\ SumTable(f, S) \in [SUBSET S -> Int]
           /\ \A s \in SUBSET S : SumTable(f, S)[s] = SumAt(f, SumTable(f, S), s)
  <1>1. Cardinality(S) \in Nat
    BY FS_CardinalityType
  <1>2. SmallSubsets(S, Cardinality(S)) = SUBSET S
    BY FS_Subset DEF SmallSubsets
  <1>3. PICK g \in [SUBSET S -> Int] : \A s \in SUBSET S : g[s] = SumAt(f, g, s)
    <2>1. \E g \in [SmallSubsets(S, Cardinality(S)) -> Int] :
             \A s \in SmallSubsets(S, Cardinality(S)) : g[s] = SumAt(f, g, s)
      BY <1>1, SmallSums
    <2> QED BY <1>2, <2>1
  <1>4. g = [s \in SUBSET S |-> SumAt(f, g, s)]
    BY <1>3
  <1> DEFINE t == SumTable(f, S)
  <1>5. t = [s \in SUBSET S |-> SumAt(f, t, s)]
    BY <1>4 DEF SumTable
  <1> HIDE DEF t
  <1>6. \A s \in SUBSET S : t[s] = SumAt(f, t, s)
    BY <1>5
  <1> DEFINE T == {k \in Nat : \E s \in SUBSET S : Cardinality(s) = k /\ t[s] \notin Int}
  <1>7. T = {}
    <2> SUFFICES ASSUME T # {} PROVE FALSE
      OBVIOUS
    <2>1. PICK k \in T : \A j \in T : k <= j
      BY NatHasLeast
    <2>2. PICK s \in SUBSET S : Cardinality(s) = k /\ t[s] \notin Int
      BY <2>1
    <2>3. s # {}
      <3>1. SumAt(f, t, {}) = 0
        BY DEF SumAt
      <3>2. t[{}] = 0
        BY <1>6, <3>1
      <3>3. t[{}] \in Int
        BY <3>2
      <3> QED BY <2>2, <3>3
    <2>4. /\ Pick(s) \in S /\ s \ {Pick(s)} \in SUBSET S
          /\ Cardinality(s \ {Pick(s)}) \in Nat /\ k \in Nat
          /\ Cardinality(s \ {Pick(s)}) = k - 1
      BY <2>1, <2>2, <2>3, PickSmaller
    <2>5. t[s] = f[Pick(s)] + t[s \ {Pick(s)}]
      BY <1>6, <2>3 DEF SumAt
    <2>6. t[s \ {Pick(s)}] \notin Int
      BY <2>2, <2>4, <2>5
    <2>7. k - 1 \in T
      BY <2>4, <2>6
    <2> QED BY <2>1, <2>4, <2>7
  <1>8. \A s \in SUBSET S : t[s] \in Int
    <2> SUFFICES ASSUME NEW s \in SUBSET S, t[s] \notin Int PROVE FALSE
      OBVIOUS
    <2>1. IsFiniteSet(s)
      BY FS_Subset
    <2>2. Cardinality(s) \in Nat
      BY <2>1, FS_CardinalityType
    <2> QED BY <1>7, <2>2
  <1>9. t \in [SUBSET S -> Int]
    BY <1>5, <1>8
  <1> QED BY <1>6, <1>9 DEF t

(* Two functions that differ at a differ there in the sums of the sets     *)
(* that a belongs to.                                                      *)
LEMMA SumTablesDiffer ==
    ASSUME NEW S, IsFiniteSet(S), NEW f \in [S -> Int], NEW g \in [S -> Int], NEW a \in S,
           \A x \in S : x # a => g[x] = f[x], NEW s \in SUBSET S
    PROVE  SumTable(g, S)[s] = SumTable(f, S)[s] + (IF a \in s THEN g[a] - f[a] ELSE 0)
  <1> DEFINE tf == SumTable(f, S)
             tg == SumTable(g, S)
             Differ(u) == tg[u] = tf[u] + (IF a \in u THEN g[a] - f[a] ELSE 0)
             T == {k \in Nat : \E u \in SUBSET S : Cardinality(u) = k /\ ~Differ(u)}
  <1>1. /\ tf \in [SUBSET S -> Int] /\ \A u \in SUBSET S : tf[u] = SumAt(f, tf, u)
        /\ tg \in [SUBSET S -> Int] /\ \A u \in SUBSET S : tg[u] = SumAt(g, tg, u)
    BY SumTableWorks
  <1> HIDE DEF tf, tg
  <1>2. T = {}
    <2> SUFFICES ASSUME T # {} PROVE FALSE
      OBVIOUS
    <2>1. PICK k \in T : \A j \in T : k <= j
      BY NatHasLeast
    <2>2. PICK u \in SUBSET S : Cardinality(u) = k /\ ~Differ(u)
      BY <2>1
    <2>3. u # {}
      <3>1. SumAt(f, tf, {}) = 0 /\ SumAt(g, tg, {}) = 0
        BY DEF SumAt
      <3>2. tf[{}] = 0 /\ tg[{}] = 0
        BY <1>1, <3>1
      <3>3. Differ({})
        BY <3>2
      <3> QED BY <2>2, <3>3
    <2> DEFINE x == Pick(u)
               v == u \ {x}
    <2>4. /\ x \in u /\ x \in S /\ v \in SUBSET S
          /\ Cardinality(v) \in Nat /\ k \in Nat /\ Cardinality(v) = k - 1
      BY <2>1, <2>2, <2>3, PickSmaller
    <2>5. tf[u] = f[x] + tf[v] /\ tg[u] = g[x] + tg[v]
      BY <1>1, <2>3 DEF SumAt
    <2>6. Differ(v)
      BY <2>1, <2>4
    <2>7. a \in u <=> x = a \/ a \in v
      BY <2>4
    <2>8. x = a => a \notin v
      OBVIOUS
    <2> HIDE DEF x, v
    <2>9. /\ f[x] \in Int /\ g[x] \in Int /\ f[a] \in Int /\ g[a] \in Int
          /\ tf[v] \in Int /\ tg[v] \in Int
      BY <1>1, <2>4
    <2>10. Differ(u)
      <3>1. CASE x = a
        BY <2>5, <2>6, <2>7, <2>8, <2>9, <3>1
      <3>2. CASE x # a
        <4>1. g[x] = f[x]
          BY <2>4, <3>2
        <4> QED BY <2>5, <2>6, <2>7, <2>9, <3>2, <4>1
      <3> QED BY <3>1, <3>2
    <2> QED BY <2>2, <2>10
  <1>3. IsFiniteSet(s)
    BY FS_Subset
  <1>4. Cardinality(s) \in Nat
    BY <1>3, FS_CardinalityType
  <1>5. Differ(s)
    BY <1>2, <1>4
  <1> QED BY <1>5 DEF tf, tg

(* What the sum of a function over its domain does when one entry changes. *)
LEMMA SumChanges ==
    ASSUME NEW S, IsFiniteSet(S), NEW f \in [S -> Int], NEW g \in [S -> Int], NEW a \in S,
           \A x \in S : x # a => g[x] = f[x]
    PROVE  SumFunction(g) = SumFunction(f) + g[a] - f[a]
  <1>1. SumTable(g, S)[S] = SumTable(f, S)[S] + (g[a] - f[a])
    BY SumTablesDiffer
  <1>2. SumFunction(f) = SumTable(f, S)[S] /\ SumFunction(g) = SumTable(g, S)[S]
    BY SumIsTable DEF SumFunction
  <1>3. SumTable(f, S)[S] \in Int /\ g[a] \in Int /\ f[a] \in Int
    <2>1. SumTable(f, S) \in [SUBSET S -> Int] /\ S \in SUBSET S
      BY SumTableWorks
    <2> QED BY <2>1
  <1> QED BY <1>1, <1>2, <1>3

LEMMA SumIsInt ==
    ASSUME NEW S, IsFiniteSet(S), NEW f \in [S -> Int]
    PROVE  SumFunction(f) \in Int
  <1>1. SumTable(f, S)[S] \in Int
    <2>1. SumTable(f, S) \in [SUBSET S -> Int] /\ S \in SUBSET S
      BY SumTableWorks
    <2> QED BY <2>1
  <1> QED BY <1>1, SumIsTable DEF SumFunction
(* Nothing adds up to nothing. *)
LEMMA SumOfZeros ==
    ASSUME NEW S, IsFiniteSet(S)
    PROVE  SumFunction([x \in S |-> 0]) = 0
  <1> DEFINE f == [x \in S |-> 0]
             t == SumTable(f, S)
             T == {k \in Nat : \E u \in SUBSET S : Cardinality(u) = k /\ t[u] # 0}
  <1>1. f \in [S -> Int] /\ \A x \in S : f[x] = 0
    OBVIOUS
  <1>2. \A u \in SUBSET S : t[u] = SumAt(f, t, u)
    BY <1>1, SumTableWorks
  <1>3. SumFunction(f) = t[S]
    BY SumIsTable DEF SumFunction
  <1> HIDE DEF f, t
  <1>4. T = {}
    <2> SUFFICES ASSUME T # {} PROVE FALSE
      OBVIOUS
    <2>1. PICK k \in T : \A j \in T : k <= j
      BY NatHasLeast
    <2>2. PICK u \in SUBSET S : Cardinality(u) = k /\ t[u] # 0
      BY <2>1
    <2>3. u # {}
      <3>1. SumAt(f, t, {}) = 0
        BY DEF SumAt
      <3>2. t[{}] = 0
        BY <1>2, <3>1
      <3> QED BY <2>2, <3>2
    <2>4. /\ Pick(u) \in S /\ u \ {Pick(u)} \in SUBSET S
          /\ Cardinality(u \ {Pick(u)}) \in Nat /\ k \in Nat
          /\ Cardinality(u \ {Pick(u)}) = k - 1
      BY <2>1, <2>2, <2>3, PickSmaller
    <2>5. t[u] = f[Pick(u)] + t[u \ {Pick(u)}]
      BY <1>2, <2>3 DEF SumAt
    <2>6. t[u \ {Pick(u)}] = 0
      BY <2>1, <2>4
    <2> QED BY <1>1, <2>2, <2>4, <2>5, <2>6
  <1>5. Cardinality(S) \in Nat /\ S \in SUBSET S
    BY FS_CardinalityType
  <1>6. t[S] = 0
    BY <1>4, <1>5
  <1> QED BY <1>3, <1>6 DEF f

(* Naturals add up to a natural number, which none of them exceeds. *)
LEMMA SumIsNat ==
    ASSUME NEW S, IsFiniteSet(S), NEW f \in [S -> Nat]
    PROVE  SumFunction(f) \in Nat
  <1> DEFINE t == SumTable(f, S)
             T == {k \in Nat : \E u \in SUBSET S : Cardinality(u) = k /\ t[u] \notin Nat}
  <1>1. \A u \in SUBSET S : t[u] = SumAt(f, t, u)
    <2>1. f \in [S -> Int]
      OBVIOUS
    <2> QED BY <2>1, SumTableWorks
  <1>2. SumFunction(f) = t[S]
    BY SumIsTable DEF SumFunction
  <1> HIDE DEF t
  <1>3. T = {}
    <2> SUFFICES ASSUME T # {} PROVE FALSE
      OBVIOUS
    <2>1. PICK k \in T : \A j \in T : k <= j
      BY NatHasLeast
    <2>2. PICK u \in SUBSET S : Cardinality(u) = k /\ t[u] \notin Nat
      BY <2>1
    <2>3. u # {}
      <3>1. SumAt(f, t, {}) = 0
        BY DEF SumAt
      <3>2. t[{}] = 0
        BY <1>1, <3>1
      <3>3. t[{}] \in Nat
        BY <3>2
      <3> QED BY <2>2, <3>3
    <2>4. /\ Pick(u) \in S /\ u \ {Pick(u)} \in SUBSET S
          /\ Cardinality(u \ {Pick(u)}) \in Nat /\ k \in Nat
          /\ Cardinality(u \ {Pick(u)}) = k - 1
      BY <2>1, <2>2, <2>3, PickSmaller
    <2>5. t[u] = f[Pick(u)] + t[u \ {Pick(u)}]
      BY <1>1, <2>3 DEF SumAt
    <2>6. t[u \ {Pick(u)}] \in Nat
      BY <2>1, <2>4
    <2> QED BY <2>2, <2>4, <2>5, <2>6
  <1>4. Cardinality(S) \in Nat /\ S \in SUBSET S
    BY FS_CardinalityType
  <1> QED BY <1>2, <1>3, <1>4

LEMMA SumExceedsNone ==
    ASSUME NEW S, IsFiniteSet(S), NEW f \in [S -> Nat], NEW a \in S
    PROVE  f[a] <= SumFunction(f)
  <1> DEFINE g == [f EXCEPT ![a] = 0]
  <1>1. g \in [S -> Nat] /\ g[a] = 0 /\ \A x \in S : x # a => g[x] = f[x]
    OBVIOUS
  <1> HIDE DEF g
  <1>2. f \in [S -> Int] /\ g \in [S -> Int]
    BY <1>1
  <1>3. SumFunction(g) = SumFunction(f) + g[a] - f[a]
    BY <1>1, <1>2, SumChanges
  <1>4. SumFunction(g) \in Nat /\ SumFunction(f) \in Nat /\ f[a] \in Nat
    BY <1>1, SumIsNat
  <1> QED BY <1>1, <1>3, <1>4

---------------------------------------------------------------------------
(* Every member of S with every member of the set that F gives to it.      *)
Pairs(S, F) == {p \in S \X UNION {F[x] : x \in S} : p[2] \in F[p[1]]}

LEMMA PairsAre ==
    ASSUME NEW S, NEW F
    PROVE  /\ \A p \in Pairs(S, F) : p = <<p[1], p[2]>> /\ p[1] \in S /\ p[2] \in F[p[1]]
           /\ \A x \in S : \A y \in F[x] : <<x, y>> \in Pairs(S, F)
  BY DEF Pairs

LEMMA PairsAreFinite ==
    ASSUME NEW S, IsFiniteSet(S), NEW F, \A x \in S : IsFiniteSet(F[x])
    PROVE  IsFiniteSet(Pairs(S, F))
  <1> DEFINE R == {F[x] : x \in S}
             f == [x \in S |-> F[x]]
  <1>1. f \in Surjection(S, R)
    BY DEF Surjection
  <1>2. IsFiniteSet(R)
    BY <1>1, FS_Surjection
  <1>3. IsFiniteSet(UNION R)
    BY <1>2, FS_UNION
  <1>4. IsFiniteSet(S \X UNION R)
    BY <1>3, FS_Product
  <1>5. Pairs(S, F) \in SUBSET (S \X UNION R)
    BY DEF Pairs
  <1> QED BY <1>4, <1>5, FS_Subset

(* The pairs of one more first component. *)
LEMMA PairsGrow ==
    ASSUME NEW S, IsFiniteSet(S), NEW F, \A x \in S : IsFiniteSet(F[x]), NEW u \in SUBSET S, NEW x \in u
    PROVE  /\ Cardinality({p \in Pairs(S, F) : p[1] \in u})
              = Cardinality(F[x]) + Cardinality({p \in Pairs(S, F) : p[1] \in u \ {x}})
           /\ Cardinality(F[x]) \in Nat /\ Cardinality({p \in Pairs(S, F) : p[1] \in u \ {x}}) \in Nat
  <1> DEFINE P == Pairs(S, F)
             A == {x} \X F[x]
             B == {p \in P : p[1] \in u \ {x}}
  <1>1. IsFiniteSet(F[x]) /\ IsFiniteSet({x}) /\ Cardinality({x}) = 1 /\ Cardinality(F[x]) \in Nat
    BY FS_Singleton, FS_CardinalityType
  <1>2. IsFiniteSet(A) /\ Cardinality(A) = Cardinality({x}) * Cardinality(F[x])
    BY <1>1, FS_Product
  <1>3. Cardinality(A) = Cardinality(F[x])
    BY <1>1, <1>2
  <1>4. IsFiniteSet(P)
    BY PairsAreFinite
  <1>5. IsFiniteSet(B)
    <2>1. B \in SUBSET P
      OBVIOUS
    <2> QED BY <1>4, <2>1, FS_Subset
  <1>6. Cardinality(B) \in Nat
    BY <1>5, FS_CardinalityType
  <1>7. A \cap B = {}
    OBVIOUS
  <1>8. {p \in P : p[1] \in u} = A \cup B
    BY DEF Pairs
  <1>9. Cardinality(A \cup B) = Cardinality(A) + Cardinality(B) - Cardinality(A \cap B)
    BY <1>2, <1>5, FS_Union
  <1>10. Cardinality(A \cap B) = 0
    BY <1>7, FS_EmptySet
  <1>11. Cardinality(A \cup B) = Cardinality(F[x]) + Cardinality(B)
    <2> HIDE DEF A, B
    <2> QED BY <1>1, <1>3, <1>6, <1>9, <1>10
  <1>12. Cardinality({p \in P : p[1] \in u}) = Cardinality(F[x]) + Cardinality(B)
    BY <1>8, <1>11, Zenon
  <1> QED BY <1>1, <1>6, <1>12

(* The sizes of sets add up to the number of pairs of a set and a member. *)
LEMMA SizesAddUp ==
    ASSUME NEW S, IsFiniteSet(S), NEW F, \A x \in S : IsFiniteSet(F[x])
    PROVE  SumFunction([x \in S |-> Cardinality(F[x])]) = Cardinality(Pairs(S, F))
  <1> DEFINE f == [x \in S |-> Cardinality(F[x])]
             t == SumTable(f, S)
             P == Pairs(S, F)
             In(u) == {p \in P : p[1] \in u}
             T == {k \in Nat : \E u \in SUBSET S : Cardinality(u) = k /\ t[u] # Cardinality(In(u))}
  <1>1. f \in [S -> Int] /\ \A x \in S : f[x] = Cardinality(F[x])
    BY FS_CardinalityType
  <1>2. \A u \in SUBSET S : t[u] = SumAt(f, t, u)
    BY <1>1, SumTableWorks
  <1>3. SumFunction(f) = t[S]
    BY SumIsTable DEF SumFunction
  <1>4. \A u \in SUBSET S : \A x \in u :
           Cardinality(In(u)) = Cardinality(F[x]) + Cardinality(In(u \ {x}))
    BY PairsGrow
  <1>5. In({}) = {} /\ In(S) = P
    BY DEF Pairs
  <1> HIDE DEF f, t, P, In
  <1>6. T = {}
    <2> SUFFICES ASSUME T # {} PROVE FALSE
      OBVIOUS
    <2>1. PICK k \in T : \A j \in T : k <= j
      BY NatHasLeast
    <2>2. PICK u \in SUBSET S : Cardinality(u) = k /\ t[u] # Cardinality(In(u))
      BY <2>1
    <2>3. u # {}
      <3>1. SumAt(f, t, {}) = 0
        BY DEF SumAt
      <3>2. t[{}] = 0
        BY <1>2, <3>1
      <3>3. Cardinality(In({})) = 0
        BY <1>5, FS_EmptySet
      <3> QED BY <2>2, <3>2, <3>3
    <2>4. /\ Pick(u) \in u /\ u \ {Pick(u)} \in SUBSET S
          /\ Cardinality(u \ {Pick(u)}) \in Nat /\ k \in Nat
          /\ Cardinality(u \ {Pick(u)}) = k - 1
      BY <2>1, <2>2, <2>3, PickSmaller
    <2>5. t[u] = f[Pick(u)] + t[u \ {Pick(u)}]
      BY <1>2, <2>3 DEF SumAt
    <2>6. t[u \ {Pick(u)}] = Cardinality(In(u \ {Pick(u)}))
      BY <2>1, <2>4
    <2>7. f[Pick(u)] = Cardinality(F[Pick(u)])
      BY <1>1, <2>4
    <2> QED BY <1>4, <2>2, <2>4, <2>5, <2>6, <2>7
  <1>7. Cardinality(S) \in Nat /\ S \in SUBSET S
    BY FS_CardinalityType
  <1>8. t[S] = Cardinality(In(S))
    BY <1>6, <1>7
  <1> QED BY <1>3, <1>5, <1>8 DEF f, P
=============================================================================
