---------------------------- MODULE Game_proofs -----------------------------
(***************************************************************************)
(* Theorems about the passive tree, for every number of requests and every *)
(* plan, draft, progress and opening tree, and about the turn battles, for  *)
(* every line-up and whatever the dice show.                                *)
(*                                                                          *)
(* What a trainer's nodes reach is the least set that holds the hub and the *)
(* owned neighbours of its members (ReachableIsClosed, ReachableIsLeast);   *)
(* that it is computed in as many steps as there are nodes does not matter, *)
(* as by then nothing is added any more.  All of isValidAllocation follows  *)
(* from these two.                                                          *)
(***************************************************************************)
EXTENDS Game, NatFacts, FiniteSetTheorems, TLAPS

(* What PassiveTree takes from the libraries is what the proofs take.      *)
LEMMA TreeSame ==
    /\ \A S : Tree!Cardinality(S) = Cardinality(S) /\ (Tree!IsFiniteSet(S) <=> IsFiniteSet(S))
    /\ \A f : Tree!SumFunction(f) = SumFunction(f)
  <1>1. \A S : Tree!Cardinality(S) = Cardinality(S)
    BY DEF Tree!Cardinality, Cardinality
  <1>2. \A S : Tree!IsFiniteSet(S) <=> IsFiniteSet(S)
    BY DEF Tree!IsFiniteSet, IsFiniteSet
  <1>3. \A f : Tree!SumFunction(f) = SumFunction(f)
    BY DEF Tree!SumFunction, SumFunction, Tree!SumFunctionOnSet, SumFunctionOnSet,
           Tree!FoldFunctionOnSet, FoldFunctionOnSet, Tree!MapThenFoldSet, MapThenFoldSet
  <1> QED BY <1>1, <1>2, <1>3

---------------------------------------------------------------------------
(* What can be reached                                                      *)

Near(ids, S) == S \cup UNION {Tree!adj[n] \cap ids : n \in S}

(* The recursive function in Reachable *)
IsGrowth(g, from, ids, N) == g = [i \in 0..N |-> IF i = 0 THEN {from} ELSE Near(ids, g[i - 1])]
Growth(from, ids, N) == CHOOSE g : IsGrowth(g, from, ids, N)

LEMMA ReachableIsGrowth ==
    ASSUME NEW from, NEW ids
    PROVE  Tree!Reachable(from, ids) = Growth(from, ids, Cardinality(ids))[Cardinality(ids)]
  <1>1. Tree!Cardinality(ids) = Cardinality(ids)
    BY TreeSame
  <1> QED BY <1>1 DEF Tree!Reachable, Growth, IsGrowth, Near

(* It exists: the least number of steps for which it did not would follow  *)
(* one for which it does.                                                  *)
LEMMA GrowthExists ==
    ASSUME NEW from, NEW ids, NEW N \in Nat
    PROVE  \E g : IsGrowth(g, from, ids, N)
  <1> DEFINE Exists(m) == \E g : IsGrowth(g, from, ids, m)
             T == {m \in Nat : ~Exists(m)}
  <1>1. SUFFICES ASSUME T # {} PROVE FALSE
    OBVIOUS
  <1>2. PICK m \in T : \A j \in T : m <= j
    BY <1>1, NatHasLeast
  <1>3. Exists(0)
    <2> DEFINE g == [i \in 0..0 |-> {from}]
    <2>1. g = [i \in 0..0 |-> IF i = 0 THEN {from} ELSE Near(ids, g[i - 1])]
      OBVIOUS
    <2> QED BY <2>1 DEF IsGrowth
  <1> HIDE DEF Exists
  <1>4. m \in Nat \ {0} /\ m - 1 \in Nat /\ m - 1 \notin T
    BY <1>2, <1>3
  <1>5. PICK f : f = [i \in 0..(m - 1) |-> IF i = 0 THEN {from} ELSE Near(ids, f[i - 1])]
    BY <1>4 DEF Exists, IsGrowth
  <1> DEFINE g == [i \in 0..m |-> IF i < m THEN f[i] ELSE Near(ids, f[m - 1])]
  <1>6. ASSUME NEW i \in 0..m PROVE g[i] = IF i = 0 THEN {from} ELSE Near(ids, g[i - 1])
    <2>1. CASE i = 0
      BY <1>4, <1>5, <2>1
    <2>2. CASE i # 0 /\ i < m
      <3>1. i \in 0..(m - 1) /\ i - 1 \in 0..m /\ i - 1 < m
        BY <1>4, <2>2
      <3>2. f[i] = Near(ids, f[i - 1])
        BY <1>5, <2>2, <3>1
      <3>3. g[i] = f[i] /\ g[i - 1] = f[i - 1]
        BY <2>2, <3>1
      <3> HIDE DEF g
      <3> QED BY <2>2, <3>2, <3>3
    <2>3. CASE i = m
      <3>1. m - 1 \in 0..m /\ m - 1 < m /\ m \in 0..m /\ ~(m < m)
        BY <1>4
      <3>2. g[m - 1] = f[m - 1] /\ g[m] = Near(ids, f[m - 1])
        BY <3>1
      <3> HIDE DEF g
      <3> QED BY <1>4, <2>3, <3>2
    <2> QED BY <1>4, <2>1, <2>2, <2>3
  <1>7. g = [i \in 0..m |-> IF i = 0 THEN {from} ELSE Near(ids, g[i - 1])]
    BY Zenon, <1>6
  <1>8. Exists(m)
    BY <1>7 DEF Exists, IsGrowth
  <1> QED BY <1>2, <1>8

LEMMA GrowthSteps ==
    ASSUME NEW from, NEW ids, NEW N \in Nat
    PROVE  /\ Growth(from, ids, N)[0] = {from}
           /\ \A i \in 1..N : Growth(from, ids, N)[i] = Near(ids, Growth(from, ids, N)[i - 1])
  <1> DEFINE g == Growth(from, ids, N)
  <1>1. IsGrowth(g, from, ids, N)
    BY Zenon, GrowthExists DEF Growth
  <1> HIDE DEF g
  <1>2. g = [i \in 0..N |-> IF i = 0 THEN {from} ELSE Near(ids, g[i - 1])]
    BY <1>1 DEF IsGrowth
  <1>3. ASSUME NEW i \in 0..N PROVE g[i] = IF i = 0 THEN {from} ELSE Near(ids, g[i - 1])
    BY Zenon, <1>2
  <1>4. 0 \in 0..N /\ \A i \in 1..N : i \in 0..N /\ i # 0
    OBVIOUS
  <1>5. g[0] = {from} /\ \A i \in 1..N : g[i] = Near(ids, g[i - 1])
    BY <1>3, <1>4
  <1> QED BY <1>5 DEF g

(* Each step holds what the one before held, and nothing else than the     *)
(* beginning and what is owned.                                            *)
LEMMA GrowthBounds ==
    ASSUME NEW from, NEW ids, NEW N \in Nat, NEW i \in 0..N
    PROVE  from \in Growth(from, ids, N)[i] /\ Growth(from, ids, N)[i] \subseteq {from} \cup ids
  <1> DEFINE g == Growth(from, ids, N)
             T == {j \in 0..N : ~(from \in g[j] /\ g[j] \subseteq {from} \cup ids)}
  <1>1. g[0] = {from} /\ \A j \in 1..N : g[j] = Near(ids, g[j - 1])
    BY GrowthSteps
  <1> HIDE DEF g
  <1>2. SUFFICES ASSUME T # {} PROVE FALSE
    BY DEF g
  <1>3. PICK j \in T : \A k \in T : j <= k
    <2>1. T \subseteq Nat
      OBVIOUS
    <2> HIDE DEF T
    <2> QED BY <1>2, <2>1, NatHasLeast
  <1>4. j \in 1..N /\ j - 1 \in 0..N /\ j - 1 \notin T
    BY <1>1, <1>3
  <1>5. from \in g[j - 1] /\ g[j - 1] \subseteq {from} \cup ids
    BY <1>4
  <1>6. g[j] = Near(ids, g[j - 1])
    BY <1>1, <1>4
  <1>7. from \in g[j] /\ g[j] \subseteq {from} \cup ids
    BY <1>5, <1>6 DEF Near
  <1> QED BY <1>3, <1>7

(* As long as something is added, there are as many as steps. *)
LEMMA GrowthCounts ==
    ASSUME NEW from, NEW ids, IsFiniteSet(ids), NEW N \in Nat, NEW i \in 0..N,
           \A j \in 0..N : j < i => Growth(from, ids, N)[j] # Near(ids, Growth(from, ids, N)[j])
    PROVE  Cardinality(Growth(from, ids, N)[i]) >= i + 1
  <1> DEFINE g == Growth(from, ids, N)
             T == {j \in 0..N : j <= i /\ ~(Cardinality(g[j]) >= j + 1)}
  <1>1. g[0] = {from} /\ \A j \in 1..N : g[j] = Near(ids, g[j - 1])
    BY GrowthSteps
  <1>2. \A j \in 0..N : IsFiniteSet(g[j]) /\ Cardinality(g[j]) \in Nat
    <2> TAKE j \in 0..N
    <2>1. IsFiniteSet({from} \cup ids)
      BY FS_Union, FS_Singleton
    <2>2. g[j] \subseteq {from} \cup ids
      BY GrowthBounds
    <2> HIDE DEF g
    <2>3. IsFiniteSet(g[j])
      BY <2>1, <2>2, FS_Subset
    <2> QED BY <2>3, FS_CardinalityType
  <1>3. \A j \in 0..N : j < i => g[j] # Near(ids, g[j])
    OBVIOUS
  <1> HIDE DEF g
  <1>4. SUFFICES ASSUME T # {} PROVE FALSE
    BY DEF g
  <1>5. PICK j \in T : \A k \in T : j <= k
    <2>1. T \subseteq Nat
      OBVIOUS
    <2> HIDE DEF T
    <2> QED BY <1>4, <2>1, NatHasLeast
  <1>6. Cardinality(g[0]) = 1
    BY <1>1, FS_Singleton
  <1>7. j \in 1..N /\ j <= i /\ j - 1 \in 0..N /\ j - 1 < i /\ j - 1 \notin T
    BY <1>5, <1>6
  <1>8. g[j] = Near(ids, g[j - 1]) /\ g[j - 1] # g[j]
    BY <1>1, <1>3, <1>7
  <1>9. g[j - 1] \subseteq g[j] /\ g[j - 1] # g[j]
    BY <1>8 DEF Near
  <1>10. Cardinality(g[j - 1]) < Cardinality(g[j])
    <2>1. j \in 0..N
      BY <1>7
    <2>2. IsFiniteSet(g[j])
      BY <1>2, <2>1
    <2>3. /\ Cardinality(g[j - 1]) <= Cardinality(g[j])
          /\ Cardinality(g[j]) = Cardinality(g[j - 1]) => g[j] = g[j - 1]
      BY <1>9, <2>2, FS_Subset
    <2>4. Cardinality(g[j - 1]) \in Nat /\ Cardinality(g[j]) \in Nat
      BY <1>2, <1>7, <2>1
    <2> QED BY <1>9, <2>3, <2>4
  <1>11. Cardinality(g[j - 1]) >= j /\ Cardinality(g[j - 1]) \in Nat /\ Cardinality(g[j]) \in Nat
    BY <1>2, <1>7
  <1>12. Cardinality(g[j]) >= j + 1
    BY <1>7, <1>10, <1>11
  <1> QED BY <1>5, <1>12

(* Once nothing is added, nothing is added any more. *)
LEMMA GrowthEnds ==
    ASSUME NEW from, NEW ids, NEW N \in Nat, NEW i \in 0..N,
           Growth(from, ids, N)[i] = Near(ids, Growth(from, ids, N)[i])
    PROVE  Growth(from, ids, N)[N] = Near(ids, Growth(from, ids, N)[N])
  <1> DEFINE g == Growth(from, ids, N)
             T == {j \in 0..N : i <= j /\ g[j] # g[i]}
  <1>1. \A j \in 1..N : g[j] = Near(ids, g[j - 1])
    BY GrowthSteps
  <1>2. g[i] = Near(ids, g[i])
    OBVIOUS
  <1> HIDE DEF g
  <1>3. T = {}
    <2> SUFFICES ASSUME T # {} PROVE FALSE
      OBVIOUS
    <2>1. PICK j \in T : \A k \in T : j <= k
      <3>1. T \subseteq Nat
        OBVIOUS
      <3> HIDE DEF T
      <3> QED BY <3>1, NatHasLeast
    <2>2. j # i /\ j \in 1..N /\ j - 1 \in 0..N /\ i <= j - 1 /\ j - 1 \notin T
      BY <2>1
    <2>3. g[j - 1] = g[i]
      BY <2>2
    <2>4. g[j] = g[i]
      BY <1>1, <1>2, <2>2, <2>3
    <2> QED BY <2>1, <2>4
  <1>4. N \in 0..N /\ i <= N
    OBVIOUS
  <1>5. g[N] = g[i]
    BY <1>3, <1>4
  <1> QED BY <1>2, <1>5 DEF g

LEMMA ReachableIsClosed ==
    ASSUME NEW from, NEW ids, IsFiniteSet(ids)
    PROVE  /\ from \in Tree!Reachable(from, ids) /\ Tree!Reachable(from, ids) \subseteq {from} \cup ids
           /\ \A n \in Tree!Reachable(from, ids) : Tree!adj[n] \cap ids \subseteq Tree!Reachable(from, ids)
  <1> DEFINE N == Cardinality(ids)
             g == Growth(from, ids, N)
  <1>1. N \in Nat
    BY FS_CardinalityType
  <1> HIDE DEF N
  <1>2. N \in 0..N
    BY <1>1
  <1>3. Tree!Reachable(from, ids) = g[N]
    BY ReachableIsGrowth DEF N
  <1>4. from \in g[N] /\ g[N] \subseteq {from} \cup ids
    BY <1>1, <1>2, GrowthBounds
  <1>5. g[N] = Near(ids, g[N])
    <2> SUFFICES ASSUME g[N] # Near(ids, g[N]) PROVE FALSE
      OBVIOUS
    <2>1. \A j \in 0..N : g[j] # Near(ids, g[j])
      BY <1>1, GrowthEnds
    <2>2. Cardinality(g[N]) >= N + 1
      BY <1>1, <1>2, <2>1, GrowthCounts
    <2>3. IsFiniteSet(ids \cup {from}) /\ Cardinality(ids \cup {from}) <= N + 1
      <3>1. IsFiniteSet(ids \cup {from}) /\ Cardinality(ids \cup {from}) = IF from \in ids THEN N ELSE N + 1
        BY FS_AddElement DEF N
      <3> QED BY <1>1, <3>1
    <2> HIDE DEF g
    <2>4. g[N] \in SUBSET (ids \cup {from})
      BY <1>4
    <2>5. Cardinality(g[N]) <= Cardinality(ids \cup {from}) /\ (Cardinality(ids \cup {from}) = Cardinality(g[N]) => ids \cup {from} = g[N])
      BY <2>3, <2>4, FS_Subset
    <2>6. IsFiniteSet(g[N])
      BY <2>3, <2>4, FS_Subset
    <2>7. Cardinality(g[N]) \in Nat /\ Cardinality(ids \cup {from}) \in Nat
      BY <2>3, <2>6, FS_CardinalityType
    <2>8. g[N] = ids \cup {from}
      BY <1>1, <2>2, <2>3, <2>5, <2>7
    <2>9. g[N] = Near(ids, g[N])
      BY <2>8 DEF Near
    <2> QED BY <2>9
  <1> HIDE DEF g
  <1>6. \A n \in g[N] : Tree!adj[n] \cap ids \subseteq g[N]
    BY <1>5 DEF Near
  <1> QED BY <1>3, <1>4, <1>6

LEMMA ReachableIsLeast ==
    ASSUME NEW from, NEW ids, IsFiniteSet(ids), NEW S, from \in S,
           \A n \in S : Tree!adj[n] \cap ids \subseteq S
    PROVE  Tree!Reachable(from, ids) \subseteq S
  <1> DEFINE N == Cardinality(ids)
             g == Growth(from, ids, N)
             T == {j \in 0..N : ~(g[j] \subseteq S)}
  <1>1. N \in Nat
    BY FS_CardinalityType
  <1> HIDE DEF N
  <1>2. Tree!Reachable(from, ids) = g[N]
    BY ReachableIsGrowth DEF N
  <1>3. g[0] = {from} /\ \A j \in 1..N : g[j] = Near(ids, g[j - 1])
    BY <1>1, GrowthSteps
  <1> HIDE DEF g
  <1>4. T = {}
    <2> SUFFICES ASSUME T # {} PROVE FALSE
      OBVIOUS
    <2>1. PICK j \in T : \A k \in T : j <= k
      <3>1. T \subseteq Nat
        OBVIOUS
      <3> HIDE DEF T
      <3> QED BY <3>1, NatHasLeast
    <2>2. j \in 1..N /\ j - 1 \in 0..N /\ j - 1 \notin T
      BY <1>1, <1>3, <2>1
    <2>3. g[j - 1] \subseteq S
      BY <2>2
    <2>4. g[j] = Near(ids, g[j - 1])
      BY <1>3, <2>2
    <2>5. g[j] \subseteq S
      BY <2>3, <2>4 DEF Near
    <2> QED BY <2>1, <2>5
  <1>5. N \in 0..N
    BY <1>1
  <1> QED BY <1>2, <1>4, <1>5

---------------------------------------------------------------------------
(* What may be owned                                                        *)

(* Every link is between two nodes of the tree. *)
LEMMA LinksJoinNodes == \A l \in Tree!Links : l[1] \in Tree!Nodes /\ l[2] \in Tree!Nodes
  <1> USE DEF Tree!Arms, Tree!PASSIVE_LANE_LENGTH, Tree!RING_SIZE, Tree!BRIDGE_LENGTH, Tree!ASCENDANCY_LENGTH, Tree!PATHS
  <1>1. Tree!Hub \in Tree!Nodes
    BY DEF Tree!Nodes
  <1>2. \A i \in 0..11 : Tree!Ring(i) \in Tree!Nodes
    BY DEF Tree!Nodes, Tree!Rings
  <1>3. \A a \in 0..5, l \in 0..2, k \in 0..15 : Tree!Lane(a, l, k) \in Tree!Nodes
    BY DEF Tree!Nodes, Tree!LaneNodes
  <1>4. \A a \in 0..5, l \in 0..1, k \in 0..5 : Tree!Bridge(a, l, k) \in Tree!Nodes
    BY DEF Tree!Nodes, Tree!BridgeNodes
  <1>5. \A a \in 0..5, i \in 0..1 : Tree!Mastery(a, i) \in Tree!Nodes
    BY DEF Tree!Nodes, Tree!Masteries
  <1>6. \A p \in 1..3, k \in 0..11 : Tree!Ascend(p, k) \in Tree!Nodes
    BY DEF Tree!Nodes, Tree!AscendNodes
  <1>7. \A a \in 0..5, l \in 0..2 : Tree!RingOf(a, l) \in 0..11
    BY DEF Tree!RingOf
  <1>8. \A a \in 0..5 : Tree!NextArm(a) \in 0..5
    <2>1. Tree!Cardinality(0..5) = 6
      <3>1. PICK a \in Int, b \in Int : a = 0 /\ b = 5
        OBVIOUS
      <3>2. Cardinality(a..b) = IF a > b THEN 0 ELSE b - a + 1
        BY FS_Interval
      <3> QED BY <3>1, <3>2, TreeSame
    <2> QED BY <2>1 DEF Tree!NextArm
  <1>9. SUFFICES ASSUME NEW l \in Tree!Links PROVE l[1] \in Tree!Nodes /\ l[2] \in Tree!Nodes
    OBVIOUS
  <1>10. CASE \E v \in Tree!Rings : l = <<Tree!Hub, v>>
    BY <1>1, <1>2, <1>10 DEF Tree!Rings
  <1>11. CASE \E a \in 0..5, b \in 0..2 : l = <<Tree!Ring(Tree!RingOf(a, b)), Tree!Lane(a, b, 0)>>
    BY <1>2, <1>3, <1>7, <1>11
  <1>12. CASE \E a \in 0..5, b \in 0..2, k \in 1..15 : l = <<Tree!Lane(a, b, k - 1), Tree!Lane(a, b, k)>>
    BY <1>3, <1>12
  <1>13. CASE \E a \in 0..5, b \in 0..1, k \in 0..15 : l = <<Tree!Lane(a, b, k), Tree!Lane(a, b + 1, k)>>
    BY <1>3, <1>13
  <1>14. CASE \E a \in 0..5, b \in 0..1, k \in 1..5 : l = <<Tree!Bridge(a, b, k - 1), Tree!Bridge(a, b, k)>>
    BY <1>4, <1>14
  <1>15. CASE \E a \in 0..5, b \in 0..1 : l = <<Tree!Lane(a, 2, 4 + b), Tree!Bridge(a, b, 0)>>
    BY <1>3, <1>4, <1>15
  <1>16. CASE \E a \in 0..5, b \in 0..1 : l = <<Tree!Lane(Tree!NextArm(a), 0, 10 + b), Tree!Bridge(a, b, 5)>>
    BY <1>3, <1>4, <1>8, <1>16
  <1>17. CASE \E a \in 0..5 : l = <<Tree!Bridge(a, 0, 2), Tree!Bridge(a, 1, 2)>>
    BY <1>4, <1>17
  <1>18. CASE \E a \in 0..5, i \in 0..1 : l = <<Tree!Lane(a, 2 * i, 8), Tree!Mastery(a, i)>>
    BY <1>3, <1>5, <1>18
  <1>19. CASE \E a \in 0..5, i \in 0..1 : l = <<Tree!Lane(a, 1, 8), Tree!Mastery(a, i)>>
    BY <1>3, <1>5, <1>19
  <1>20. CASE \E p \in 1..3, k \in 1..11 : l = <<Tree!Ascend(p, k - 1), Tree!Ascend(p, k)>>
    BY <1>6, <1>20
  <1> QED BY <1>9, <1>10, <1>11, <1>12, <1>13, <1>14, <1>15, <1>16, <1>17, <1>18, <1>19, <1>20 DEF Tree!Links

LEMMA AdjIsSymmetric ==
    ASSUME NEW n \in Tree!Nodes, NEW m \in Tree!adj[n]
    PROVE  m \in Tree!Nodes /\ n \in Tree!adj[m]
  <1>1. Tree!adj[n] = {l[2] : l \in {k \in Tree!Links : k[1] = n}} \cup {l[1] : l \in {k \in Tree!Links : k[2] = n}}
    BY DEF Tree!adj
  <1>2. PICK l \in Tree!Links : (l[1] = n /\ m = l[2]) \/ (l[2] = n /\ m = l[1])
    BY <1>1
  <1>3. m \in Tree!Nodes
    BY <1>2, LinksJoinNodes
  <1>4. Tree!adj[m] = {k[2] : k \in {j \in Tree!Links : j[1] = m}} \cup {k[1] : k \in {j \in Tree!Links : j[2] = m}}
    BY <1>3 DEF Tree!adj
  <1>5. n \in Tree!adj[m]
    BY <1>2, <1>4
  <1> QED BY <1>3, <1>5

(* A node next to one that can be reached can be reached. *)
LEMMA AllocateKeeps ==
    ASSUME NEW ids, IsFiniteSet(ids), Tree!isValidAllocation(ids), NEW n, Tree!canAllocate(ids, n)
    PROVE  Tree!isValidAllocation(ids \cup {n})
  <1> DEFINE R == Tree!Reachable(Tree!Hub, ids \cup {n})
  <1>1. ids \subseteq Tree!Nodes \ {Tree!Hub} /\ ids \subseteq Tree!Reachable(Tree!Hub, ids)
    BY DEF Tree!isValidAllocation
  <1>2. PICK m : m \in Tree!adj[n] /\ m \in ids \cup {Tree!Hub}
    BY DEF Tree!canAllocate
  <1>3. n \in Tree!Nodes \ {Tree!Hub}
    BY DEF Tree!canAllocate
  <1>4. IsFiniteSet(ids \cup {n})
    BY FS_AddElement
  <1>5. Tree!Hub \in R /\ \A x \in R : Tree!adj[x] \cap (ids \cup {n}) \subseteq R
    BY <1>4, ReachableIsClosed
  <1> HIDE DEF R
  <1>6. Tree!Reachable(Tree!Hub, ids) \subseteq R
    BY <1>5, ReachableIsLeast
  <1>7. m \in R
    BY <1>1, <1>2, <1>5, <1>6
  <1>8. n \in Tree!adj[m]
    BY <1>2, <1>3, AdjIsSymmetric
  <1>9. n \in R
    BY <1>5, <1>7, <1>8
  <1>10. ids \cup {n} \subseteq R
    BY <1>1, <1>6, <1>9
  <1> QED BY <1>1, <1>3, <1>10 DEF Tree!isValidAllocation, R

(* What a branch leaves is what could be reached without its first node.   *)
LEMMA BranchKeeps ==
    ASSUME NEW ids, IsFiniteSet(ids), Tree!isValidAllocation(ids), NEW n
    PROVE  Tree!isValidAllocation(ids \ Tree!branchOf(ids, n))
  <1> DEFINE rest == ids \ {n}
             R == Tree!Reachable(Tree!Hub, rest)
             K == ids \ Tree!branchOf(ids, n)
             S == Tree!Reachable(Tree!Hub, K)
  <1>1. ids \subseteq Tree!Nodes \ {Tree!Hub}
    BY DEF Tree!isValidAllocation
  <1>2. K = ids \cap R
    BY DEF Tree!branchOf
  <1>3. IsFiniteSet(rest) /\ IsFiniteSet(K)
    BY FS_Subset
  <1>4. Tree!Hub \in R /\ \A x \in R : Tree!adj[x] \cap rest \subseteq R
    BY <1>3, ReachableIsClosed
  <1>5. Tree!Hub \in S /\ \A x \in S : Tree!adj[x] \cap K \subseteq S
    BY <1>3, ReachableIsClosed
  <1>6. R \subseteq S \cap R
    <2>1. \A x \in S \cap R : Tree!adj[x] \cap rest \subseteq S \cap R
      <3> HIDE DEF K, R, S
      <3> QED BY <1>2, <1>4, <1>5
    <2>2. Tree!Hub \in S \cap R
      BY <1>4, <1>5
    <2> HIDE DEF rest, K, S
    <2> QED BY <1>3, <2>1, <2>2, ReachableIsLeast
  <1> HIDE DEF K, R, S
  <1>7. K \subseteq Tree!Nodes \ {Tree!Hub} /\ K \subseteq S
    BY <1>1, <1>2, <1>6
  <1>8. Tree!isValidAllocation(K)
    BY <1>7 DEF Tree!isValidAllocation, S
  <1> QED BY <1>8 DEF K

LEMMA EmptyIsValid == Tree!isValidAllocation({}) /\ Tree!isValidAscendancy({})
  BY DEF Tree!isValidAllocation, Tree!isValidAscendancy

LEMMA AscendNodesHavePaths ==
    ASSUME NEW n \in Tree!AscendNodes
    PROVE  n \in Tree!Nodes /\ Tree!getAscendancyPath(n) \in 1..Tree!PATHS
  <1>1. PICK p \in 1..Tree!PATHS, k \in 0..(Tree!ASCENDANCY_LENGTH - 1) : n = Tree!Ascend(p, k)
    BY DEF Tree!AscendNodes
  <1>2. n \in Tree!Nodes
    BY DEF Tree!Nodes
  <1> QED BY <1>1, <1>2 DEF Tree!Ascend, Tree!getAscendancyPath

(* A node next to one of the path, or its root, keeps it one path from its root. *)
LEMMA AscendKeeps ==
    ASSUME NEW ids, IsFiniteSet(ids), Tree!isValidAscendancy(ids), NEW n,
           Tree!canAllocateAscendancy(IF ids = {} THEN 0 ELSE Tree!getAscendancyPath(CHOOSE m \in ids : TRUE), ids, n)
    PROVE  Tree!isValidAscendancy(ids \cup {n})
  <1>1. n \in Tree!AscendNodes /\ n \notin ids
    BY DEF Tree!canAllocateAscendancy
  <1>2. n \in Tree!Nodes /\ Tree!getAscendancyPath(n) \in 1..Tree!PATHS
    BY <1>1, AscendNodesHavePaths
  <1>3. n = Tree!ascendancyRoot(Tree!getAscendancyPath(n)) \/ Tree!adj[n] \cap ids # {}
    BY DEF Tree!canAllocateAscendancy
  <1>4. IsFiniteSet(ids \cup {n})
    BY FS_AddElement
  <1>5. CASE ids = {}
    <2>1. n = Tree!ascendancyRoot(Tree!getAscendancyPath(n))
      BY <1>3, <1>5
    <2>2. n \in Tree!Reachable(n, ids \cup {n})
      BY <1>4, ReachableIsClosed
    <2> QED BY <1>2, <1>5, <2>1, <2>2 DEF Tree!isValidAscendancy
  <1>6. CASE ids # {}
    <2>1. PICK path \in 1..Tree!PATHS :
            /\ \A m \in ids : Tree!getAscendancyPath(m) = path
            /\ Tree!ascendancyRoot(path) \in ids
            /\ ids \subseteq Tree!Reachable(Tree!ascendancyRoot(path), ids)
      BY <1>6 DEF Tree!isValidAscendancy
    <2>2. Tree!getAscendancyPath(n) = path
      <3>1. (CHOOSE m \in ids : TRUE) \in ids
        BY <1>6
      <3>2. Tree!getAscendancyPath(CHOOSE m \in ids : TRUE) = Tree!getAscendancyPath(n)
        BY <1>6 DEF Tree!canAllocateAscendancy
      <3> QED BY <2>1, <3>1, <3>2
    <2>3. PICK m : m \in Tree!adj[n] /\ m \in ids
      BY <1>1, <1>3, <2>1, <2>2
    <2>4. n \in Tree!adj[m]
      BY <1>2, <2>3, AdjIsSymmetric
    <2> DEFINE root == Tree!ascendancyRoot(path)
               R == Tree!Reachable(root, ids \cup {n})
    <2>5. root \in R /\ \A x \in R : Tree!adj[x] \cap (ids \cup {n}) \subseteq R
      BY <1>4, ReachableIsClosed
    <2> HIDE DEF R
    <2>6. Tree!Reachable(root, ids) \subseteq R
      BY <2>5, ReachableIsLeast
    <2>7. ids \subseteq R
      BY <2>1, <2>6
    <2>8. n \in R
      BY <2>3, <2>4, <2>5, <2>7
    <2> QED BY <2>1, <2>2, <2>7, <2>8 DEF Tree!isValidAscendancy, R
  <1> QED BY <1>5, <1>6

---------------------------------------------------------------------------
(* Points                                                                   *)

(* Who achieves more has as many points, or more. *)
LEMMA PointsGrow ==
    ASSUME NEW p \in Tree!Progress, NEW q \in Tree!Progress, q.pvpSeasonRanks = p.pvpSeasonRanks,
           \A k \in DOMAIN q \ {"pvpSeasonRanks"} : q[k] >= p[k]
    PROVE  /\ Tree!Points(p).tree \in Int /\ Tree!Points(q).tree \in Int
           /\ Tree!Points(p).ascendancy \in Int /\ Tree!Points(q).ascendancy \in Int
           /\ Tree!Points(p).tree <= Tree!Points(q).tree
           /\ Tree!Points(p).ascendancy <= Tree!Points(q).ascendancy
  <1> DEFINE ranks == p.pvpSeasonRanks
             points == [i \in DOMAIN ranks |-> Tree!SeasonPoints(ranks[i])]
  <1>1. Tree!SumFunction(points) \in Int
    <2>1. ranks \in Seq(Nat)
      BY DEF Tree!Progress
    <2> HIDE DEF ranks
    <2>2. Len(ranks) \in Nat /\ DOMAIN ranks = 1..Len(ranks)
      BY <2>1
    <2>3. IsFiniteSet(DOMAIN ranks)
      BY <2>2, FS_Interval
    <2>4. points \in [DOMAIN ranks -> Int]
      BY DEF Tree!SeasonPoints
    <2> HIDE DEF points
    <2>5. SumFunction(points) \in Int
      BY <2>3, <2>4, SumIsInt
    <2> QED BY <2>5, TreeSame
  <1>2. PICK s \in Int : s = Tree!SumFunction(points)
    BY <1>1
  <1>3. /\ \A x \in {p, q} : /\ x.dexSpecies \in Nat /\ x.raidFirstClears \in Nat /\ x.nightmareClears \in Nat
                             /\ x.adventureClears \in Nat /\ x.totalWins \in Nat /\ x.worldBossDefeats \in Nat
        /\ q.dexSpecies >= p.dexSpecies /\ q.raidFirstClears >= p.raidFirstClears /\ q.nightmareClears >= p.nightmareClears
        /\ q.adventureClears >= p.adventureClears /\ q.totalWins >= p.totalWins /\ q.worldBossDefeats >= p.worldBossDefeats
    BY DEF Tree!Progress
  <1>4. p.totalWins \div 100 \in Nat /\ q.totalWins \div 100 \in Nat /\ p.totalWins \div 100 <= q.totalWins \div 100
    BY <1>3
  <1> DEFINE at(x, wins) == Tree!Least(100, Tree!Least(x.dexSpecies, 33) + x.raidFirstClears + Tree!Least(x.adventureClears, 20)
                                + Tree!Least(wins, 10) + x.worldBossDefeats + s)
  <1>5. Tree!Points(p).tree = at(p, p.totalWins \div 100) /\ Tree!Points(q).tree = at(q, q.totalWins \div 100)
    BY <1>2 DEF Tree!Points, Tree!calcPassivePoints, Tree!PASSIVE_MAX_POINTS, Tree!PASSIVE_DEX_MAX_POINTS,
                Tree!PASSIVE_ADVENTURE_MAX_POINTS, Tree!PASSIVE_WINS_PER_POINT, Tree!PASSIVE_WIN_MAX_POINTS
  <1>6. at(p, p.totalWins \div 100) \in Int /\ at(q, q.totalWins \div 100) \in Int
        /\ at(p, p.totalWins \div 100) <= at(q, q.totalWins \div 100)
    <2>1. PICK u, v \in Nat : u = p.totalWins \div 100 /\ v = q.totalWins \div 100 /\ u <= v
      BY <1>4
    <2>2. at(p, u) \in Int /\ at(q, v) \in Int /\ at(p, u) <= at(q, v)
      BY <1>3, <2>1 DEF Tree!Least
    <2> QED BY <2>1, <2>2
  <1>7. /\ Tree!Points(p).ascendancy \in Int /\ Tree!Points(q).ascendancy \in Int
        /\ Tree!Points(p).ascendancy <= Tree!Points(q).ascendancy
    BY <1>3 DEF Tree!Points, Tree!calcAscendancyPoints, Tree!ASCENDANCY_MAX_POINTS, Tree!Least
  <1> QED BY <1>5, <1>6, <1>7

LEMMA MorePointsAllow ==
    ASSUME NEW d, NEW p, NEW q, Tree!IsFiniteSet(d.nodes), Tree!IsFiniteSet(d.ascendancy),
           p.tree \in Int, q.tree \in Int, p.tree <= q.tree,
           p.ascendancy \in Int, q.ascendancy \in Int, p.ascendancy <= q.ascendancy,
           Tree!validatePassiveDraft(d, p)
    PROVE  Tree!validatePassiveDraft(d, q)
  <1>1. Tree!Cardinality(d.nodes) \in Nat /\ Tree!Cardinality(d.ascendancy) \in Nat
    <2>1. IsFiniteSet(d.nodes) /\ IsFiniteSet(d.ascendancy)
      BY TreeSame
    <2>2. Cardinality(d.nodes) \in Nat /\ Cardinality(d.ascendancy) \in Nat
      BY <2>1, FS_CardinalityType
    <2> QED BY <2>2, TreeSame
  <1>2. Tree!Cardinality(d.nodes) <= q.tree /\ Tree!Cardinality(d.ascendancy) <= q.ascendancy
    BY <1>1 DEF Tree!validatePassiveDraft
  <1> QED BY <1>2 DEF Tree!validatePassiveDraft

---------------------------------------------------------------------------
(* What a request writes                                                    *)

(* The request r works on the row t, which it holds. *)
WorksOn(r, t) ==
    /\ plan[r].kind \in Tree!Kinds /\ Tree!IsRow(plan[r].draft)
    /\ mine[r] = t /\ Tree!IsRow(t) /\ Tree!IsAllowed(r)
    /\ earned[r].tree \in Int /\ earned[r].ascendancy \in Int
    /\ Tree!validatePassiveDraft(t, Tree!Points(progress))
    /\ Tree!Points(progress).tree \in Int /\ Tree!Points(progress).ascendancy \in Int
    /\ earned[r].tree <= Tree!Points(progress).tree
    /\ earned[r].ascendancy <= Tree!Points(progress).ascendancy

LEMMA FiniteFacts ==
    ASSUME NEW t, Tree!IsRow(t)
    PROVE  /\ IsFiniteSet(t.nodes) /\ IsFiniteSet(t.ascendancy) /\ t.refunded \in Nat
           /\ \A S : S \subseteq t.nodes => /\ IsFiniteSet(S) /\ Tree!IsFiniteSet(S)
                                            /\ Cardinality(S) \in Nat /\ Tree!Cardinality(S) = Cardinality(S)
                                            /\ Cardinality(S) <= Cardinality(t.nodes)
           /\ Cardinality(t.nodes) \in Nat /\ Cardinality(t.ascendancy) \in Nat
           /\ Tree!Cardinality(t.nodes) = Cardinality(t.nodes) /\ Tree!Cardinality(t.ascendancy) = Cardinality(t.ascendancy)
  <1>1. IsFiniteSet(t.nodes) /\ IsFiniteSet(t.ascendancy) /\ t.refunded \in Nat
    BY TreeSame DEF Tree!IsRow
  <1>2. Cardinality(t.nodes) \in Nat /\ Cardinality(t.ascendancy) \in Nat
    BY <1>1, FS_CardinalityType
  <1>3. ASSUME NEW S, S \subseteq t.nodes
        PROVE  IsFiniteSet(S) /\ Cardinality(S) \in Nat /\ Cardinality(S) <= Cardinality(t.nodes)
    BY <1>1, <1>3, FS_Subset, FS_CardinalityType
  <1> QED BY <1>1, <1>2, <1>3, TreeSame

(* The row it writes, part by part, and what it takes from the tree. *)
LEMMA AllocateWrites ==
    ASSUME NEW r, NEW t, WorksOn(r, t), plan[r].kind = "allocate"
    PROVE  /\ Tree!Written(r) = [nodes |-> t.nodes \cup {plan[r].node}, refunded |-> t.refunded, picks |-> t.picks, ascendancy |-> t.ascendancy]
           /\ Tree!IsRow(Tree!Written(r)) /\ Tree!validatePassiveDraft(Tree!Written(r), Tree!Points(progress))
  <1> DEFINE n == plan[r].node
             w == [nodes |-> t.nodes \cup {n}, refunded |-> t.refunded, picks |-> t.picks, ascendancy |-> t.ascendancy]
  <1>1. Tree!Written(r) = w
    BY DEF Tree!Written, Tree!Kind, Tree!Node, WorksOn, Tree!IsRow
  <1>2. /\ IsFiniteSet(t.nodes) /\ IsFiniteSet(t.ascendancy) /\ t.refunded \in Nat
        /\ Cardinality(t.nodes) \in Nat /\ Tree!Cardinality(t.nodes) = Cardinality(t.nodes)
    BY FiniteFacts DEF WorksOn
  <1>3. Tree!canAllocate(t.nodes, n) /\ Cardinality(t.nodes) < earned[r].tree
    BY <1>2 DEF Tree!IsAllowed, Tree!Kind, Tree!Node, WorksOn
  <1>4. n \notin t.nodes
    BY <1>3 DEF Tree!canAllocate
  <1>5. IsFiniteSet(t.nodes \cup {n}) /\ Cardinality(t.nodes \cup {n}) = Cardinality(t.nodes) + 1
    BY <1>2, <1>4, FS_AddElement
  <1>6. Tree!IsRow(w)
    BY <1>2, <1>5, TreeSame DEF Tree!IsRow
  <1>7. Tree!isValidAllocation(t.nodes \cup {n})
    BY <1>2, <1>3, AllocateKeeps DEF WorksOn, Tree!validatePassiveDraft
  <1>8. Tree!Cardinality(t.nodes \cup {n}) <= Tree!Points(progress).tree
    <2>1. Tree!Cardinality(t.nodes \cup {n}) = Cardinality(t.nodes \cup {n})
      BY TreeSame
    <2> QED BY <1>2, <1>3, <1>5, <2>1 DEF WorksOn
  <1>9. Tree!validatePassiveDraft(w, Tree!Points(progress))
    BY <1>7, <1>8 DEF WorksOn, Tree!validatePassiveDraft
  <1> QED BY <1>1, <1>6, <1>9

RefundKinds == {"deallocate", "deallocateBranch", "respec"}

LEMMA RefundWrites ==
    ASSUME NEW r, NEW t, WorksOn(r, t), plan[r].kind \in RefundKinds
    PROVE  /\ Tree!Removed(r) \subseteq t.nodes
           /\ Tree!Written(r).nodes = t.nodes \ Tree!Removed(r) /\ Tree!Written(r).ascendancy = t.ascendancy
           /\ Tree!Written(r).refunded = t.refunded + Tree!Cardinality(Tree!Removed(r))
           /\ Tree!IsRow(Tree!Written(r)) /\ Tree!validatePassiveDraft(Tree!Written(r), Tree!Points(progress))
  <1> DEFINE R == Tree!Removed(r)
             w == [nodes |-> t.nodes \ R, refunded |-> t.refunded + Tree!Cardinality(R),
                   picks |-> Tree!Restrict(t.picks, DOMAIN t.picks \ R), ascendancy |-> t.ascendancy]
  <1>1. Tree!Written(r) = w
    <2>1. mine[r] = t /\ t = [nodes |-> t.nodes, refunded |-> t.refunded, picks |-> t.picks, ascendancy |-> t.ascendancy]
      BY DEF WorksOn, Tree!IsRow
    <2>2. Tree!Written(r) = [t EXCEPT !.nodes = @ \ R, !.picks = Tree!Restrict(@, DOMAIN @ \ R), !.refunded = @ + Tree!Cardinality(R)]
      BY <2>1 DEF Tree!Written, Tree!Kind, RefundKinds
    <2> HIDE DEF R
    <2> QED BY <2>1, <2>2
  <1>2. /\ IsFiniteSet(t.nodes) /\ IsFiniteSet(t.ascendancy) /\ t.refunded \in Nat
        /\ Cardinality(t.nodes) \in Nat /\ Tree!Cardinality(t.nodes) = Cardinality(t.nodes)
        /\ Tree!isValidAllocation(t.nodes) /\ Cardinality(t.nodes) <= Tree!Points(progress).tree
    BY FiniteFacts DEF WorksOn, Tree!validatePassiveDraft
  <1>3. R \subseteq t.nodes /\ Tree!isValidAllocation(t.nodes \ R)
    <2>1. CASE plan[r].kind = "deallocate"
      BY <2>1 DEF Tree!Removed, Tree!Kind, Tree!Node, Tree!IsAllowed, WorksOn, Tree!canDeallocate
    <2>2. CASE plan[r].kind = "deallocateBranch"
      <3>1. R = Tree!branchOf(t.nodes, Tree!Node(r))
        BY <2>2 DEF Tree!Removed, Tree!Kind, WorksOn
      <3>2. R \subseteq t.nodes
        BY <3>1 DEF Tree!branchOf
      <3> QED BY <1>2, <3>1, <3>2, BranchKeeps
    <2>3. CASE plan[r].kind = "respec"
      <3>1. R = t.nodes
        BY <2>3 DEF Tree!Removed, Tree!Kind, WorksOn
      <3>2. t.nodes \ R = {}
        BY <3>1
      <3> QED BY <3>1, <3>2, EmptyIsValid
    <2> QED BY <2>1, <2>2, <2>3 DEF RefundKinds
  <1> HIDE DEF R
  <1>4. /\ IsFiniteSet(t.nodes \ R) /\ Cardinality(t.nodes \ R) \in Nat /\ Cardinality(t.nodes \ R) <= Cardinality(t.nodes)
        /\ Tree!Cardinality(R) \in Nat
    BY <1>3, FiniteFacts DEF WorksOn
  <1>5. Tree!IsRow(w)
    BY <1>2, <1>4, TreeSame DEF Tree!IsRow
  <1>6. Tree!Cardinality(t.nodes \ R) <= Tree!Points(progress).tree
    <2>1. Tree!Cardinality(t.nodes \ R) = Cardinality(t.nodes \ R)
      BY TreeSame
    <2> QED BY <1>2, <1>4, <2>1 DEF WorksOn
  <1>7. \A n \in DOMAIN w.picks : n \in w.nodes /\ Tree!isValidMasteryPick(n, w.picks[n])
    BY DEF Tree!Restrict, WorksOn, Tree!validatePassiveDraft
  <1>8. Tree!validatePassiveDraft(w, Tree!Points(progress))
    <2>1. Tree!isValidAscendancy(t.ascendancy) /\ Tree!Cardinality(t.ascendancy) <= Tree!Points(progress).ascendancy
      BY DEF WorksOn, Tree!validatePassiveDraft
    <2> QED BY <1>3, <1>6, <1>7, <2>1 DEF Tree!validatePassiveDraft
  <1> QED BY <1>1, <1>3, <1>5, <1>8 DEF R

LEMMA SaveWrites ==
    ASSUME NEW r, NEW t, WorksOn(r, t), plan[r].kind = "save"
    PROVE  /\ Tree!Removed(r) = t.nodes \ plan[r].draft.nodes
           /\ Tree!Written(r).nodes = plan[r].draft.nodes /\ Tree!Written(r).ascendancy = plan[r].draft.ascendancy
           /\ Tree!Written(r).refunded = t.refunded + Tree!Cardinality(Tree!Removed(r))
           /\ Tree!IsRow(Tree!Written(r)) /\ Tree!validatePassiveDraft(Tree!Written(r), Tree!Points(progress))
  <1> DEFINE d == plan[r].draft
             w == [nodes |-> d.nodes, picks |-> d.picks, ascendancy |-> d.ascendancy,
                   refunded |-> t.refunded + Tree!Cardinality(Tree!Removed(r))]
  <1>1. Tree!Written(r) = w
    BY DEF Tree!Written, Tree!Kind, Tree!Draft, WorksOn
  <1>2. Tree!Removed(r) = t.nodes \ d.nodes
    BY DEF Tree!Removed, Tree!Kind, Tree!Draft, WorksOn
  <1>3. Tree!Cardinality(t.nodes \ d.nodes) \in Nat /\ t.refunded \in Nat
    BY FiniteFacts DEF WorksOn
  <1>4. Tree!IsRow(w)
    BY <1>2, <1>3 DEF Tree!IsRow, WorksOn
  <1>5. Tree!validatePassiveDraft(d, earned[r])
    BY DEF Tree!IsAllowed, Tree!Kind, Tree!Draft, WorksOn
  <1>6. Tree!validatePassiveDraft(d, Tree!Points(progress))
    BY <1>5, MorePointsAllow DEF WorksOn, Tree!IsRow
  <1>7. Tree!validatePassiveDraft(w, Tree!Points(progress))
    BY <1>6 DEF Tree!validatePassiveDraft
  <1> QED BY <1>1, <1>2, <1>4, <1>7

LEMMA PickWrites ==
    ASSUME NEW r, NEW t, WorksOn(r, t), plan[r].kind = "pickMastery"
    PROVE  /\ Tree!Written(r).nodes = t.nodes /\ Tree!Written(r).ascendancy = t.ascendancy
           /\ Tree!Written(r).refunded = t.refunded
           /\ Tree!IsRow(Tree!Written(r)) /\ Tree!validatePassiveDraft(Tree!Written(r), Tree!Points(progress))
  <1> DEFINE n == plan[r].node
             picks == [m \in DOMAIN t.picks \cup {n} |-> IF m = n THEN plan[r].option ELSE t.picks[m]]
             w == [nodes |-> t.nodes, refunded |-> t.refunded, picks |-> picks, ascendancy |-> t.ascendancy]
  <1>1. Tree!Written(r) = w
    <2>1. mine[r] = t /\ t = [nodes |-> t.nodes, refunded |-> t.refunded, picks |-> t.picks, ascendancy |-> t.ascendancy]
      BY DEF WorksOn, Tree!IsRow
    <2>2. Tree!Written(r) = [t EXCEPT !.picks = [m \in DOMAIN @ \cup {n} |-> IF m = n THEN plan[r].option ELSE @[m]]]
      BY <2>1 DEF Tree!Written, Tree!Kind, Tree!Node
    <2>3. Tree!Written(r) = [t EXCEPT !.picks = picks]
      BY <2>2
    <2> HIDE DEF picks
    <2> QED BY <2>1, <2>3
  <1>2. n \in t.nodes /\ Tree!isValidMasteryPick(n, plan[r].option)
    BY DEF Tree!IsAllowed, Tree!Kind, Tree!Node, WorksOn
  <1>3. Tree!IsRow(w)
    BY DEF WorksOn, Tree!IsRow
  <1>4. \A m \in DOMAIN picks : m \in t.nodes /\ Tree!isValidMasteryPick(m, picks[m])
    BY <1>2 DEF WorksOn, Tree!validatePassiveDraft
  <1> HIDE DEF picks
  <1>5. Tree!validatePassiveDraft(w, Tree!Points(progress))
    BY <1>4 DEF WorksOn, Tree!validatePassiveDraft
  <1> QED BY <1>1, <1>3, <1>5

LEMMA AscendWrites ==
    ASSUME NEW r, NEW t, WorksOn(r, t), plan[r].kind \in {"allocateAscendancy", "resetAscendancy"}
    PROVE  /\ Tree!Written(r).nodes = t.nodes /\ Tree!Written(r).refunded = t.refunded
           /\ Tree!Written(r).ascendancy = IF plan[r].kind = "resetAscendancy" THEN {} ELSE t.ascendancy \cup {plan[r].node}
           /\ Tree!IsRow(Tree!Written(r)) /\ Tree!validatePassiveDraft(Tree!Written(r), Tree!Points(progress))
  <1> DEFINE n == plan[r].node
             A == IF plan[r].kind = "resetAscendancy" THEN {} ELSE t.ascendancy \cup {n}
             w == [nodes |-> t.nodes, refunded |-> t.refunded, picks |-> t.picks, ascendancy |-> A]
  <1>1. Tree!Written(r) = w
    <2>1. mine[r] = t /\ t = [nodes |-> t.nodes, refunded |-> t.refunded, picks |-> t.picks, ascendancy |-> t.ascendancy]
      BY DEF WorksOn, Tree!IsRow
    <2>2. Tree!Written(r) = [t EXCEPT !.ascendancy = A]
      BY <2>1 DEF Tree!Written, Tree!Kind, Tree!Node
    <2> HIDE DEF A
    <2> QED BY <2>1, <2>2
  <1>2. /\ IsFiniteSet(t.ascendancy) /\ Cardinality(t.ascendancy) \in Nat /\ Tree!Cardinality(t.ascendancy) = Cardinality(t.ascendancy)
        /\ Tree!isValidAscendancy(t.ascendancy) /\ Cardinality(t.ascendancy) <= Tree!Points(progress).ascendancy
    BY FiniteFacts DEF WorksOn, Tree!validatePassiveDraft
  <1>3. IsFiniteSet(A) /\ Tree!isValidAscendancy(A) /\ Cardinality(A) <= Tree!Points(progress).ascendancy
    <2>1. CASE plan[r].kind = "resetAscendancy"
      <3>1. A = {}
        BY <2>1
      <3> HIDE DEF A
      <3>2. IsFiniteSet(A) /\ Cardinality(A) = 0
        BY <3>1, FS_EmptySet
      <3> QED BY <1>2, <3>1, <3>2, EmptyIsValid DEF WorksOn
    <2>2. CASE plan[r].kind = "allocateAscendancy"
      <3>1. A = t.ascendancy \cup {n}
        BY <2>2
      <3>2. /\ Tree!canAllocateAscendancy(Tree!PathOf(t), t.ascendancy, n) /\ Cardinality(t.ascendancy) < earned[r].ascendancy
        BY <1>2, <2>2 DEF Tree!IsAllowed, Tree!Kind, Tree!Node, WorksOn
      <3>3. Tree!isValidAscendancy(t.ascendancy \cup {n})
        BY <1>2, <3>2, AscendKeeps DEF Tree!PathOf
      <3>4. n \notin t.ascendancy
        BY <3>2 DEF Tree!canAllocateAscendancy
      <3>5. IsFiniteSet(t.ascendancy \cup {n}) /\ Cardinality(t.ascendancy \cup {n}) = Cardinality(t.ascendancy) + 1
        BY <1>2, <3>4, FS_AddElement
      <3> HIDE DEF A
      <3> QED BY <1>2, <3>1, <3>2, <3>3, <3>5 DEF WorksOn
    <2> QED BY <2>1, <2>2
  <1> HIDE DEF A
  <1>4. Tree!IsFiniteSet(A) /\ Tree!Cardinality(A) <= Tree!Points(progress).ascendancy
    BY <1>3, TreeSame
  <1>5. Tree!IsRow(w)
    BY <1>4 DEF WorksOn, Tree!IsRow
  <1>6. Tree!validatePassiveDraft(w, Tree!Points(progress))
    BY <1>3, <1>4 DEF WorksOn, Tree!validatePassiveDraft
  <1> QED BY <1>1, <1>5, <1>6 DEF A

(* What it pays is what the points cost, less what the cap spares, and the  *)
(* picks and the ascendancy it changes.                                     *)
Taken(t, w) == Cardinality(t.nodes \ w.nodes)
Spared(r) == IF Tree!Kind(r) = "deallocateBranch" THEN Tree!FullCost(r) - Tree!Cost(r) ELSE 0
Charged(r) == IF Tree!Kind(r) = "save" THEN Tree!Cardinality(Tree!Repicked(mine[r], Tree!Draft(r)))
              ELSE IF Tree!Kind(r) = "pickMastery" /\ Tree!Cost(r) > 0 THEN 1 ELSE 0

LEMMA CostGrows ==
    ASSUME NEW m \in Nat, NEW n \in Nat
    PROVE  /\ Tree!calcRespecCost(m, n)
              = Tree!AtLeast0(m + n - Tree!PASSIVE_FREE_REFUNDS) - Tree!AtLeast0(m - Tree!PASSIVE_FREE_REFUNDS)
           /\ Tree!calcRespecCost(m, n) \in Nat
  BY DEF Tree!calcRespecCost, Tree!AtLeast0, Tree!PASSIVE_RESPEC_GEM_PRICE, Tree!PASSIVE_FREE_REFUNDS

LEMMA Writes ==
    ASSUME NEW r, NEW t, WorksOn(r, t)
    PROVE  LET w == Tree!Written(r)
               past(n) == Tree!AtLeast0(n - Tree!PASSIVE_FREE_REFUNDS)
           IN /\ Tree!IsRow(w) /\ Tree!validatePassiveDraft(w, Tree!Points(progress))
              /\ w.refunded = t.refunded + Taken(t, w) /\ Taken(t, w) \in Nat
              /\ Tree!Cost(r) \in Nat /\ Spared(r) \in Int /\ Charged(r) \in Nat
              /\ Tree!Cost(r) = past(w.refunded) - past(t.refunded) - Spared(r) + Charged(r)
                                + (IF Tree!Restarted(t, w) THEN 20 ELSE 0)
  <1> DEFINE w == Tree!Written(r)
             past(n) == Tree!AtLeast0(n - Tree!PASSIVE_FREE_REFUNDS)
             Paid == Tree!Cost(r) = past(w.refunded) - past(t.refunded) - Spared(r) + Charged(r)
                                    + (IF Tree!Restarted(t, w) THEN 20 ELSE 0)
             Numbers == Tree!Cost(r) \in Nat /\ Spared(r) \in Int /\ Charged(r) \in Nat
             Keeps == /\ Tree!IsRow(w) /\ Tree!validatePassiveDraft(w, Tree!Points(progress))
                      /\ w.refunded = t.refunded + Taken(t, w) /\ Taken(t, w) \in Nat
  <1> USE DEF Tree!PASSIVE_FREE_REFUNDS, Tree!PASSIVE_RESPEC_GEM_PRICE, Tree!ASCENDANCY_RESET_GEM_PRICE,
              Tree!MASTERY_REPICK_GEM_PRICE
  <1>1. mine[r] = t /\ t.refunded \in Nat /\ plan[r].kind \in Tree!Kinds
    BY FiniteFacts DEF WorksOn
  <1>2. \A n \in Int : past(n) \in Nat
    BY DEF Tree!AtLeast0
  <1>3. \A m, n \in Nat : past(m + n) >= past(m)
    BY DEF Tree!AtLeast0
  <1>4. CASE plan[r].kind = "allocate"
    <2>1. /\ w = [nodes |-> t.nodes \cup {plan[r].node}, refunded |-> t.refunded, picks |-> t.picks, ascendancy |-> t.ascendancy]
          /\ Tree!IsRow(w) /\ Tree!validatePassiveDraft(w, Tree!Points(progress))
      BY <1>4, AllocateWrites
    <2> HIDE DEF w
    <2>2. w.refunded = t.refunded /\ w.ascendancy = t.ascendancy /\ t.nodes \ w.nodes = {}
      BY <2>1
    <2>3. Taken(t, w) = 0
      BY <2>2, FS_EmptySet DEF Taken
    <2>4. ~Tree!Restarted(t, w)
      BY <2>2 DEF Tree!Restarted
    <2>5. Tree!Cost(r) = 0 /\ Spared(r) = 0 /\ Charged(r) = 0
      BY <1>4 DEF Tree!Cost, Spared, Charged, Tree!Kind
    <2>6. Paid
      BY <1>1, <1>2, <2>2, <2>4, <2>5
    <2>7. Keeps /\ Numbers
      BY <1>1, <2>1, <2>2, <2>3, <2>5
    <2> QED BY <2>6, <2>7 DEF w
  <1>5. CASE plan[r].kind \in RefundKinds
    <2>1. /\ Tree!Removed(r) \subseteq t.nodes /\ w.nodes = t.nodes \ Tree!Removed(r) /\ w.ascendancy = t.ascendancy
          /\ w.refunded = t.refunded + Tree!Cardinality(Tree!Removed(r))
          /\ Tree!IsRow(w) /\ Tree!validatePassiveDraft(w, Tree!Points(progress))
      BY <1>5, RefundWrites
    <2> HIDE DEF w
    <2>2. t.nodes \ w.nodes = Tree!Removed(r)
      BY <2>1
    <2>3. Taken(t, w) = Tree!Cardinality(Tree!Removed(r)) /\ Taken(t, w) \in Nat
      BY <2>1, <2>2, FiniteFacts DEF Taken, WorksOn
    <2>4. ~Tree!Restarted(t, w)
      BY <2>1 DEF Tree!Restarted
    <2>5. Tree!FullCost(r) = past(w.refunded) - past(t.refunded)
      BY <1>1, <1>2, <2>1, <2>3 DEF Tree!FullCost, Tree!calcRespecCost
    <2>6. Tree!FullCost(r) \in Nat
      <3>1. w.refunded = t.refunded + Taken(t, w)
        BY <2>1, <2>3
      <3> HIDE DEF past
      <3>2. past(w.refunded) >= past(t.refunded) /\ past(w.refunded) \in Nat /\ past(t.refunded) \in Nat
        BY <1>1, <1>2, <1>3, <2>3, <3>1
      <3> QED BY <2>5, <3>2
    <2>7. Charged(r) = 0
      BY <1>5 DEF Charged, Tree!Kind, RefundKinds
    <2>8. CASE plan[r].kind = "deallocateBranch"
      <3>1. Tree!Cost(r) = Tree!Least(Tree!FullCost(r), PASSIVE_BRANCH_REFUND_CAP) /\ Spared(r) = Tree!FullCost(r) - Tree!Cost(r)
        BY <2>8 DEF Tree!Cost, Spared, Tree!Kind
      <3>2. Tree!Cost(r) \in Nat
        BY <2>6, <3>1, TreeParameters DEF Tree!Least, Tree!TreeAssumption
      <3>3. Paid
        BY <2>4, <2>5, <2>6, <2>7, <3>1, <3>2
      <3> QED BY <2>1, <2>3, <2>6, <2>7, <3>1, <3>2, <3>3 DEF w
    <2>9. CASE plan[r].kind \in {"deallocate", "respec"}
      <3>1. Tree!Cost(r) = Tree!FullCost(r) /\ Spared(r) = 0
        BY <2>9 DEF Tree!Cost, Spared, Tree!Kind
      <3>2. Paid
        BY <2>4, <2>5, <2>6, <2>7, <3>1
      <3> QED BY <2>1, <2>3, <2>6, <2>7, <3>1, <3>2 DEF w
    <2> QED BY <1>5, <2>8, <2>9 DEF RefundKinds
  <1>6. CASE plan[r].kind = "save"
    <2> DEFINE d == plan[r].draft
    <2>1. /\ Tree!Removed(r) = t.nodes \ d.nodes /\ w.nodes = d.nodes /\ w.ascendancy = d.ascendancy
          /\ w.refunded = t.refunded + Tree!Cardinality(Tree!Removed(r))
          /\ Tree!IsRow(w) /\ Tree!validatePassiveDraft(w, Tree!Points(progress))
      BY <1>6, SaveWrites
    <2> HIDE DEF w
    <2>2. Taken(t, w) = Tree!Cardinality(t.nodes \ d.nodes) /\ Taken(t, w) \in Nat
      BY <2>1, FiniteFacts DEF Taken, WorksOn
    <2>3. Tree!Restarted(t, w) <=> Tree!Restarted(t, d)
      BY <2>1 DEF Tree!Restarted
    <2>4. Charged(r) = Tree!Cardinality(Tree!Repicked(t, d)) /\ Spared(r) = 0
      BY <1>1, <1>6 DEF Charged, Spared, Tree!Kind, Tree!Draft
    <2>5. Charged(r) \in Nat
      <3>1. Tree!Repicked(t, d) \subseteq t.nodes
        BY DEF Tree!Repicked, WorksOn, Tree!validatePassiveDraft
      <3> QED BY <2>4, <3>1, FiniteFacts DEF WorksOn
    <2>10. /\ Tree!calcRespecCost(t.refunded, Taken(t, w)) = past(t.refunded + Taken(t, w)) - past(t.refunded)
          /\ past(t.refunded + Taken(t, w)) - past(t.refunded) \in Nat
      <3>1. PICK n \in Nat, m \in Nat : n = Taken(t, w) /\ m = t.refunded
        BY <1>1, <2>2
      <3>2. Tree!calcRespecCost(m, n) = past(m + n) - past(m) /\ Tree!calcRespecCost(m, n) \in Nat
        BY CostGrows
      <3> QED BY <3>1, <3>2
    <2>6. Tree!Cost(r) = (past(t.refunded + Taken(t, w)) - past(t.refunded)) + Charged(r) + (IF Tree!Restarted(t, w) THEN 20 ELSE 0)
      <3>1. Tree!Cost(r) = Tree!calcPassiveSaveCost(t, d)
        BY <1>1, <1>6 DEF Tree!Cost, Tree!Kind, Tree!Draft
      <3>2. Tree!calcRespecCost(t.refunded, Tree!Cardinality(t.nodes \ d.nodes)) = past(t.refunded + Taken(t, w)) - past(t.refunded)
        BY <2>10, <2>2
      <3> QED BY <2>3, <2>4, <2>5, <3>1, <3>2 DEF Tree!calcPassiveSaveCost
    <2>7. w.refunded = t.refunded + Taken(t, w)
      BY <2>1, <2>2
    <2>8. Paid
      <3>1. past(w.refunded) \in Nat /\ past(t.refunded) \in Nat
        BY <1>1, <1>2, <2>2, <2>7
      <3> HIDE DEF past
      <3> QED BY <2>4, <2>5, <2>6, <2>7, <3>1
    <2>9. Tree!Cost(r) \in Nat
      <3>1. past(t.refunded + Taken(t, w)) - past(t.refunded) \in Nat
        BY <2>10
      <3> HIDE DEF past
      <3> QED BY <2>5, <2>6, <3>1
    <2> QED BY <2>1, <2>2, <2>4, <2>5, <2>7, <2>8, <2>9 DEF w
  <1>7. CASE plan[r].kind = "pickMastery"
    <2>1. /\ w.nodes = t.nodes /\ w.ascendancy = t.ascendancy /\ w.refunded = t.refunded
          /\ Tree!IsRow(w) /\ Tree!validatePassiveDraft(w, Tree!Points(progress))
      BY <1>7, PickWrites
    <2> HIDE DEF w
    <2>2. Taken(t, w) = 0
      <3>1. t.nodes \ w.nodes = {}
        BY <2>1
      <3> QED BY <3>1, FS_EmptySet DEF Taken
    <2>3. ~Tree!Restarted(t, w)
      BY <2>1 DEF Tree!Restarted
    <2>4. Tree!Cost(r) \in {0, 1} /\ Charged(r) = Tree!Cost(r) /\ Spared(r) = 0
      BY <1>7 DEF Tree!Cost, Charged, Spared, Tree!Kind
    <2>5. Paid
      BY <1>1, <1>2, <2>1, <2>3, <2>4
    <2> QED BY <1>1, <2>1, <2>2, <2>4, <2>5 DEF w
  <1>8. CASE plan[r].kind \in {"allocateAscendancy", "resetAscendancy"}
    <2>1. /\ w.nodes = t.nodes /\ w.refunded = t.refunded
          /\ w.ascendancy = IF plan[r].kind = "resetAscendancy" THEN {} ELSE t.ascendancy \cup {plan[r].node}
          /\ Tree!IsRow(w) /\ Tree!validatePassiveDraft(w, Tree!Points(progress))
      BY <1>8, AscendWrites
    <2> HIDE DEF w
    <2>2. Taken(t, w) = 0
      <3>1. t.nodes \ w.nodes = {}
        BY <2>1
      <3> QED BY <3>1, FS_EmptySet DEF Taken
    <2>3. plan[r].kind = "resetAscendancy" => t.ascendancy # {}
      BY DEF WorksOn, Tree!IsAllowed, Tree!Kind
    <2>4. Tree!Restarted(t, w) <=> plan[r].kind = "resetAscendancy"
      BY <1>8, <2>1, <2>3 DEF Tree!Restarted
    <2>5. Tree!Cost(r) = (IF plan[r].kind = "resetAscendancy" THEN 20 ELSE 0) /\ Charged(r) = 0 /\ Spared(r) = 0
      BY <1>8 DEF Tree!Cost, Charged, Spared, Tree!Kind
    <2>6. Paid
      BY <1>1, <1>2, <2>1, <2>4, <2>5
    <2> QED BY <1>1, <2>1, <2>2, <2>5, <2>6 DEF w
  <1> HIDE DEF w, past
  <1> QED BY <1>1, <1>4, <1>5, <1>6, <1>7, <1>8 DEF Tree!Kinds, RefundKinds, w, past

---------------------------------------------------------------------------
(* The invariant                                                            *)

Past(n) == Tree!AtLeast0(n - Tree!PASSIVE_FREE_REFUNDS)
Reserved == [r \in Requests |-> IF Tree!At(r, "write") THEN cost[r] ELSE 0]

TreeControl ==
    /\ plan \in TreePlans /\ pc \in [Requests -> Tree!Labels]
    /\ mine = [r \in Requests |-> mine[r]] /\ earned = [r \in Requests |-> earned[r]] /\ cost \in [Requests -> Int]
    /\ progress \in OpeningProgress /\ Tree!IsRow(row)
    /\ gems \in Int /\ elsewhere \in Int
    /\ taken \in Int /\ capped \in Int /\ paidRepicks \in Int /\ restarts \in Int

(* From its lock to its commit a request holds the row, and has read what  *)
(* the row is; the points it has counted are still there; what it was      *)
(* allowed it is allowed, and has paid for.                                *)
TreeHeld(r) == pc[r] \in {"progress", "pay", "write"} => holder = r /\ mine[r] = row
TreePoints(r) ==
    pc[r] \in {"pay", "write"} =>
        /\ earned[r].tree \in Int /\ earned[r].tree <= Tree!Points(progress).tree
        /\ earned[r].ascendancy \in Int /\ earned[r].ascendancy <= Tree!Points(progress).ascendancy
TreePaid(r) == pc[r] = "write" => Tree!IsAllowed(r) /\ cost[r] = Tree!Cost(r)
TreeRequest(r) == TreeHeld(r) /\ TreePoints(r) /\ TreePaid(r)

TreeMoney ==
    OpeningGems - gems - elsewhere - SumFunction(Reserved)
      = Past(row.refunded) - Past(row.refunded - taken) - capped + paidRepicks + 20 * restarts

TreeInv ==
    /\ TreeControl
    /\ \A r \in DOMAIN plan : TreeRequest(r)
    /\ Tree!validatePassiveDraft(row, Tree!Points(progress))
    /\ TreeMoney

LEMMA TreeRequests ==
    ASSUME plan \in TreePlans
    PROVE  /\ DOMAIN plan \subseteq Requests /\ NoRequest \notin Requests /\ IsFiniteSet(Requests)
           /\ \A r \in DOMAIN plan : plan[r].kind \in Tree!Kinds /\ Tree!IsRow(plan[r].draft)
           /\ OpeningGems \in Int /\ PASSIVE_BRANCH_REFUND_CAP \in Nat
  BY TreeParameters, TreeSame DEF Tree!TreeAssumption

LEMMA PointsAreInts ==
    ASSUME NEW p \in OpeningProgress
    PROVE  p \in Tree!Progress /\ Tree!Points(p).tree \in Int /\ Tree!Points(p).ascendancy \in Int
  <1>1. p \in Tree!Progress
    BY TreeParameters DEF Tree!TreeAssumption
  <1>2. \A k \in DOMAIN p \ {"pvpSeasonRanks"} : p[k] >= p[k]
    BY <1>1 DEF Tree!Progress
  <1> QED BY <1>1, <1>2, PointsGrow

(* Both properties follow. *)
LEMMA TreeIsSafe ==
    ASSUME TreeInv
    PROVE  Tree!TreeStaysConnected /\ Tree!RefundsArePaid
  <1>1. Tree!TreeStaysConnected
    BY DEF TreeInv, Tree!TreeStaysConnected, Tree!validatePassiveDraft
  <1>2. Tree!RefundsArePaid
    <2>1. Tree!SumFunction([r \in Requests |-> IF Tree!At(r, "write") THEN cost[r] ELSE 0]) = SumFunction(Reserved)
      BY TreeSame DEF Reserved
    <2>2. row.refunded \in Nat /\ taken \in Int
      BY DEF TreeInv, TreeControl, Tree!IsRow
    <2>3. Tree!calcRespecCost(row.refunded - taken, taken) = Past(row.refunded) - Past(row.refunded - taken)
      BY <2>2 DEF Tree!calcRespecCost, Past, Tree!AtLeast0, Tree!PASSIVE_FREE_REFUNDS, Tree!PASSIVE_RESPEC_GEM_PRICE
    <2>4. TreeMoney
      BY DEF TreeInv
    <2> QED BY <2>1, <2>3, <2>4 DEF TreeMoney, Tree!RefundsArePaid, Tree!ASCENDANCY_RESET_GEM_PRICE
  <1> QED BY <1>1, <1>2

LEMMA TreeStarts ==
    ASSUME Tree!Init
    PROVE  TreeInv
  <1>1. TreeControl
    BY TreeParameters DEF Tree!Init, TreeControl, Tree!TreeAssumption, Tree!Labels
  <1>2. \A r \in DOMAIN plan : TreeRequest(r)
    <2>1. \A r \in DOMAIN plan : pc[r] = "idle"
      BY TreeRequests DEF Tree!Init
    <2> QED BY <2>1 DEF TreeRequest, TreeHeld, TreePoints, TreePaid
  <1>3. Tree!validatePassiveDraft(row, Tree!Points(progress))
    BY TreeParameters DEF Tree!Init, Tree!TreeAssumption
  <1>4. TreeMoney
    <2>1. Reserved = [r \in Requests |-> 0]
      BY DEF Reserved, Tree!Init, Tree!At
    <2>2. SumFunction(Reserved) = 0
      BY <1>1, <2>1, TreeRequests, SumOfZeros DEF TreeControl
    <2>3. row.refunded \in Nat /\ OpeningGems \in Int
      BY <1>1, TreeRequests DEF TreeControl, Tree!IsRow
    <2>4. Past(row.refunded) \in Int /\ Past(row.refunded - 0) = Past(row.refunded)
      BY <2>3 DEF Past, Tree!AtLeast0, Tree!PASSIVE_FREE_REFUNDS
    <2> QED BY <2>2, <2>3, <2>4 DEF TreeMoney, Tree!Init
  <1> QED BY <1>1, <1>2, <1>3, <1>4 DEF TreeInv

---------------------------------------------------------------------------
(* Steps                                                                    *)

(* A step of r leaves to the others what they rely on. *)
LEMMA OthersKeep ==
    ASSUME TreeInv, NEW r \in DOMAIN plan, NEW s \in DOMAIN plan, s # r,
           plan' = plan, pc' = [pc EXCEPT ![r] = pc'[r]], progress' = progress,
           mine'[s] = mine[s], earned'[s] = earned[s], cost'[s] = cost[s],
           holder \in {r, NoRequest} \/ UNCHANGED <<holder, row>>
    PROVE  TreeRequest(s)'
  <1>1. s \in Requests /\ NoRequest \notin Requests /\ pc'[s] = pc[s]
    BY TreeRequests DEF TreeInv, TreeControl
  <1>2. TreeHeld(s) /\ TreePoints(s) /\ TreePaid(s)
    BY DEF TreeInv, TreeRequest
  <1>3. TreeHeld(s)'
    BY <1>1, <1>2 DEF TreeHeld
  <1>4. TreePoints(s)'
    BY <1>1, <1>2 DEF TreePoints
  <1>5. TreePaid(s)'
    <2>1. Tree!IsAllowed(s)' <=> Tree!IsAllowed(s)
      BY DEF Tree!IsAllowed, Tree!Kind, Tree!Node, Tree!Draft
    <2>2. Tree!Cost(s)' = Tree!Cost(s)
      BY DEF Tree!Cost, Tree!FullCost, Tree!Removed, Tree!Kind, Tree!Node, Tree!Draft
    <2> QED BY <1>1, <1>2, <2>1, <2>2 DEF TreePaid
  <1> QED BY <1>3, <1>4, <1>5 DEF TreeRequest

LEMMA ReservedChanges ==
    ASSUME TreeControl, TreeControl', NEW r \in DOMAIN plan,
           plan' = plan, pc' = [pc EXCEPT ![r] = pc'[r]], \A s \in Requests : s # r => cost'[s] = cost[s]
    PROVE  /\ SumFunction(Reserved) \in Int
           /\ SumFunction(Reserved)' = SumFunction(Reserved)
                + (IF pc'[r] = "write" THEN cost'[r] ELSE 0) - (IF pc[r] = "write" THEN cost[r] ELSE 0)
           /\ cost[r] \in Int /\ cost'[r] \in Int
  <1>1. r \in Requests /\ IsFiniteSet(Requests)
    BY TreeRequests DEF TreeControl
  <1>2. PICK f, g : f = Reserved /\ g = Reserved'
    OBVIOUS
  <1>3. f \in [Requests -> Int]
    BY <1>2 DEF Reserved, TreeControl
  <1>4. g \in [Requests -> Int]
    BY <1>2 DEF Reserved, TreeControl
  <1>5. \A s \in Requests : s # r => g[s] = f[s]
    BY <1>2 DEF Reserved, TreeControl, Tree!At
  <1>6. g[r] = (IF pc'[r] = "write" THEN cost'[r] ELSE 0) /\ f[r] = (IF pc[r] = "write" THEN cost[r] ELSE 0)
    BY <1>1, <1>2 DEF Reserved, Tree!At
  <1>7. SumFunction(g) = SumFunction(f) + g[r] - f[r] /\ SumFunction(f) \in Int
    <2>1. SumFunction(g) = SumFunction(f) + g[r] - f[r]
      BY <1>1, <1>3, <1>4, <1>5, SumChanges
    <2>2. SumFunction(f) \in Int
      BY <1>1, <1>3, SumIsInt
    <2> QED BY <2>1, <2>2
  <1>8. cost[r] \in Int /\ cost'[r] \in Int
    BY <1>1 DEF TreeControl
  <1> QED BY <1>2, <1>6, <1>7, <1>8

(* Begin, LockRow and ReadProgress pay nothing and write nothing. *)
LEMMA EarlyKeeps ==
    ASSUME TreeInv, NEW r \in DOMAIN plan, Tree!Begin(r) \/ Tree!LockRow(r) \/ Tree!ReadProgress(r)
    PROVE  TreeInv'
  <1>1. r \in Requests /\ NoRequest \notin Requests /\ TreeControl /\ TreeRequest(r)
    BY TreeRequests DEF TreeInv, TreeControl
  <1>2. /\ plan' = plan /\ progress' = progress /\ row' = row /\ cost' = cost /\ gems' = gems
        /\ elsewhere' = elsewhere /\ taken' = taken /\ capped' = capped /\ paidRepicks' = paidRepicks /\ restarts' = restarts
        /\ pc' = [pc EXCEPT ![r] = pc'[r]] /\ pc[r] # "write" /\ pc'[r] # "write" /\ pc'[r] \in Tree!Labels
        /\ mine' = [mine EXCEPT ![r] = mine'[r]] /\ earned' = [earned EXCEPT ![r] = earned'[r]]
        /\ holder \in {r, NoRequest} \/ UNCHANGED <<holder, row>>
    <2>1. CASE Tree!Begin(r)
      BY <1>1, <2>1 DEF Tree!Begin, Tree!At, Tree!Goto, Tree!Labels, TreeControl, Tree!tables, Tree!ghosts
    <2>2. CASE Tree!LockRow(r)
      BY <1>1, <2>2 DEF Tree!LockRow, Tree!Free, Tree!At, Tree!Goto, Tree!Labels, TreeControl, Tree!tables, Tree!ghosts
    <2>3. CASE Tree!ReadProgress(r)
      BY <1>1, <2>3 DEF Tree!ReadProgress, Tree!At, Tree!Goto, Tree!Labels, TreeControl, Tree!tables, Tree!ghosts
    <2> QED BY <2>1, <2>2, <2>3
  <1>3. TreeControl'
    BY <1>1, <1>2 DEF TreeControl, Tree!IsRow
  <1>4. TreeRequest(r)'
    <2>1. CASE Tree!Begin(r)
      BY <1>1, <2>1 DEF Tree!Begin, Tree!At, Tree!Goto, TreeControl, TreeRequest, TreeHeld, TreePoints, TreePaid
    <2>2. CASE Tree!LockRow(r)
      BY <1>1, <2>2 DEF Tree!LockRow, Tree!At, Tree!Goto, TreeControl, TreeRequest, TreeHeld, TreePoints, TreePaid, Tree!tables
    <2>3. CASE Tree!ReadProgress(r)
      <3>1. pc[r] = "progress" /\ pc'[r] = "pay" /\ earned'[r] = Tree!Points(progress) /\ mine' = mine /\ holder' = holder
        BY <1>1, <2>3 DEF Tree!ReadProgress, Tree!At, Tree!Goto, TreeControl
      <3>2. Tree!Points(progress).tree \in Int /\ Tree!Points(progress).ascendancy \in Int
        BY <1>1, PointsAreInts DEF TreeControl
      <3> QED BY <1>1, <1>2, <3>1, <3>2 DEF TreeRequest, TreeHeld, TreePoints, TreePaid
    <2> QED BY <2>1, <2>2, <2>3
  <1>5. \A s \in DOMAIN plan : TreeRequest(s)'
    <2> SUFFICES ASSUME NEW s \in DOMAIN plan, s # r PROVE TreeRequest(s)'
      BY <1>4
    <2>1. s \in Requests
      BY TreeRequests DEF TreeInv, TreeControl
    <2>2. mine'[s] = mine[s] /\ earned'[s] = earned[s] /\ cost'[s] = cost[s]
      BY <1>1, <1>2, <2>1 DEF TreeControl
    <2> QED BY <1>2, <2>2, OthersKeep
  <1>6. TreeMoney'
    <2>1. SumFunction(Reserved)' = SumFunction(Reserved) /\ SumFunction(Reserved) \in Int
      BY <1>1, <1>2, <1>3, ReservedChanges
    <2> QED BY <1>2, <2>1 DEF TreeInv, TreeMoney, Past
  <1> QED BY <1>2, <1>3, <1>5, <1>6 DEF TreeInv

LEMMA PayKeeps ==
    ASSUME TreeInv, NEW r \in DOMAIN plan, Tree!Pay(r)
    PROVE  TreeInv'
  <1>1. r \in Requests /\ NoRequest \notin Requests /\ TreeControl /\ TreeRequest(r)
    BY TreeRequests DEF TreeInv, TreeControl
  <1>2. /\ plan' = plan /\ progress' = progress /\ row' = row /\ mine' = mine /\ earned' = earned
        /\ elsewhere' = elsewhere /\ taken' = taken /\ capped' = capped /\ paidRepicks' = paidRepicks /\ restarts' = restarts
        /\ pc' = [pc EXCEPT ![r] = pc'[r]] /\ pc[r] = "pay" /\ pc'[r] = "write"
        /\ holder' = holder /\ Tree!IsAllowed(r) /\ cost' = [cost EXCEPT ![r] = Tree!Cost(r)]
        /\ gems' = IF Tree!Cost(r) > 0 THEN gems - Tree!Cost(r) ELSE gems
    BY <1>1 DEF Tree!Pay, Tree!At, Tree!Goto, TreeControl, Tree!tables, Tree!ghosts
  <1>3. holder = r /\ WorksOn(r, row)
    <2>1. holder = r /\ mine[r] = row
      BY <1>1, <1>2 DEF TreeRequest, TreeHeld
    <2>2. Tree!Points(progress).tree \in Int /\ Tree!Points(progress).ascendancy \in Int
      BY <1>1, PointsAreInts DEF TreeControl
    <2> QED BY <1>1, <1>2, <2>1, <2>2, TreeRequests DEF WorksOn, TreeInv, TreeControl, TreeRequest, TreePoints
  <1>4. Tree!Cost(r) \in Nat
    BY <1>3, Writes
  <1>5. TreeControl'
    <2>1. gems' \in Int /\ cost' \in [Requests -> Int] /\ pc' \in [Requests -> Tree!Labels]
      BY <1>1, <1>2, <1>4 DEF TreeControl, Tree!Labels
    <2> QED BY <1>1, <1>2, <2>1 DEF TreeControl, Tree!IsRow
  <1>6. TreeRequest(r)'
    <2>1. Tree!IsAllowed(r)' <=> Tree!IsAllowed(r)
      BY <1>2 DEF Tree!IsAllowed, Tree!Kind, Tree!Node, Tree!Draft
    <2>2. Tree!Cost(r)' = Tree!Cost(r)
      BY <1>2 DEF Tree!Cost, Tree!FullCost, Tree!Removed, Tree!Kind, Tree!Node, Tree!Draft
    <2>3. cost'[r] = Tree!Cost(r)
      BY <1>1, <1>2 DEF TreeControl
    <2> QED BY <1>1, <1>2, <2>1, <2>2, <2>3 DEF TreeRequest, TreeHeld, TreePoints, TreePaid
  <1>7. \A s \in DOMAIN plan : TreeRequest(s)'
    <2> SUFFICES ASSUME NEW s \in DOMAIN plan, s # r PROVE TreeRequest(s)'
      BY <1>6
    <2>1. s \in Requests
      BY TreeRequests DEF TreeInv, TreeControl
    <2>2. cost'[s] = cost[s]
      BY <1>1, <1>2, <2>1 DEF TreeControl
    <2> QED BY <1>2, <1>3, <2>2, OthersKeep
  <1>8. TreeMoney'
    <2>1. cost'[r] = Tree!Cost(r) /\ \A s \in Requests : s # r => cost'[s] = cost[s]
      BY <1>1, <1>2 DEF TreeControl
    <2>2. SumFunction(Reserved)' = SumFunction(Reserved) + Tree!Cost(r) /\ SumFunction(Reserved) \in Int
      BY <1>1, <1>2, <1>4, <1>5, <2>1, ReservedChanges
    <2>3. gems' = gems - Tree!Cost(r)
      BY <1>1, <1>2, <1>4 DEF TreeControl
    <2>4. OpeningGems - gems' - elsewhere - SumFunction(Reserved)' = OpeningGems - gems - elsewhere - SumFunction(Reserved)
      BY <1>1, <1>4, <2>2, <2>3, TreeRequests DEF TreeControl
    <2> QED BY <1>2, <2>4 DEF TreeInv, TreeMoney, Past
  <1> QED BY <1>2, <1>5, <1>7, <1>8 DEF TreeInv

LEMMA WriteKeeps ==
    ASSUME TreeInv, NEW r \in DOMAIN plan, Tree!Write(r)
    PROVE  TreeInv'
  <1>1. r \in Requests /\ NoRequest \notin Requests /\ TreeControl /\ TreeRequest(r)
    BY TreeRequests DEF TreeInv, TreeControl
  <1>2. /\ plan' = plan /\ progress' = progress /\ mine' = mine /\ earned' = earned /\ cost' = cost /\ gems' = gems
        /\ elsewhere' = elsewhere /\ row' = Tree!Written(r)
        /\ pc' = [pc EXCEPT ![r] = pc'[r]] /\ pc[r] = "write" /\ pc'[r] = "committed"
    BY <1>1 DEF Tree!Write, Tree!At, Tree!Goto, TreeControl
  <1>3. holder = r /\ WorksOn(r, row) /\ cost[r] = Tree!Cost(r)
    <2>1. holder = r /\ mine[r] = row /\ Tree!IsAllowed(r) /\ cost[r] = Tree!Cost(r)
      BY <1>1, <1>2 DEF TreeRequest, TreeHeld, TreePaid
    <2>2. Tree!Points(progress).tree \in Int /\ Tree!Points(progress).ascendancy \in Int
      BY <1>1, PointsAreInts DEF TreeControl
    <2> QED BY <1>1, <1>2, <2>1, <2>2, TreeRequests DEF WorksOn, TreeInv, TreeControl, TreeRequest, TreePoints
  <1>4. /\ Tree!IsRow(row') /\ Tree!validatePassiveDraft(row', Tree!Points(progress))
        /\ row'.refunded = row.refunded + Taken(row, row') /\ Taken(row, row') \in Nat
        /\ Tree!Cost(r) \in Nat /\ Spared(r) \in Int /\ Charged(r) \in Nat
        /\ Tree!Cost(r) = Past(row'.refunded) - Past(row.refunded) - Spared(r) + Charged(r)
                          + (IF Tree!Restarted(row, row') THEN 20 ELSE 0)
    BY <1>2, <1>3, Writes DEF Past
  <1>5. /\ taken' = taken + Taken(row, row')
        /\ restarts' = restarts + (IF Tree!Restarted(row, row') THEN 1 ELSE 0)
        /\ capped' = capped + Spared(r)
        /\ paidRepicks' = paidRepicks + Charged(r)
    <2>1. taken' = taken + Taken(row, row')
      BY TreeSame DEF Tree!Write, Taken
    <2>2. restarts' = restarts + (IF Tree!Restarted(row, row') THEN 1 ELSE 0)
      BY DEF Tree!Write
    <2>3. capped' = capped + Spared(r)
      BY DEF Tree!Write, Spared
    <2>4. paidRepicks' = paidRepicks + 1 * Charged(r)
      BY <1>3 DEF Tree!Write, Charged, Tree!MASTERY_REPICK_GEM_PRICE
    <2> QED BY <1>4, <2>1, <2>2, <2>3, <2>4
  <1>6. TreeControl'
    <2>1. taken' \in Int /\ restarts' \in Int /\ capped' \in Int /\ paidRepicks' \in Int
      BY <1>1, <1>4, <1>5 DEF TreeControl
    <2>2. pc' \in [Requests -> Tree!Labels]
      BY <1>1, <1>2 DEF TreeControl, Tree!Labels
    <2> QED BY <1>1, <1>2, <1>4, <2>1, <2>2 DEF TreeControl, Tree!IsRow
  <1>7. \A s \in DOMAIN plan : TreeRequest(s)'
    <2>1. TreeRequest(r)'
      BY <1>2 DEF TreeRequest, TreeHeld, TreePoints, TreePaid
    <2>2. ASSUME NEW s \in DOMAIN plan, s # r PROVE TreeRequest(s)'
      BY <1>2, <1>3, <2>2, OthersKeep
    <2> QED BY <2>1, <2>2
  <1>8. TreeMoney'
    <2>1. SumFunction(Reserved)' = SumFunction(Reserved) - Tree!Cost(r) /\ SumFunction(Reserved) \in Int
      BY <1>1, <1>2, <1>3, <1>4, <1>6, ReservedChanges
    <2>2. row.refunded \in Nat
      BY <1>1 DEF TreeControl, Tree!IsRow
    <2>3. row'.refunded - taken' = row.refunded - taken
      BY <1>1, <1>4, <1>5, <2>2 DEF TreeControl
    <2>4. /\ Past(row.refunded) \in Int /\ Past(row'.refunded) \in Int
          /\ Past(row.refunded - taken) \in Int /\ Past(row'.refunded - taken') = Past(row.refunded - taken)
      BY <1>1, <1>4, <2>2, <2>3 DEF TreeControl, Past, Tree!AtLeast0, Tree!PASSIVE_FREE_REFUNDS
    <2>5. Past(row.refunded)' = Past(row'.refunded) /\ Past(row.refunded - taken)' = Past(row'.refunded - taken')
      BY DEF Past
    <2>6. Tree!Cost(r) = Past(row'.refunded) - Past(row.refunded) - Spared(r) + Charged(r)
                         + 20 * (restarts' - restarts)
      BY <1>1, <1>4, <1>5, <2>4 DEF TreeControl
    <2>7. restarts' \in Int
      BY <1>6 DEF TreeControl
    <2>8. TreeMoney
      BY DEF TreeInv
    <2> HIDE DEF Past, Spared, Charged
    <2>9. OpeningGems - gems - elsewhere - (SumFunction(Reserved) - Tree!Cost(r))
            = Past(row'.refunded) - Past(row'.refunded - taken') - capped' + paidRepicks' + 20 * restarts'
      <3> DEFINE c == Tree!Cost(r)
                 s == SumFunction(Reserved)
                 a == Past(row.refunded)
                 b == Past(row'.refunded)
                 d == Past(row.refunded - taken)
                 e == Spared(r)
                 f == Charged(r)
      <3>1. OpeningGems - gems - elsewhere - s = a - d - capped + paidRepicks + 20 * restarts
        BY <2>8 DEF TreeMoney
      <3>2. /\ c \in Int /\ s \in Int /\ a \in Int /\ b \in Int /\ d \in Int /\ e \in Int /\ f \in Int
            /\ OpeningGems \in Int /\ gems \in Int /\ elsewhere \in Int /\ capped \in Int
            /\ paidRepicks \in Int /\ restarts \in Int
        BY <1>1, <1>4, <2>1, <2>4, TreeRequests DEF TreeControl
      <3>3. c = b - a - e + f + 20 * (restarts' - restarts)
        BY <2>6
      <3>4. capped' = capped + e /\ paidRepicks' = paidRepicks + f /\ Past(row'.refunded - taken') = d
        BY <1>5, <2>4
      <3> HIDE DEF a, b, c, d, e, f, s
      <3>5. OpeningGems - gems - elsewhere - (s - c) = b - d - capped' + paidRepicks' + 20 * restarts'
        BY <2>7, <3>1, <3>2, <3>3, <3>4
      <3> QED BY <3>4, <3>5 DEF b, c, d, s
    <2> QED BY <1>2, <2>1, <2>5, <2>9 DEF TreeMoney
  <1> QED BY <1>2, <1>4, <1>6, <1>7, <1>8 DEF TreeInv

LEMMA AbortKeeps ==
    ASSUME TreeInv, NEW r \in DOMAIN plan, Tree!Abort(r)
    PROVE  TreeInv'
  <1>1. r \in Requests /\ NoRequest \notin Requests /\ TreeControl /\ TreeRequest(r)
    BY TreeRequests DEF TreeInv, TreeControl
  <1>2. /\ plan' = plan /\ progress' = progress /\ row' = row /\ mine' = mine /\ earned' = earned /\ cost' = cost
        /\ elsewhere' = elsewhere /\ taken' = taken /\ capped' = capped /\ paidRepicks' = paidRepicks /\ restarts' = restarts
        /\ pc' = [pc EXCEPT ![r] = pc'[r]] /\ pc[r] \in {"pay", "write"} /\ pc'[r] = "rolledBack"
        /\ gems' = IF pc[r] = "write" THEN gems + cost[r] ELSE gems
    BY <1>1 DEF Tree!Abort, Tree!At, Tree!Goto, TreeControl, Tree!ghosts
  <1>3. holder = r
    BY <1>1, <1>2 DEF TreeRequest, TreeHeld
  <1>4. cost[r] \in Int
    BY <1>1 DEF TreeControl
  <1>5. TreeControl'
    <2>1. gems' \in Int /\ pc' \in [Requests -> Tree!Labels]
      BY <1>1, <1>2, <1>4 DEF TreeControl, Tree!Labels
    <2> QED BY <1>1, <1>2, <2>1 DEF TreeControl, Tree!IsRow
  <1>6. \A s \in DOMAIN plan : TreeRequest(s)'
    <2>1. TreeRequest(r)'
      BY <1>2 DEF TreeRequest, TreeHeld, TreePoints, TreePaid
    <2>2. ASSUME NEW s \in DOMAIN plan, s # r PROVE TreeRequest(s)'
      BY <1>2, <1>3, <2>2, OthersKeep
    <2> QED BY <2>1, <2>2
  <1>7. TreeMoney'
    <2>1. /\ SumFunction(Reserved)' = SumFunction(Reserved) - (IF pc[r] = "write" THEN cost[r] ELSE 0)
          /\ SumFunction(Reserved) \in Int
      BY <1>1, <1>2, <1>4, <1>5, ReservedChanges
    <2>2. OpeningGems - gems' - elsewhere - SumFunction(Reserved)' = OpeningGems - gems - elsewhere - SumFunction(Reserved)
      BY <1>1, <1>2, <1>4, <2>1, TreeRequests DEF TreeControl
    <2> QED BY <1>2, <2>2 DEF TreeInv, TreeMoney, Past
  <1> QED BY <1>2, <1>5, <1>6, <1>7 DEF TreeInv

(* What else the trainer does leaves the requests what they have counted. *)
LEMMA MeanwhileKeeps ==
    ASSUME TreeInv, Tree!Achieve \/ Tree!SpendElsewhere \/ UNCHANGED Tree!vars
    PROVE  TreeInv'
  <1> USE DEF Tree!requestVars, Tree!ghosts, Tree!tables, Tree!vars
  <1>1. TreeControl
    BY DEF TreeInv
  <1>2. /\ UNCHANGED <<plan, pc, mine, earned, cost, holder, row, taken, restarts, paidRepicks, capped>>
        /\ progress' \in OpeningProgress /\ gems' \in Int /\ elsewhere' \in Int /\ gems' + elsewhere' = gems + elsewhere
        /\ Tree!Points(progress).tree \in Int /\ Tree!Points(progress).ascendancy \in Int
        /\ Tree!Points(progress').tree \in Int /\ Tree!Points(progress').ascendancy \in Int
        /\ Tree!Points(progress).tree <= Tree!Points(progress').tree
        /\ Tree!Points(progress).ascendancy <= Tree!Points(progress').ascendancy
    <2>1. CASE Tree!Achieve
      <3>1. progress \in Tree!Progress /\ progress' \in OpeningProgress /\ progress' \in Tree!Progress
        BY <1>1, <2>1, PointsAreInts DEF Tree!Achieve, TreeControl
      <3>2. progress'.pvpSeasonRanks = progress.pvpSeasonRanks
            /\ \A k \in DOMAIN progress' \ {"pvpSeasonRanks"} : progress'[k] >= progress[k]
        BY <2>1 DEF Tree!Achieve
      <3>3. /\ UNCHANGED <<plan, pc, mine, earned, cost, holder, row, taken, restarts, paidRepicks, capped>>
            /\ gems' = gems /\ elsewhere' = elsewhere
        BY <2>1 DEF Tree!Achieve
      <3>4. gems' \in Int /\ elsewhere' \in Int /\ gems' + elsewhere' = gems + elsewhere
        BY <1>1, <3>3 DEF TreeControl
      <3> QED BY <3>1, <3>2, <3>3, <3>4, PointsGrow
    <2>2. CASE Tree!SpendElsewhere \/ UNCHANGED Tree!vars
      <3>1. progress' = progress /\ progress \in OpeningProgress
        BY <1>1, <2>2 DEF Tree!SpendElsewhere, TreeControl
      <3>2. Tree!Points(progress).tree \in Int /\ Tree!Points(progress).ascendancy \in Int
        BY <3>1, PointsAreInts
      <3>3. gems' \in Int /\ elsewhere' \in Int /\ gems' + elsewhere' = gems + elsewhere
        BY <1>1, <2>2 DEF Tree!SpendElsewhere, TreeControl
      <3>4. UNCHANGED <<plan, pc, mine, earned, cost, holder, row, taken, restarts, paidRepicks, capped>>
        BY <2>2 DEF Tree!SpendElsewhere
      <3> QED BY <3>1, <3>2, <3>3, <3>4
    <2> QED BY <2>1, <2>2
  <1>3. TreeControl'
    BY <1>1, <1>2 DEF TreeControl, Tree!IsRow
  <1>4. \A s \in DOMAIN plan : TreeRequest(s)'
    <2> SUFFICES ASSUME NEW s \in DOMAIN plan PROVE TreeRequest(s)'
      BY <1>2
    <2>1. TreeHeld(s) /\ TreePoints(s) /\ TreePaid(s)
      BY DEF TreeInv, TreeRequest
    <2>2. TreeHeld(s)'
      BY <1>2, <2>1 DEF TreeHeld
    <2>3. TreePoints(s)'
      <3> DEFINE a == Tree!Points(progress)
                 b == Tree!Points(progress')
      <3>1. Tree!Points(progress)' = b
        BY DEF Tree!Points, Tree!calcPassivePoints, Tree!SeasonPoints, Tree!calcAscendancyPoints
      <3>2. pc[s] \in {"pay", "write"} =>
               /\ earned[s].tree \in Int /\ earned[s].tree <= a.tree
               /\ earned[s].ascendancy \in Int /\ earned[s].ascendancy <= a.ascendancy
        BY <2>1 DEF TreePoints
      <3>3. /\ a.tree \in Int /\ a.ascendancy \in Int /\ b.tree \in Int /\ b.ascendancy \in Int
            /\ a.tree <= b.tree /\ a.ascendancy <= b.ascendancy
        BY <1>2
      <3> HIDE DEF a, b
      <3> QED BY <1>2, <3>1, <3>2, <3>3 DEF TreePoints
    <2>4. TreePaid(s)'
      <3>1. Tree!IsAllowed(s)' <=> Tree!IsAllowed(s)
        BY <1>2 DEF Tree!IsAllowed, Tree!Kind, Tree!Node, Tree!Draft
      <3>2. Tree!Cost(s)' = Tree!Cost(s)
        BY <1>2 DEF Tree!Cost, Tree!FullCost, Tree!Removed, Tree!Kind, Tree!Node, Tree!Draft
      <3> QED BY <1>2, <2>1, <3>1, <3>2 DEF TreePaid
    <2> QED BY <2>2, <2>3, <2>4 DEF TreeRequest
  <1>5. Tree!validatePassiveDraft(row', Tree!Points(progress'))
    <2>1. Tree!IsFiniteSet(row.nodes) /\ Tree!IsFiniteSet(row.ascendancy)
      BY <1>1 DEF TreeControl, Tree!IsRow
    <2>2. Tree!validatePassiveDraft(row, Tree!Points(progress))
      BY DEF TreeInv
    <2> QED BY <1>2, <2>1, <2>2, MorePointsAllow
  <1>6. TreeMoney'
    <2>1. Reserved' = Reserved
      BY <1>2 DEF Reserved, Tree!At
    <2>2. SumFunction(Reserved)' = SumFunction(Reserved)
      BY <2>1
    <2>3. SumFunction(Reserved) \in Int
      <3>1. Reserved \in [Requests -> Int]
        BY <1>1 DEF Reserved, TreeControl
      <3> QED BY <1>1, <3>1, TreeRequests, SumIsInt DEF TreeControl
    <2>4. OpeningGems - gems' - elsewhere' - SumFunction(Reserved)' = OpeningGems - gems - elsewhere - SumFunction(Reserved)
      BY <1>1, <1>2, <2>2, <2>3, TreeRequests DEF TreeControl
    <2> QED BY <1>2, <2>4 DEF TreeInv, TreeMoney, Past
  <1>7. Tree!validatePassiveDraft(row, Tree!Points(progress))'
    BY <1>5 DEF Tree!validatePassiveDraft, Tree!Points, Tree!calcPassivePoints, Tree!SeasonPoints, Tree!calcAscendancyPoints
  <1> QED BY <1>2, <1>3, <1>4, <1>6, <1>7 DEF TreeInv

LEMMA TreeStep ==
    ASSUME TreeInv, Tree!Next \/ UNCHANGED Tree!vars
    PROVE  TreeInv'
  BY EarlyKeeps, PayKeeps, WriteKeeps, AbortKeeps, MeanwhileKeeps DEF Tree!Next, Tree!Step

---------------------------------------------------------------------------
(* Turn battles                                                             *)

LEMMA RoundsSame == \A f : Rounds!SumFunction(f) = SumFunction(f)
  BY DEF Rounds!SumFunction, SumFunction, Rounds!SumFunctionOnSet, SumFunctionOnSet,
         Rounds!FoldFunctionOnSet, FoldFunctionOnSet, Rounds!MapThenFoldSet, MapThenFoldSet

(* The flames on a fighter; those on the boss were lit by a member. *)
Flame == [turns : Int, damage : Nat, source : Rounds!All]
IsFlame(burn, f) ==
    burn # <<>> => burn[1] \in Flame /\ (f = Rounds!Boss => burn[1].source \in Rounds!Members)

IsStanding(x, f) ==
    /\ x = [hp |-> x.hp, shield |-> x.shield, burn |-> x.burn]
    /\ x.hp \in 0..Rounds!Fighter(f).hp /\ x.shield \in Nat /\ IsFlame(x.burn, f)
AreStanding(s) == DOMAIN s = Rounds!All /\ \A f \in Rounds!All : IsStanding(s[f], f)

(* A fight that is not over has somebody to act, and who strikes is on the *)
(* other side of who is struck.                                            *)
RoundsControl ==
    /\ battle \in Battles /\ over \in BOOLEAN
    /\ stage \in {"round", "turn", "strike", "double"}
    /\ AreStanding(side)
    /\ damageByMember \in [Rounds!Members -> Int]
    /\ order \in Seq(Rounds!All)
    /\ stage \in {"strike", "double"} => ~over
    /\ stage # "round" /\ ~over => Len(order) > 0
    /\ stage = "round" => ~over /\ ~Rounds!isOver(side)
    /\ stage \in {"strike", "double"} =>
          /\ actor \in Rounds!All /\ foe \in Rounds!All
          /\ actor = Rounds!Boss => foe \in Rounds!Members
          /\ actor # Rounds!Boss => foe = Rounds!Boss

DamageSum(damage, s) ==
    LET dealt == Rounds!Fighter(Rounds!Boss).hp - s[Rounds!Boss].hp
    IN SumFunction(damage) >= dealt /\ (~Rounds!BossHeals => SumFunction(damage) = dealt)

RoundsInv ==
    /\ RoundsControl
    /\ DamageSum(damageByMember, side)
    /\ Rounds!EventsTellTheHp

LEMMA LineUp ==
    ASSUME battle \in Battles
    PROVE  /\ Rounds!Boss \in Nat /\ Rounds!Boss > 1 /\ Rounds!All = 1..Rounds!Boss
           /\ Rounds!Members = 1..(Rounds!Boss - 1) /\ IsFiniteSet(Rounds!Members)
           /\ \A f \in Rounds!All : Rounds!IsFighter(Rounds!Fighter(f))
  <1>1. PICK n : n \in Nat \ {0, 1} /\ DOMAIN battle.fighters = 1..n /\ Len(battle.fighters) = n
    BY RoundsParameters, ZenonT(30) DEF Rounds!RoundsAssumption
  <1>2. Rounds!All = 1..n /\ Rounds!Boss = n /\ Rounds!Members = 1..(n - 1)
    BY <1>1 DEF Rounds!All, Rounds!Boss, Rounds!Members
  <1>3. IsFiniteSet(1..(n - 1))
    <2>1. 1 \in Int /\ n - 1 \in Int
      BY <1>1
    <2> QED BY <2>1, FS_Interval
  <1>4. \A f \in Rounds!All : Rounds!IsFighter(Rounds!Fighter(f))
    BY RoundsParameters DEF Rounds!RoundsAssumption, Rounds!All, Rounds!Fighter
  <1> QED BY <1>1, <1>2, <1>3, <1>4

(* Credit moves the sum by what is credited. *)
LEMMA CreditAdds ==
    ASSUME battle \in Battles, damageByMember \in [Rounds!Members -> Int], NEW m \in Rounds!Members, NEW n \in Int
    PROVE  /\ Rounds!Credit(m, n) \in [Rounds!Members -> Int]
           /\ SumFunction(Rounds!Credit(m, n)) = SumFunction(damageByMember) + n
           /\ SumFunction(damageByMember) \in Int
  <1> DEFINE f == damageByMember
             g == Rounds!Credit(m, n)
  <1>1. g \in [Rounds!Members -> Int] /\ g[m] = f[m] + n /\ \A k \in Rounds!Members : k # m => g[k] = f[k]
    BY DEF Rounds!Credit
  <1>2. f \in [Rounds!Members -> Int] /\ f[m] \in Int /\ IsFiniteSet(Rounds!Members)
    BY LineUp
  <1> HIDE DEF f, g
  <1>3. SumFunction(f) \in Int
    BY <1>2, SumIsInt
  <1>4. SumFunction(g) = SumFunction(f) + g[m] - f[m]
    BY <1>1, <1>2, SumChanges
  <1>5. SumFunction(g) = SumFunction(f) + n
    BY <1>1, <1>2, <1>3, <1>4
  <1> QED BY <1>1, <1>3, <1>5 DEF f, g

(* What the boss loses is credited, and what it heals is not taken back. *)
LEMMA SumFollows ==
    ASSUME battle \in Battles, NEW d, NEW e, NEW s, NEW t, DamageSum(d, s),
           NEW lost \in Int, NEW healed \in Nat, Rounds!BossHeals \/ healed = 0,
           SumFunction(d) \in Int, SumFunction(e) = SumFunction(d) + lost,
           s[Rounds!Boss].hp \in Int, t[Rounds!Boss].hp = s[Rounds!Boss].hp - lost + healed
    PROVE  DamageSum(e, t)
  <1>1. Rounds!Fighter(Rounds!Boss).hp \in Int
    BY LineUp DEF Rounds!IsFighter
  <1> QED BY <1>1 DEF DamageSum

LEMMA ShareIsSome ==
    ASSUME NEW n \in Int, NEW pct \in Int
    PROVE  Rounds!Share(n, pct) \in Nat \ {0}
  <1>1. PICK k \in Int : k = (n * pct) \div 100
    OBVIOUS
  <1> QED BY <1>1 DEF Rounds!Share, Rounds!Most

---------------------------------------------------------------------------

LEMMA RoundsStart ==
    ASSUME Rounds!Init
    PROVE  RoundsInv
  <1>1. battle \in Battles /\ Rounds!Begin(battle)
    BY DEF Rounds!Init, Rounds!Begin
  <1>2. \A f \in Rounds!All : side[f] = Rounds!makeCombatant(Rounds!Fighter(f)) /\ told[f] = Rounds!Fighter(f).hp
    BY <1>1 DEF Rounds!Begin, Rounds!All, Rounds!Fighter
  <1>3. \A f \in Rounds!All :
           /\ side[f].hp = Rounds!Fighter(f).hp /\ side[f].hp \in Nat \ {0}
           /\ IsStanding(side[f], f)
    <2> TAKE f \in Rounds!All
    <2>1. Rounds!IsFighter(Rounds!Fighter(f))
      BY <1>1, LineUp
    <2>2. Rounds!Fighter(f).hp \in Nat \ {0} /\ Rounds!Fighter(f).effects.shield \in Nat
      BY <2>1 DEF Rounds!IsFighter
    <2>3. side[f] = [hp |-> Rounds!Fighter(f).hp, shield |-> Rounds!Fighter(f).effects.shield, burn |-> <<>>]
      BY <1>2 DEF Rounds!makeCombatant
    <2>4. Rounds!Fighter(f).hp \in 0..Rounds!Fighter(f).hp /\ IsFlame(<<>>, f)
      BY <2>2 DEF IsFlame
    <2> QED BY <2>2, <2>3, <2>4 DEF IsStanding
  <1>4. AreStanding(side)
    BY <1>1, <1>3 DEF AreStanding, Rounds!Begin, Rounds!All
  <1>5. Rounds!Boss \in Rounds!All /\ 1 \in Rounds!Members /\ 1 \in Rounds!All
    BY <1>1, LineUp
  <1>6. ~Rounds!isOver(side)
    BY <1>3, <1>5 DEF Rounds!isOver
  <1>7. damageByMember = [f \in Rounds!Members |-> 0]
    <2> DEFINE none(S) == [f \in S |-> 0]
    <2>1. damageByMember = none(1..(Rounds!Boss - 1))
      BY <1>1 DEF Rounds!Begin, Rounds!Boss
    <2>2. Rounds!Members = 1..(Rounds!Boss - 1)
      BY <1>1, LineUp
    <2> HIDE DEF none
    <2>3. damageByMember = none(Rounds!Members)
      BY <2>1, <2>2
    <2> QED BY <2>3 DEF none
  <1>8. SumFunction(damageByMember) = 0
    BY <1>1, <1>7, LineUp, SumOfZeros
  <1>9. RoundsControl
    <2>1. order \in Seq(Rounds!All) /\ over = FALSE /\ stage = "round"
      BY DEF Rounds!Init
    <2>2. damageByMember \in [Rounds!Members -> Int]
      BY <1>7
    <2>3. stage \in {"round", "turn", "strike", "double"} /\ stage \notin {"strike", "double"}
      BY <2>1
    <2>4. over \in BOOLEAN /\ ~over
      BY <2>1, Zenon
    <2> QED BY <1>1, <1>4, <1>6, <2>1, <2>2, <2>3, <2>4 DEF RoundsControl
  <1>10. DamageSum(damageByMember, side)
    BY <1>3, <1>5, <1>8 DEF DamageSum, Rounds!Init
  <1>11. Rounds!EventsTellTheHp
    BY <1>2, <1>3 DEF Rounds!EventsTellTheHp
  <1> QED BY <1>9, <1>10, <1>11 DEF RoundsInv

(* A fire and a mending leave the fighter standing or fallen. *)
LEMMA BurntStands ==
    ASSUME battle \in Battles, AreStanding(side), NEW f \in Rounds!All
    PROVE  LET s == Rounds!Burnt(side, f) IN
           /\ AreStanding(s) /\ \A g \in Rounds!All : g # f => s[g] = side[g]
           /\ s[f].hp \in Int /\ side[f].hp \in Int /\ s[f].hp <= side[f].hp
           /\ s[f].hp < side[f].hp => side[f].burn # <<>>
  <1> DEFINE s == Rounds!Burnt(side, f)
             x == side[f]
             b == x.burn[1]
  <1>1. IsStanding(x, f) /\ DOMAIN side = Rounds!All /\ Rounds!Fighter(f).hp \in Nat
    BY LineUp DEF AreStanding, Rounds!IsFighter
  <1>2. CASE x.burn = <<>>
    BY <1>1, <1>2 DEF Rounds!Burnt, IsStanding
  <1>3. CASE x.burn # <<>>
    <2>1. b \in Flame /\ b.turns \in Int /\ b.damage \in Nat /\ (f = Rounds!Boss => b.source \in Rounds!Members)
      BY <1>1, <1>3 DEF IsStanding, IsFlame, Flame
    <2> DEFINE burn == IF b.turns <= 1 THEN <<>> ELSE <<[b EXCEPT !.turns = @ - 1]>>
               hp == Rounds!Most(0, x.hp - b.damage)
    <2>2. s = [side EXCEPT ![f].hp = hp, ![f].burn = burn]
      BY <1>3 DEF Rounds!Burnt
    <2>3. IsFlame(burn, f)
      <3>1. CASE b.turns <= 1
        BY <3>1 DEF IsFlame
      <3>2. CASE ~(b.turns <= 1)
        <4>1. [b EXCEPT !.turns = @ - 1] \in Flame /\ [b EXCEPT !.turns = @ - 1].source = b.source
          BY <2>1 DEF Flame
        <4> QED BY <2>1, <3>2, <4>1 DEF IsFlame
      <3> QED BY <3>1, <3>2
    <2>4. hp \in Nat /\ hp <= x.hp /\ x.hp \in 0..Rounds!Fighter(f).hp /\ hp \in 0..Rounds!Fighter(f).hp
      BY <1>1, <2>1 DEF IsStanding, Rounds!Most
    <2> HIDE DEF hp, burn, b
    <2>5. /\ DOMAIN s = Rounds!All /\ \A g \in Rounds!All : g # f => s[g] = side[g]
          /\ s[f] = [hp |-> hp, shield |-> x.shield, burn |-> burn]
      BY <1>1, <2>2 DEF IsStanding
    <2>6. IsStanding(s[f], f)
      BY <1>1, <2>3, <2>4, <2>5 DEF IsStanding
    <2> HIDE DEF s
    <2>7. AreStanding(s)
      BY <2>5, <2>6 DEF AreStanding
    <2> QED BY <1>1, <1>3, <2>4, <2>5, <2>7 DEF s
  <1> QED BY <1>2, <1>3

LEMMA MendedStands ==
    ASSUME battle \in Battles, NEW s, AreStanding(s), NEW f \in Rounds!All
    PROVE  LET t == Rounds!Mended(s, f) IN
           /\ AreStanding(t) /\ \A g \in Rounds!All : g # f => t[g] = s[g]
           /\ t[f].hp \in Int /\ s[f].hp \in Int
           /\ t[f].hp >= s[f].hp /\ (t[f].hp = s[f].hp \/ Rounds!Effects(f).regen > 0)
  <1> DEFINE t == Rounds!Mended(s, f)
             hp == Rounds!Least(Rounds!Fighter(f).hp, s[f].hp + Rounds!Effects(f).regen)
  <1>1. IsStanding(s[f], f) /\ DOMAIN s = Rounds!All
    BY DEF AreStanding
  <1>2. Rounds!Fighter(f).hp \in Nat /\ Rounds!Effects(f).regen \in Nat /\ s[f].hp \in 0..Rounds!Fighter(f).hp
    BY <1>1, LineUp DEF Rounds!IsFighter, Rounds!Effects, Rounds!Fighter, IsStanding
  <1>3. hp \in 0..Rounds!Fighter(f).hp /\ hp >= s[f].hp /\ (hp = s[f].hp \/ Rounds!Effects(f).regen > 0)
    BY <1>2 DEF Rounds!Least
  <1>4. CASE s[f].hp = 0
    <2>1. t = s
      BY <1>4 DEF Rounds!Mended
    <2>2. t[f].hp \in Int
      BY <1>2, <2>1
    <2> QED BY <1>2, <2>1, <2>2
  <1>5. CASE s[f].hp # 0
    <2>1. t = [s EXCEPT ![f].hp = hp]
      BY <1>5 DEF Rounds!Mended
    <2> HIDE DEF hp
    <2>2. /\ DOMAIN t = Rounds!All /\ \A g \in Rounds!All : g # f => t[g] = s[g]
          /\ t[f] = [hp |-> hp, shield |-> s[f].shield, burn |-> s[f].burn]
      BY <1>1, <2>1 DEF IsStanding
    <2> HIDE DEF t
    <2>3. IsStanding(t[f], f)
      BY <1>1, <1>3, <2>2 DEF IsStanding
    <2>4. AreStanding(t)
      BY <2>2, <2>3 DEF AreStanding
    <2> QED BY <1>2, <1>3, <2>2, <2>4 DEF t
  <1> QED BY <1>4, <1>5

(* Who acts next, once the turn of the first in order is over. *)
LEMMA TurnEnds ==
    ASSUME RoundsControl, Len(order) > 0, NEW s, Rounds!EndTurn(s)
    PROVE  /\ over' \in BOOLEAN /\ order' \in Seq(Rounds!All) /\ stage' \in {"round", "turn"}
           /\ stage' = "turn" /\ ~over' => Len(order') > 0
           /\ stage' = "round" => ~over' /\ ~Rounds!isOver(s)
  <1>1. order \in Seq(Rounds!All)
    BY DEF RoundsControl
  <1>2. Len(order) \in Nat /\ Len(order) > 0 /\ order' = Tail(order) /\ order' \in Seq(Rounds!All) /\ Len(order') = Len(order) - 1
    BY <1>1 DEF Rounds!EndTurn
  <1>3. over' = (Rounds!isOver(s) \/ (Len(order) = 1 /\ round = MAX_ROUNDS))
    BY DEF Rounds!EndTurn
  <1>4. over' \in BOOLEAN
    BY <1>3
  <1>5. \/ stage' = "turn" /\ (over' \/ Len(order) > 1)
        \/ stage' = "round" /\ ~(over' \/ Len(order) > 1)
    BY DEF Rounds!EndTurn
  <1>7. stage' = "turn" \/ stage' = "round"
    BY <1>5
  <1>8. stage' = "turn" /\ ~over' => Len(order') > 0
    BY <1>2, <1>5
  <1>9. stage' = "round" => ~over' /\ ~Rounds!isOver(s)
    BY <1>3, <1>5
  <1> QED BY <1>2, <1>4, <1>7, <1>8, <1>9

---------------------------------------------------------------------------

(* What a step has to establish for the battle that goes on. *)
RoundsAfter ==
    /\ battle' = battle /\ over' \in BOOLEAN
    /\ stage' \in {"round", "turn", "strike", "double"}
    /\ AreStanding(side')
    /\ damageByMember' \in [Rounds!Members -> Int]
    /\ order' \in Seq(Rounds!All)
    /\ stage' \in {"strike", "double"} => ~over'
    /\ stage' # "round" /\ ~over' => Len(order') > 0
    /\ stage' = "round" => ~over' /\ ~Rounds!isOver(side')
    /\ stage' \in {"strike", "double"} =>
          /\ actor' \in Rounds!All /\ foe' \in Rounds!All
          /\ actor' = Rounds!Boss => foe' \in Rounds!Members
          /\ actor' # Rounds!Boss => foe' = Rounds!Boss
    /\ DamageSum(damageByMember', side')
    /\ \A f \in Rounds!All : told'[f] = side'[f].hp

LEMMA RoundsGoOn ==
    ASSUME RoundsInv, RoundsAfter
    PROVE  RoundsInv'
  <1>1. battle' = battle /\ battle \in Battles
    BY DEF RoundsAfter, RoundsInv, RoundsControl
  <1>2. /\ Rounds!All' = Rounds!All /\ Rounds!Boss' = Rounds!Boss /\ Rounds!Members' = Rounds!Members
        /\ \A f : Rounds!Fighter(f)' = Rounds!Fighter(f)
        /\ Rounds!BossHeals' = Rounds!BossHeals
    BY <1>1 DEF Rounds!All, Rounds!Boss, Rounds!Members, Rounds!Fighter, Rounds!BossHeals, Rounds!Effects
  <1>3. \A f : IsStanding(side[f], f)' <=> IsStanding(side'[f], f)
    BY <1>2 DEF IsStanding, IsFlame, Flame
  <1>4. AreStanding(side)'
    BY <1>2, <1>3 DEF AreStanding, RoundsAfter
  <1>5. (Rounds!isOver(side))' <=> Rounds!isOver(side')
    BY <1>2 DEF Rounds!isOver
  <1>6. RoundsControl'
    BY <1>1, <1>2, <1>4, <1>5 DEF RoundsControl, RoundsAfter
  <1>7. DamageSum(damageByMember, side)'
    BY <1>2 DEF DamageSum, RoundsAfter
  <1>8. Rounds!EventsTellTheHp'
    BY <1>2 DEF Rounds!EventsTellTheHp, RoundsAfter
  <1> QED BY <1>6, <1>7, <1>8 DEF RoundsInv

(* Everyone who stands gets a turn, and somebody stands. *)
LEMMA RoundsCount == \A S : Rounds!Cardinality(S) = Cardinality(S)
  BY DEF Rounds!Cardinality, Cardinality

LEMMA OrderOfSome ==
    ASSUME NEW S, IsFiniteSet(S), S # {}, NEW o \in Rounds!SetToSeqs(S)
    PROVE  o \in Seq(S) /\ Len(o) > 0
  <1> DEFINE n == Cardinality(S)
  <1>1. n \in Nat /\ n # 0
    BY FS_CardinalityType, FS_EmptySet
  <1>2. o \in [1..n -> S]
    BY RoundsCount DEF Rounds!SetToSeqs
  <1> HIDE DEF n
  <1>3. o \in Seq(S) /\ Len(o) = n
    BY <1>1, <1>2
  <1> QED BY <1>1, <1>3

LEMMA RoundBegins ==
    ASSUME RoundsInv, Rounds!NextRound
    PROVE  RoundsAfter
  <1>1. RoundsControl /\ stage = "round" /\ over = FALSE /\ over' = over /\ battle \in Battles /\ AreStanding(side)
    BY DEF RoundsInv, RoundsControl, Rounds!NextRound
  <1> DEFINE S == Rounds!standing(side)
  <1>2. S \subseteq Rounds!All /\ IsFiniteSet(Rounds!All)
    <2>1. PICK n \in Int : n = Rounds!Boss /\ Rounds!All = 1..n
      BY <1>1, LineUp
    <2>2. 1 \in Int /\ IsFiniteSet(1..n)
      BY <2>1, FS_Interval
    <2> QED BY <2>1, <2>2 DEF Rounds!standing
  <1>3. IsFiniteSet(S)
    BY <1>2, FS_Subset
  <1>4. Rounds!Boss \in S
    <2>1. Rounds!Boss \in Rounds!All /\ Rounds!Fighter(Rounds!Boss).hp \in Nat
      BY <1>1, LineUp DEF Rounds!IsFighter
    <2>2. side[Rounds!Boss].hp # 0
      BY <1>1 DEF RoundsControl, Rounds!isOver
    <2>3. side[Rounds!Boss].hp \in 0..Rounds!Fighter(Rounds!Boss).hp
      BY <1>1, <2>1 DEF AreStanding, IsStanding
    <2>4. side[Rounds!Boss].hp > 0
      BY <2>1, <2>2, <2>3
    <2> QED BY <2>1, <2>4 DEF Rounds!standing
  <1>5. order' \in Rounds!SetToSeqs(S)
    BY DEF Rounds!NextRound, Rounds!Orders
  <1> HIDE DEF S
  <1>6. order' \in Seq(S) /\ Len(order') > 0
    BY <1>3, <1>4, <1>5, OrderOfSome
  <1>7. order' \in Seq(Rounds!All)
    BY <1>2, <1>6
  <1>8. /\ stage' = "turn" /\ battle' = battle /\ side' = side /\ damageByMember' = damageByMember
        /\ told' = told
    BY DEF Rounds!NextRound
  <1>9. RoundsControl /\ DamageSum(damageByMember, side) /\ \A f \in Rounds!All : told[f] = side[f].hp
    BY DEF RoundsInv, Rounds!EventsTellTheHp
  <1> QED BY <1>1, <1>6, <1>7, <1>8, <1>9 DEF RoundsAfter, RoundsControl

LEMMA TurnStarts ==
    ASSUME RoundsInv, Rounds!StartTurn
    PROVE  RoundsAfter
  <1> DEFINE f == Head(order)
             burnt == Rounds!Burnt(side, f)
             mended == Rounds!Mended(burnt, f)
             lost == side[f].hp - burnt[f].hp
             credited == Rounds!Credit(side[f].burn[1].source, lost)
  <1>1. /\ RoundsControl /\ DamageSum(damageByMember, side)
        /\ \A g \in Rounds!All : told[g] = side[g].hp
    BY DEF RoundsInv, Rounds!EventsTellTheHp
  <1>2. /\ battle \in Battles /\ AreStanding(side) /\ order \in Seq(Rounds!All)
        /\ damageByMember \in [Rounds!Members -> Int]
    BY <1>1 DEF RoundsControl
  <1>3. /\ stage = "turn" /\ ~over /\ battle' = battle
        /\ actor' = f /\ side' = mended /\ Rounds!Tell(mended, {f})
        /\ damageByMember' = IF f = Rounds!Boss /\ lost > 0 THEN credited ELSE damageByMember
    BY DEF Rounds!StartTurn
  <1>4. \/ Rounds!EndTurn(mended)
        \/ /\ foe' \in IF f = Rounds!Boss THEN Rounds!Members \cap Rounds!standing(mended) ELSE {Rounds!Boss}
           /\ stage' = "strike" /\ order' = order /\ over' = over
    BY DEF Rounds!StartTurn
  <1>5. Len(order) > 0 /\ f \in Rounds!All
    <2>1. Len(order) > 0
      BY <1>1, <1>3 DEF RoundsControl
    <2> QED BY <1>2, <2>1
  <1> HIDE DEF f
  <1>6. /\ AreStanding(burnt) /\ \A g \in Rounds!All : g # f => burnt[g] = side[g]
        /\ burnt[f].hp \in Int /\ side[f].hp \in Int /\ burnt[f].hp <= side[f].hp
        /\ burnt[f].hp < side[f].hp => side[f].burn # <<>>
    BY <1>2, <1>5, BurntStands
  <1> HIDE DEF burnt
  <1>7. /\ AreStanding(mended) /\ \A g \in Rounds!All : g # f => mended[g] = burnt[g]
        /\ mended[f].hp \in Int /\ mended[f].hp >= burnt[f].hp
        /\ mended[f].hp = burnt[f].hp \/ Rounds!Effects(f).regen > 0
    BY <1>2, <1>5, <1>6, MendedStands
  <1> HIDE DEF mended
  <1>8. \A g \in Rounds!All : told'[g] = mended[g].hp
    BY <1>1, <1>3, <1>6, <1>7 DEF Rounds!Tell
  <1>9. Rounds!Boss \in Rounds!All /\ Rounds!Members \subseteq Rounds!All /\ Rounds!Fighter(Rounds!Boss).hp \in Int
    BY <1>2, LineUp DEF Rounds!Members, Rounds!IsFighter
  <1>10. /\ damageByMember' \in [Rounds!Members -> Int]
         /\ DamageSum(damageByMember', mended)
    <2>1. CASE f # Rounds!Boss
      <3>1. mended[Rounds!Boss] = side[Rounds!Boss] /\ damageByMember' = damageByMember
        BY <1>2, <1>3, <1>6, <1>7, <1>9, <2>1
      <3> QED BY <1>1, <1>2, <3>1 DEF DamageSum
    <2>2. CASE f = Rounds!Boss
      <3> DEFINE healed == mended[f].hp - burnt[f].hp
      <3>1. healed \in Nat /\ (Rounds!BossHeals \/ healed = 0)
        BY <1>6, <1>7, <2>2 DEF Rounds!BossHeals
      <3>2. lost \in Nat /\ side[Rounds!Boss].hp \in Int
            /\ mended[Rounds!Boss].hp = side[Rounds!Boss].hp - lost + healed
        BY <1>6, <1>7, <2>2
      <3>3. SumFunction(damageByMember) \in Int
        BY <1>2, LineUp, SumIsInt
      <3>4. /\ damageByMember' \in [Rounds!Members -> Int]
            /\ SumFunction(damageByMember') = SumFunction(damageByMember) + lost
        <4>1. CASE lost > 0
          <5>1. side[f].burn # <<>> /\ IsFlame(side[f].burn, f)
            BY <1>2, <1>5, <1>6, <2>2, <4>1 DEF AreStanding, IsStanding
          <5>2. side[f].burn[1].source \in Rounds!Members
            BY <5>1, <2>2 DEF IsFlame
          <5>3. damageByMember' = credited /\ lost \in Int
            BY <1>3, <1>6, <2>2, <4>1
          <5> QED BY <1>2, <5>2, <5>3, CreditAdds
        <4>2. CASE ~(lost > 0)
          <5>1. damageByMember' = damageByMember /\ lost = 0
            BY <1>3, <3>2, <4>2
          <5> QED BY <1>2, <3>3, <5>1
        <4> QED BY <4>1, <4>2
      <3> HIDE DEF healed, lost
      <3>5. lost \in Int
        BY <3>2
      <3> QED BY <1>1, <1>2, <3>1, <3>2, <3>3, <3>4, <3>5, SumFollows
    <2> QED BY <2>1, <2>2
  <1>11. CASE Rounds!EndTurn(mended)
    <2>1. /\ over' \in BOOLEAN /\ order' \in Seq(Rounds!All) /\ stage' \in {"round", "turn"}
          /\ stage' = "turn" /\ ~over' => Len(order') > 0
          /\ stage' = "round" => ~over' /\ ~Rounds!isOver(mended)
      BY <1>1, <1>5, <1>11, TurnEnds
    <2> QED BY <1>3, <1>7, <1>8, <1>10, <2>1 DEF RoundsAfter
  <1>12. CASE /\ foe' \in IF f = Rounds!Boss THEN Rounds!Members \cap Rounds!standing(mended) ELSE {Rounds!Boss}
              /\ stage' = "strike" /\ order' = order /\ over' = over
    <2>1. over' \in BOOLEAN /\ ~over' /\ order' \in Seq(Rounds!All) /\ Len(order') > 0
      BY <1>1, <1>2, <1>3, <1>5, <1>12 DEF RoundsControl
    <2>2. /\ actor' \in Rounds!All /\ foe' \in Rounds!All
          /\ actor' = Rounds!Boss => foe' \in Rounds!Members
          /\ actor' # Rounds!Boss => foe' = Rounds!Boss
      BY <1>3, <1>5, <1>9, <1>12
    <2> QED BY <1>3, <1>7, <1>8, <1>10, <1>12, <2>1, <2>2 DEF RoundsAfter
  <1> QED BY <1>4, <1>11, <1>12

LEMMA TurnSkipped ==
    ASSUME RoundsInv, Rounds!Skip
    PROVE  RoundsAfter
  <1>1. /\ RoundsControl /\ DamageSum(damageByMember, side)
        /\ \A g \in Rounds!All : told[g] = side[g].hp
    BY DEF RoundsInv, Rounds!EventsTellTheHp
  <1>2. stage = "turn" /\ ~over /\ Rounds!EndTurn(side)
    BY DEF Rounds!Skip
  <1>3. /\ battle' = battle /\ side' = side /\ damageByMember' = damageByMember
        /\ told' = told
    BY DEF Rounds!Skip
  <1>4. Len(order) > 0
    BY <1>1, <1>2 DEF RoundsControl
  <1>5. /\ over' \in BOOLEAN /\ order' \in Seq(Rounds!All) /\ stage' \in {"round", "turn"}
        /\ stage' = "turn" /\ ~over' => Len(order') > 0
        /\ stage' = "round" => ~over' /\ ~Rounds!isOver(side)
    BY <1>1, <1>2, <1>4, TurnEnds
  <1> QED BY <1>1, <1>3, <1>5 DEF RoundsAfter, RoundsControl

(* A hit takes from the one it lands on, and gives and takes from the one *)
(* that strikes.                                                          *)
LEMMA HitStands ==
    ASSUME battle \in Battles, AreStanding(side),
           NEW a \in Rounds!All, NEW d \in Rounds!All, a # d, NEW n \in Nat
    PROVE  LET hit == Rounds!Exchange(side, a, d, n) IN
           /\ AreStanding(hit.s)
           /\ hit.lost \in Nat /\ hit.healed \in Nat /\ hit.back \in Nat
           /\ hit.healed = 0 \/ Rounds!Effects(a).lifesteal > 0
           /\ side[d].hp \in Int /\ hit.s[d].hp = side[d].hp - hit.lost
           /\ side[a].hp \in Int /\ hit.s[a].hp = side[a].hp + hit.healed - hit.back
           /\ \A g \in Rounds!All : g # a /\ g # d => hit.s[g] = side[g]
  <1> DEFINE x == side[a]
             y == side[d]
             absorbed == Rounds!Least(y.shield, n)
             lost == Rounds!Least(y.hp, n - absorbed)
             drained == IF battle.duel THEN n - absorbed ELSE lost
             struck == [side EXCEPT ![d].shield = @ - absorbed, ![d].hp = @ - lost]
             healed == IF Rounds!Effects(a).lifesteal > 0 /\ drained > 0
                       THEN Rounds!Least(Rounds!Fighter(a).hp - x.hp, Rounds!Share(drained, Rounds!Effects(a).lifesteal)) ELSE 0
             reflected == IF Rounds!Effects(d).thorns > 0 /\ n > 0 /\ struck[d].hp > 0
                          THEN Rounds!Share(n, Rounds!Effects(d).thorns) ELSE 0
             s == [struck EXCEPT ![a].hp = Rounds!Most(0, @ + healed - reflected)]
             back == Rounds!Least(x.hp + healed, reflected)
             hit == Rounds!Exchange(side, a, d, n)
  <1>1. IsStanding(x, a) /\ IsStanding(y, d) /\ DOMAIN side = Rounds!All
    BY DEF AreStanding
  <1>2. /\ x = [hp |-> x.hp, shield |-> x.shield, burn |-> x.burn] /\ x.hp \in 0..Rounds!Fighter(a).hp /\ x.shield \in Nat
        /\ y = [hp |-> y.hp, shield |-> y.shield, burn |-> y.burn] /\ y.hp \in 0..Rounds!Fighter(d).hp /\ y.shield \in Nat
        /\ IsFlame(x.burn, a) /\ IsFlame(y.burn, d)
    BY <1>1 DEF IsStanding
  <1>3. /\ Rounds!Fighter(a).hp \in Nat /\ Rounds!Fighter(d).hp \in Nat
        /\ Rounds!Effects(a).lifesteal \in Int /\ Rounds!Effects(d).thorns \in Int
    BY LineUp DEF Rounds!IsFighter, Rounds!Effects, Rounds!Fighter
  <1>4. hit = [s |-> s, lost |-> lost, healed |-> healed, back |-> back]
    BY DEF Rounds!Exchange
  <1>5. hit.s = s /\ hit.lost = lost /\ hit.healed = healed /\ hit.back = back
    BY <1>4
  <1> HIDE DEF hit
  <1>6. /\ absorbed \in Nat /\ absorbed <= y.shield /\ absorbed <= n
        /\ lost \in Nat /\ lost <= y.hp /\ lost <= n - absorbed /\ y.hp \in Nat /\ x.hp \in Nat /\ x.hp <= Rounds!Fighter(a).hp
    BY <1>2, <1>3 DEF Rounds!Least
  <1>7. drained \in Nat
    BY <1>6
  <1> HIDE DEF absorbed, lost, drained
  <1>8. healed \in Nat /\ healed <= Rounds!Fighter(a).hp - x.hp /\ (healed = 0 \/ Rounds!Effects(a).lifesteal > 0)
    <2>1. Rounds!Share(drained, Rounds!Effects(a).lifesteal) \in Nat
      <3>1. drained \in Int /\ Rounds!Effects(a).lifesteal \in Int
        BY <1>3, <1>7
      <3>2. Rounds!Share(drained, Rounds!Effects(a).lifesteal) \in Nat \ {0}
        BY <3>1, ShareIsSome, Zenon
      <3> QED BY <3>2
    <2> HIDE DEF x
    <2>2. Rounds!Least(Rounds!Fighter(a).hp - x.hp, Rounds!Share(drained, Rounds!Effects(a).lifesteal)) \in 0..(Rounds!Fighter(a).hp - x.hp)
      BY <1>3, <1>6, <2>1 DEF Rounds!Least
    <2> QED BY <1>3, <1>6, <2>2
  <1>9. reflected \in Nat
    <2>1. Rounds!Share(n, Rounds!Effects(d).thorns) \in Nat
      <3>1. n \in Int /\ Rounds!Effects(d).thorns \in Int
        BY <1>3
      <3>2. Rounds!Share(n, Rounds!Effects(d).thorns) \in Nat \ {0}
        BY <3>1, ShareIsSome, Zenon
      <3> QED BY <3>2
    <2> QED BY <2>1
  <1> HIDE DEF healed, reflected
  <1> DEFINE hp == Rounds!Most(0, x.hp + healed - reflected)
  <1>10. back \in Nat /\ hp = x.hp + healed - back /\ hp \in 0..Rounds!Fighter(a).hp
    BY <1>3, <1>6, <1>8, <1>9 DEF Rounds!Least, Rounds!Most
  <1>11. /\ DOMAIN struck = Rounds!All /\ \A g \in Rounds!All : g # d => struck[g] = side[g]
         /\ struck[d] = [hp |-> y.hp - lost, shield |-> y.shield - absorbed, burn |-> y.burn]
    BY <1>1, <1>2
  <1> HIDE DEF struck, back
  <1>12. struck[a] = [hp |-> x.hp, shield |-> x.shield, burn |-> x.burn]
    BY <1>2, <1>11
  <1>13. s = [struck EXCEPT ![a].hp = hp]
    BY <1>12
  <1> HIDE DEF hp, s
  <1>14. /\ DOMAIN s = Rounds!All /\ \A g \in Rounds!All : g # a => s[g] = struck[g]
         /\ s[a] = [hp |-> hp, shield |-> x.shield, burn |-> x.burn]
    BY <1>11, <1>12, <1>13
  <1>15. s[d] = [hp |-> y.hp - lost, shield |-> y.shield - absorbed, burn |-> y.burn]
    BY <1>11, <1>14
  <1>16. IsStanding(s[a], a)
    BY <1>2, <1>10, <1>14 DEF IsStanding
  <1>17. IsStanding(s[d], d)
    <2>1. y.hp - lost \in 0..Rounds!Fighter(d).hp /\ y.shield - absorbed \in Nat
      BY <1>2, <1>3, <1>6
    <2> QED BY <1>2, <1>15, <2>1 DEF IsStanding
  <1>18. \A g \in Rounds!All : g # a /\ g # d => s[g] = side[g] /\ IsStanding(s[g], g)
    BY <1>11, <1>14 DEF AreStanding
  <1>19. AreStanding(s)
    BY <1>14, <1>16, <1>17, <1>18 DEF AreStanding
  <1>20. s[a].hp = x.hp + healed - back /\ s[d].hp = y.hp - lost
    BY <1>10, <1>14, <1>15
  <1>21. side[a].hp \in Int /\ side[d].hp \in Int
    BY <1>6
  <1> QED BY <1>5, <1>6, <1>8, <1>10, <1>18, <1>19, <1>20, <1>21 DEF hit

LEMMA LitStands ==
    ASSUME RoundsControl, stage \in {"strike", "double"}, NEW s, AreStanding(s)
    PROVE  AreStanding(Rounds!Lit(s)) /\ \A g \in Rounds!All : Rounds!Lit(s)[g].hp = s[g].hp
  <1> DEFINE flame == [turns |-> Rounds!Effects(actor).burnTurns, damage |-> 1, source |-> actor]
             t == Rounds!Lit(s)
  <1>1. /\ battle \in Battles /\ actor \in Rounds!All /\ foe \in Rounds!All
        /\ actor = Rounds!Boss => foe \in Rounds!Members
    BY DEF RoundsControl
  <1>2. CASE t = s
    BY <1>2
  <1>3. CASE t = [s EXCEPT ![foe].burn = <<flame>>]
    <2>1. Rounds!Effects(actor).burnTurns \in Int
      BY <1>1, LineUp DEF Rounds!IsFighter, Rounds!Effects, Rounds!Fighter
    <2>2. flame \in Flame /\ flame.source = actor
      BY <1>1, <2>1 DEF Flame
    <2>3. foe = Rounds!Boss => actor \in Rounds!Members
      BY <1>1 DEF Rounds!Members
    <2> HIDE DEF flame
    <2>4. IsFlame(<<flame>>, foe)
      BY <2>2, <2>3 DEF IsFlame
    <2>5. DOMAIN s = Rounds!All /\ \A g \in Rounds!All : IsStanding(s[g], g)
      BY DEF AreStanding
    <2>6. s[foe] = [hp |-> s[foe].hp, shield |-> s[foe].shield, burn |-> s[foe].burn]
      BY <1>1, <2>5 DEF IsStanding
    <2> HIDE DEF t
    <2>7. /\ DOMAIN t = Rounds!All /\ \A g \in Rounds!All : g # foe => t[g] = s[g]
          /\ t[foe] = [hp |-> s[foe].hp, shield |-> s[foe].shield, burn |-> <<flame>>]
      BY <1>1, <1>3, <2>5, <2>6
    <2>8. IsStanding(t[foe], foe)
      BY <1>1, <2>4, <2>5, <2>7 DEF IsStanding
    <2>9. AreStanding(t)
      BY <2>5, <2>7, <2>8 DEF AreStanding
    <2>10. \A g \in Rounds!All : t[g].hp = s[g].hp
      BY <2>7
    <2> QED BY <2>9, <2>10 DEF t
  <1> QED BY <1>2, <1>3 DEF Rounds!Lit

(* The books of a hit: whoever the boss loses HP to is credited with it. *)
LEMMA HitLands ==
    ASSUME RoundsInv, stage \in {"strike", "double"}, NEW n \in Nat, NEW s,
           Rounds!Land(Rounds!Exchange(side, actor, foe, n)),
           \A g \in Rounds!All : s[g].hp = Rounds!Exchange(side, actor, foe, n).s[g].hp
    PROVE  /\ damageByMember' \in [Rounds!Members -> Int]
           /\ DamageSum(damageByMember', s)
           /\ \A g \in Rounds!All : told'[g] = s[g].hp
  <1> DEFINE hit == Rounds!Exchange(side, actor, foe, n)
  <1>1. /\ RoundsControl /\ DamageSum(damageByMember, side)
        /\ \A g \in Rounds!All : told[g] = side[g].hp
    BY DEF RoundsInv, Rounds!EventsTellTheHp
  <1>2. /\ battle \in Battles /\ AreStanding(side)
        /\ damageByMember \in [Rounds!Members -> Int]
        /\ actor \in Rounds!All /\ foe \in Rounds!All
        /\ actor = Rounds!Boss => foe \in Rounds!Members
        /\ actor # Rounds!Boss => foe = Rounds!Boss
    BY <1>1 DEF RoundsControl
  <1>3. actor # foe /\ (actor # Rounds!Boss => actor \in Rounds!Members)
    BY <1>2 DEF Rounds!Members
  <1>4. /\ hit.lost \in Nat /\ hit.healed \in Nat /\ hit.back \in Nat
        /\ hit.healed = 0 \/ Rounds!Effects(actor).lifesteal > 0
        /\ side[foe].hp \in Int /\ hit.s[foe].hp = side[foe].hp - hit.lost
        /\ side[actor].hp \in Int /\ hit.s[actor].hp = side[actor].hp + hit.healed - hit.back
        /\ \A g \in Rounds!All : g # actor /\ g # foe => hit.s[g] = side[g]
    BY <1>2, <1>3, HitStands
  <1>5. /\ damageByMember' = Rounds!Credited(hit, actor, foe)
        /\ Rounds!Tell(hit.s, Rounds!Shown(hit, actor, foe))
    BY DEF Rounds!Land
  <1>6. \A g \in Rounds!All : s[g].hp = hit.s[g].hp
    OBVIOUS
  <1> HIDE DEF hit
  <1>7. \A g \in Rounds!All : told'[g] = s[g].hp
    <2> TAKE g \in Rounds!All
    <2>1. told'[g] = IF g \in Rounds!Shown(hit, actor, foe) THEN hit.s[g].hp ELSE told[g]
      BY <1>5 DEF Rounds!Tell
    <2>2. CASE g \in Rounds!Shown(hit, actor, foe)
      BY <1>6, <2>1, <2>2
    <2>3. CASE g \notin Rounds!Shown(hit, actor, foe) /\ g = actor
      <3>1. ~(hit.healed > 0 \/ hit.back > 0)
        BY <2>3 DEF Rounds!Shown
      <3>2. hit.s[g].hp = side[g].hp
        BY <1>4, <2>3, <3>1
      <3> QED BY <1>1, <1>6, <2>1, <2>3, <3>2
    <2>4. CASE g \notin Rounds!Shown(hit, actor, foe) /\ g # actor
      <3>1. g # foe
        BY <2>4 DEF Rounds!Shown
      <3> QED BY <1>1, <1>4, <1>6, <2>1, <2>4, <3>1
    <2> QED BY <2>2, <2>3, <2>4
  <1>8. Rounds!Boss \in Rounds!All /\ Rounds!Fighter(Rounds!Boss).hp \in Int
    BY <1>2, LineUp DEF Rounds!IsFighter
  <1>9. SumFunction(damageByMember) \in Int
    BY <1>2, LineUp, SumIsInt
  <1>10. CASE actor # Rounds!Boss
    <2>1. damageByMember' = Rounds!Credit(actor, hit.lost) /\ foe = Rounds!Boss
      BY <1>2, <1>5, <1>10 DEF Rounds!Credited
    <2>2. hit.lost \in Int /\ actor \in Rounds!Members
      BY <1>3, <1>4, <1>10
    <2>3. /\ damageByMember' \in [Rounds!Members -> Int]
          /\ SumFunction(damageByMember') = SumFunction(damageByMember) + hit.lost
      BY <1>2, <2>1, <2>2, CreditAdds
    <2>4. s[Rounds!Boss].hp = side[Rounds!Boss].hp - hit.lost + 0 /\ side[Rounds!Boss].hp \in Int
      BY <1>4, <1>6, <1>8, <2>1
    <2>5. DamageSum(damageByMember', s)
      BY <1>1, <1>2, <1>9, <2>2, <2>3, <2>4, SumFollows
    <2> QED BY <1>7, <2>3, <2>5
  <1>11. CASE actor = Rounds!Boss
    <2>1. hit.healed \in Nat /\ (Rounds!BossHeals \/ hit.healed = 0)
      BY <1>4, <1>11 DEF Rounds!BossHeals
    <2>2. s[Rounds!Boss].hp = side[Rounds!Boss].hp - hit.back + hit.healed /\ side[Rounds!Boss].hp \in Int
      BY <1>4, <1>6, <1>8, <1>11
    <2>3. hit.back \in Int
      BY <1>4
    <2>4. /\ damageByMember' \in [Rounds!Members -> Int]
          /\ SumFunction(damageByMember') = SumFunction(damageByMember) + hit.back
      <3>1. CASE hit.back > 0
        <4>1. damageByMember' = Rounds!Credit(foe, hit.back)
          BY <1>5, <1>11, <3>1 DEF Rounds!Credited
        <4>2. foe \in Rounds!Members
          BY <1>2, <1>11
        <4> QED BY <1>2, <2>3, <4>1, <4>2, CreditAdds
      <3>2. CASE ~(hit.back > 0)
        <4>1. damageByMember' = damageByMember /\ hit.back = 0
          BY <1>4, <1>5, <1>11, <3>2 DEF Rounds!Credited
        <4> QED BY <1>2, <1>9, <4>1
      <3> QED BY <3>1, <3>2
    <2>5. DamageSum(damageByMember', s)
      BY <1>1, <1>2, <1>9, <2>1, <2>2, <2>3, <2>4, SumFollows
    <2> QED BY <1>7, <2>4, <2>5
  <1> QED BY <1>10, <1>11

LEMMA RollIsNat ==
    ASSUME battle \in Battles, NEW f \in Rounds!All, NEW g, NEW n \in Rounds!Rolls(f, g), NEW skill
    PROVE  n \in Nat /\ Rounds!Power(n, skill) \in Nat
  <1>1. Rounds!Fighter(f).damage \in Nat
    BY LineUp DEF Rounds!IsFighter
  <1>2. n \in Nat
    BY <1>1 DEF Rounds!Rolls
  <1> QED BY <1>2 DEF Rounds!Power

LEMMA StrikeLands ==
    ASSUME RoundsInv, Rounds!Strike
    PROVE  RoundsAfter
  <1>1. PICK r \in Rounds!Rolls(actor, foe) :
           LET hit == Rounds!Exchange(side, actor, foe, Rounds!Power(r, Rounds!isSkill))
               falls == Rounds!isOver(hit.s) \/ hit.s[actor].hp = 0
           IN /\ Rounds!Land(hit)
              /\ side' = IF falls THEN hit.s ELSE Rounds!Lit(hit.s)
              /\ \/ Rounds!EndTurn(side')
                 \/ stage' = "double" /\ UNCHANGED <<order, round, over>>
    BY DEF Rounds!Strike
  <1>2. stage = "strike" /\ battle' = battle /\ actor' = actor /\ foe' = foe
    BY DEF Rounds!Strike
  <1> DEFINE n == Rounds!Power(r, Rounds!isSkill)
             hit == Rounds!Exchange(side, actor, foe, n)
  <1>3. RoundsControl /\ battle \in Battles /\ AreStanding(side)
    BY DEF RoundsInv, RoundsControl
  <1>4. /\ actor \in Rounds!All /\ foe \in Rounds!All /\ ~over /\ over \in BOOLEAN
        /\ actor = Rounds!Boss => foe \in Rounds!Members
        /\ actor # Rounds!Boss => foe = Rounds!Boss
        /\ order \in Seq(Rounds!All) /\ Len(order) > 0
    BY <1>2, <1>3 DEF RoundsControl
  <1>5. actor # foe
    BY <1>4 DEF Rounds!Members
  <1>6. n \in Nat
    BY <1>3, <1>4, RollIsNat
  <1>7. Rounds!Land(hit) /\ (side' = hit.s \/ side' = Rounds!Lit(hit.s))
    BY <1>1
  <1>8. Rounds!EndTurn(side') \/ (stage' = "double" /\ order' = order /\ over' = over)
    BY <1>1
  <1> HIDE DEF n
  <1>9. AreStanding(hit.s)
    BY <1>3, <1>4, <1>5, <1>6, HitStands
  <1>10. AreStanding(side') /\ \A g \in Rounds!All : side'[g].hp = hit.s[g].hp
    BY <1>2, <1>3, <1>7, <1>9, LitStands
  <1>11. /\ damageByMember' \in [Rounds!Members -> Int]
         /\ DamageSum(damageByMember', side')
         /\ \A g \in Rounds!All : told'[g] = side'[g].hp
    BY <1>2, <1>6, <1>7, <1>10, HitLands
  <1>12. CASE Rounds!EndTurn(side')
    <2>1. /\ over' \in BOOLEAN /\ order' \in Seq(Rounds!All) /\ stage' \in {"round", "turn"}
          /\ stage' = "turn" /\ ~over' => Len(order') > 0
          /\ stage' = "round" => ~over' /\ ~Rounds!isOver(side')
      BY <1>3, <1>4, <1>12, TurnEnds
    <2> QED BY <1>2, <1>10, <1>11, <2>1 DEF RoundsAfter
  <1>13. CASE stage' = "double" /\ order' = order /\ over' = over
    BY <1>2, <1>4, <1>10, <1>11, <1>13 DEF RoundsAfter
  <1> QED BY <1>8, <1>12, <1>13

LEMMA SecondStrikeLands ==
    ASSUME RoundsInv, Rounds!StrikeAgain
    PROVE  RoundsAfter
  <1>1. PICK n \in Rounds!Rolls(actor, foe) :
           LET hit == Rounds!Exchange(side, actor, foe, n)
           IN Rounds!Land(hit) /\ side' = hit.s /\ Rounds!EndTurn(hit.s)
    BY DEF Rounds!StrikeAgain
  <1>2. stage = "double" /\ battle' = battle
    BY DEF Rounds!StrikeAgain
  <1> DEFINE hit == Rounds!Exchange(side, actor, foe, n)
  <1>3. RoundsControl /\ battle \in Battles /\ AreStanding(side)
    BY DEF RoundsInv, RoundsControl
  <1>4. /\ actor \in Rounds!All /\ foe \in Rounds!All /\ ~over
        /\ actor = Rounds!Boss => foe \in Rounds!Members
        /\ actor # Rounds!Boss => foe = Rounds!Boss
        /\ Len(order) > 0
    BY <1>2, <1>3 DEF RoundsControl
  <1>5. actor # foe
    BY <1>4 DEF Rounds!Members
  <1>6. n \in Nat
    BY <1>3, <1>4, RollIsNat
  <1>7. Rounds!Land(hit) /\ side' = hit.s /\ Rounds!EndTurn(side')
    BY <1>1
  <1>8. AreStanding(side')
    BY <1>3, <1>4, <1>5, <1>6, <1>7, HitStands
  <1>9. \A g \in Rounds!All : side'[g].hp = hit.s[g].hp
    BY <1>7
  <1>10. /\ damageByMember' \in [Rounds!Members -> Int]
         /\ DamageSum(damageByMember', side')
         /\ \A g \in Rounds!All : told'[g] = side'[g].hp
    BY <1>2, <1>6, <1>7, <1>9, HitLands
  <1>11. /\ over' \in BOOLEAN /\ order' \in Seq(Rounds!All) /\ stage' \in {"round", "turn"}
         /\ stage' = "turn" /\ ~over' => Len(order') > 0
         /\ stage' = "round" => ~over' /\ ~Rounds!isOver(side')
    BY <1>3, <1>4, <1>7, TurnEnds
  <1> QED BY <1>2, <1>8, <1>10, <1>11 DEF RoundsAfter

LEMMA RoundsStep ==
    ASSUME RoundsInv, Rounds!Next \/ UNCHANGED Rounds!vars
    PROVE  RoundsInv'
  <1>1. CASE Rounds!NextRound
    BY <1>1, RoundBegins, RoundsGoOn
  <1>2. CASE Rounds!StartTurn
    BY <1>2, TurnStarts, RoundsGoOn
  <1>3. CASE Rounds!Skip
    BY <1>3, TurnSkipped, RoundsGoOn
  <1>4. CASE Rounds!Strike
    BY <1>4, StrikeLands, RoundsGoOn
  <1>5. CASE Rounds!StrikeAgain
    BY <1>5, SecondStrikeLands, RoundsGoOn
  <1>6. CASE Rounds!Ended \/ UNCHANGED Rounds!vars
    <2>1. /\ battle' = battle /\ order' = order /\ stage' = stage /\ actor' = actor /\ foe' = foe /\ side' = side
          /\ damageByMember' = damageByMember /\ over' = over /\ told' = told
      BY <1>6 DEF Rounds!Ended, Rounds!vars
    <2> QED BY <2>1, RoundsGoOn DEF RoundsAfter, RoundsInv, RoundsControl, Rounds!EventsTellTheHp
  <1> QED BY <1>1, <1>2, <1>3, <1>4, <1>5, <1>6 DEF Rounds!Next

LEMMA RoundsAreSafe == RoundsInv => Rounds!DamageAddsUp /\ Rounds!EventsTellTheHp
  BY RoundsSame DEF RoundsInv, DamageSum, Rounds!DamageAddsUp

---------------------------------------------------------------------------
(* The whole game                                                           *)

GameInv == live = "tree" => TreeInv

LEMMA GameStarts == GameInit => GameInv
  BY TreeStarts DEF GameInit, PlayInit, GameInv

LEMMA GameKeeps == GameInv /\ [GameNext]_gameVars => GameInv'
  <1> SUFFICES ASSUME GameInv, [GameNext]_gameVars, live' = "tree" PROVE TreeInv'
    BY DEF GameInv
  <1>1. CASE GameShared
    <2>1. PlayNext => live # "tree" /\ live' = live
      BY DEF PlayNext, PlayGoods, PlayFriends, PlayQuests, PlayStages, PlayPvp
    <2> QED BY <1>1, <2>1 DEF GameShared
  <1>2. CASE GameTree
    BY <1>2, TreeStep DEF GameTree, GameInv
  <1>3. CASE GameArena \/ GameBattles \/ GameLoadout
    BY <1>3 DEF GameArena, GameBattles, GameLoadout
  <1>4. CASE UNCHANGED gameVars
    <2>1. live' = live /\ UNCHANGED Tree!vars
      BY <1>4 DEF gameVars, playVars, ofRequests, ofTree, Tree!vars, Tree!requestVars, Tree!tables, Tree!ghosts
    <2> QED BY <2>1, TreeStep DEF GameInv
  <1> QED BY <1>1, <1>2, <1>3, <1>4 DEF GameNext

(* Whatever requests, drafts and achievements cross, the nodes of a trainer *)
(* stay joined to the hub and within the points earned, the ascendancy is   *)
(* one path from its first node within its own points, and options are      *)
(* picked of masteries in the tree (passive-data.ts: isValidAllocation,     *)
(* validatePassiveDraft; passive.service.ts reads progress without a lock). *)
THEOREM GameTreeStaysConnected == Game => []TreeStaysConnected
  <1>1. GameInv => TreeStaysConnected
    BY TreeIsSafe DEF GameInv, TreeStaysConnected
  <1> QED BY <1>1, GameStarts, GameKeeps, PTL DEF Game

(* However the points taken back are spread over requests, and whichever of *)
(* them fail, the gems gone are what one request for all of them costs,     *)
(* less what the cap spared a branch, plus changed picks and restarted      *)
(* ascendancies (passive.service.ts:144, "created on first use and locked   *)
(* so two requests can't overspend points").                                *)
THEOREM GameRefundsArePaid == Game => []RefundsArePaid
  <1>1. GameInv => RefundsArePaid
    BY TreeIsSafe DEF GameInv, RefundsArePaid
  <1> QED BY <1>1, GameStarts, GameKeeps, PTL DEF Game

BattlesInv == live = "battles" => RoundsInv

LEMMA BattlesStart == GameInit => BattlesInv
  BY RoundsStart DEF GameInit, PlayInit, BattlesInv

LEMMA BattlesKeep == BattlesInv /\ [GameNext]_gameVars => BattlesInv'
  <1> SUFFICES ASSUME BattlesInv, [GameNext]_gameVars, live' = "battles" PROVE RoundsInv'
    BY DEF BattlesInv
  <1>1. CASE GameShared
    <2>1. PlayNext => live # "battles" /\ live' = live
      BY DEF PlayNext, PlayGoods, PlayFriends, PlayQuests, PlayStages, PlayPvp
    <2> QED BY <1>1, <2>1 DEF GameShared
  <1>2. CASE GameBattles
    BY <1>2, RoundsStep DEF GameBattles, BattlesInv
  <1>3. CASE GameArena \/ GameTree \/ GameLoadout
    BY <1>3 DEF GameArena, GameTree, GameLoadout
  <1>4. CASE UNCHANGED gameVars
    <2>1. live' = live /\ UNCHANGED Rounds!vars
      BY <1>4 DEF gameVars, playVars, ofFights, ofBattles, Rounds!vars
    <2> QED BY <2>1, RoundsStep DEF BattlesInv
  <1> QED BY <1>1, <1>2, <1>3, <1>4 DEF GameNext

(* Whatever burns, reflects, overkills or strikes twice, in a duel and in a *)
(* team's fight alike: the members are credited with no less than the HP    *)
(* the boss dropped, with exactly that when the boss cannot heal, and a     *)
(* client that replays the events sees the HP of the fight at every step    *)
(* (battle-engine.ts: simulateBattle; team-battle.ts: simulateTeamBattle).  *)
THEOREM GameRoundsAddUp == Game => []RoundsAddUp
  <1>1. BattlesInv => RoundsAddUp
    BY RoundsAreSafe DEF BattlesInv, RoundsAddUp
  <1> QED BY <1>1, BattlesStart, BattlesKeep, PTL DEF Game

=============================================================================
