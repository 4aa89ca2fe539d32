---------------------------- MODULE PassiveData -----------------------------
(* The passive tree, as buildNodes builds it, and the rules of what may be  *)
(* owned and what it costs                                                  *)
(* (src/src/modules/monster/passive/passive-data.ts).                       *)
EXTENDS Integers, Sequences, FiniteSets, Functions

PASSIVE_LANE_LENGTH == 16
RING_SIZE == 12
BRIDGE_LENGTH == 6
ASCENDANCY_LENGTH == 12
PATHS == 3

PASSIVE_MAX_POINTS == 100
PASSIVE_DEX_MAX_POINTS == 33
PASSIVE_ADVENTURE_MAX_POINTS == 20
PASSIVE_WINS_PER_POINT == 100
PASSIVE_WIN_MAX_POINTS == 10
ASCENDANCY_MAX_POINTS == 12
PASSIVE_FREE_REFUNDS == 10
PASSIVE_RESPEC_GEM_PRICE == 1
ASCENDANCY_RESET_GEM_PRICE == 20
MASTERY_REPICK_GEM_PRICE == 1

(* The tree.  A node is <<kind, arm or path, lane, index>>.                *)

Hub == <<"hub", 0, 0, 0>>
Ring(i) == <<"ring", 0, 0, i>>
Lane(arm, lane, k) == <<"lane", arm, lane, k>>
Bridge(arm, lane, k) == <<"bridge", arm, lane, k>>
Mastery(arm, i) == <<"mastery", arm, i, 0>>
Ascend(path, k) == <<"ascend", path, 0, k>>

Arms == 0..5
Rings == {Ring(i) : i \in 0..(RING_SIZE - 1)}
LaneNodes == {Lane(a, l, k) : a \in Arms, l \in 0..2, k \in 0..(PASSIVE_LANE_LENGTH - 1)}
BridgeNodes == {Bridge(a, l, k) : a \in Arms, l \in 0..1, k \in 0..(BRIDGE_LENGTH - 1)}
Masteries == {Mastery(a, i) : a \in Arms, i \in 0..1}
AscendNodes == {Ascend(p, k) : p \in 1..PATHS, k \in 0..(ASCENDANCY_LENGTH - 1)}
Nodes == {Hub} \cup Rings \cup LaneNodes \cup BridgeNodes \cup Masteries \cup AscendNodes

(* A lane starts at the ring node nearest to its angle: each arm is 60      *)
(* degrees, its lanes 18 to either side, ring nodes 30 apart.               *)
RingOf(arm, lane) == (2 * arm - 4 + lane + RING_SIZE) % RING_SIZE

NextArm(arm) == (arm + 1) % Cardinality(Arms)

Links ==
    {<<Hub, v>> : v \in Rings}
    \cup {<<Ring(RingOf(a, l)), Lane(a, l, 0)>> : a \in Arms, l \in 0..2}
    \cup {<<Lane(a, l, k - 1), Lane(a, l, k)>> : a \in Arms, l \in 0..2, k \in 1..(PASSIVE_LANE_LENGTH - 1)}
    \cup {<<Lane(a, l, k), Lane(a, l + 1, k)>> :
            a \in Arms, l \in 0..1, k \in {i \in 0..(PASSIVE_LANE_LENGTH - 1) : i % 4 = 3}}
    \cup {<<Bridge(a, l, k - 1), Bridge(a, l, k)>> : a \in Arms, l \in 0..1, k \in 1..(BRIDGE_LENGTH - 1)}
    \cup {<<Lane(a, 2, 4 + l), Bridge(a, l, 0)>> : a \in Arms, l \in 0..1}
    \cup {<<Lane(NextArm(a), 0, 10 + l), Bridge(a, l, BRIDGE_LENGTH - 1)>> : a \in Arms, l \in 0..1}
    \cup {<<Bridge(a, 0, 2), Bridge(a, 1, 2)>> : a \in Arms}
    \cup {<<Lane(a, 2 * i, 8), Mastery(a, i)>> : a \in Arms, i \in 0..1}
    \cup {<<Lane(a, 1, 8), Mastery(a, i)>> : a \in Arms, i \in 0..1}
    \cup {<<Ascend(p, k - 1), Ascend(p, k)>> : p \in 1..PATHS, k \in 1..(ASCENDANCY_LENGTH - 1)}

adj == [n \in Nodes |-> {l[2] : l \in {k \in Links : k[1] = n}} \cup {l[1] : l \in {k \in Links : k[2] = n}}]

(* What can be reached from "from" through nodes of "owned" *)
Reachable(from, owned) ==
    LET near(seen) == seen \cup UNION {adj[n] \cap owned : n \in seen}
        grown[i \in 0..Cardinality(owned)] == IF i = 0 THEN {from} ELSE near(grown[i - 1])
    IN grown[Cardinality(owned)]

isValidAllocation(ids) == ids \subseteq Nodes \ {Hub} /\ ids \subseteq Reachable(Hub, ids)
(* A bug: whatever is connected may go, its last link included. *)
canDeallocateAny(ids, n) == n \in ids

canAllocate(ids, n) == n \in Nodes \ (ids \cup {Hub}) /\ adj[n] \cap (ids \cup {Hub}) # {}
canDeallocate(ids, n) == n \in ids /\ isValidAllocation(ids \ {n})
branchOf(ids, n) == ids \ Reachable(Hub, ids \ {n})
getAscendancyPath(n) == IF n[1] = "ascend" THEN n[2] ELSE 0
ascendancyRoot(path) == Ascend(path, 0)

canAllocateAscendancy(path, ids, n) ==
    /\ n \in AscendNodes \ ids
    /\ ids # {} => path = getAscendancyPath(n)
    /\ n = ascendancyRoot(getAscendancyPath(n)) \/ adj[n] \cap ids # {}

isValidAscendancy(ids) ==
    ids # {} => \E path \in 1..PATHS :
        /\ \A n \in ids : getAscendancyPath(n) = path
        /\ ascendancyRoot(path) \in ids
        /\ ids \subseteq Reachable(ascendancyRoot(path), ids)

---------------------------------------------------------------------------
(* Points and prices                                                       *)

Least(a, b) == IF a < b THEN a ELSE b
AtLeast0(a) == IF a < 0 THEN 0 ELSE a

SeasonPoints(rank) == IF rank <= 3 THEN 3 ELSE IF rank <= 10 THEN 2 ELSE 1

calcPassivePoints(p) ==
    Least(PASSIVE_MAX_POINTS,
          Least(p.dexSpecies, PASSIVE_DEX_MAX_POINTS) + p.raidFirstClears
          + Least(p.adventureClears, PASSIVE_ADVENTURE_MAX_POINTS)
          + Least(p.totalWins \div PASSIVE_WINS_PER_POINT, PASSIVE_WIN_MAX_POINTS)
          + p.worldBossDefeats
          + SumFunction([i \in DOMAIN p.pvpSeasonRanks |-> SeasonPoints(p.pvpSeasonRanks[i])]))

calcAscendancyPoints(p) ==
    Least(ASCENDANCY_MAX_POINTS, Least(p.nightmareClears, 6) + Least(p.worldBossDefeats, 6))

Points(p) == [tree |-> calcPassivePoints(p), ascendancy |-> calcAscendancyPoints(p)]

(* A bug: every request has the free refunds for itself. *)
calcRespecCostAnew(alreadyRefunded, count) == AtLeast0(count - PASSIVE_FREE_REFUNDS) * PASSIVE_RESPEC_GEM_PRICE

calcRespecCost(alreadyRefunded, count) ==
    (AtLeast0(alreadyRefunded + count - PASSIVE_FREE_REFUNDS)
       - AtLeast0(alreadyRefunded - PASSIVE_FREE_REFUNDS)) * PASSIVE_RESPEC_GEM_PRICE

(* Picks are functions from the masteries picked to options 0..2. *)
Options == 0..2
isValidMasteryPick(n, option) == n \in Masteries /\ option \in Options

Repicked(saved, draft) ==
    {n \in DOMAIN saved.picks : n \in draft.nodes /\ n \in DOMAIN draft.picks /\ draft.picks[n] # saved.picks[n]}

Restarted(saved, draft) == ~(saved.ascendancy \subseteq draft.ascendancy)

calcPassiveSaveCost(saved, draft) ==
    calcRespecCost(saved.refunded, Cardinality(saved.nodes \ draft.nodes))
    + MASTERY_REPICK_GEM_PRICE * Cardinality(Repicked(saved, draft))
    + IF Restarted(saved, draft) THEN ASCENDANCY_RESET_GEM_PRICE ELSE 0

validatePassiveDraft(draft, points) ==
    /\ isValidAllocation(draft.nodes) /\ Cardinality(draft.nodes) <= points.tree
    /\ \A n \in DOMAIN draft.picks : n \in draft.nodes /\ isValidMasteryPick(n, draft.picks[n])
    /\ isValidAscendancy(draft.ascendancy)
    /\ Cardinality(draft.ascendancy) <= points.ascendancy

EmptyTree == [nodes |-> {}, refunded |-> 0, picks |-> <<>>, ascendancy |-> {}]
=============================================================================
