---------------------------- MODULE PassiveTree ----------------------------
(* The passive tree of one trainer: taking points, taking them back,       *)
(* mastery picks, the ascendancy, and saving a whole draft at once         *)
(* (src/src/modules/monster/passive/passive.service.ts).                  *)
(*                                                                         *)
(* Every request creates the trainer's row if it is missing and locks it,  *)
(* counts what the trainer has achieved without a lock, pays gems with a   *)
(* conditional UPDATE of the wallet, and writes the row back whole.        *)
EXTENDS PassiveData, FiniteSetsExt

CONSTANTS
    PASSIVE_BRANCH_REFUND_CAP,
    Requests, Plans,
    OpeningTrees,     \* rows the trainer may begin with
    OpeningProgress,  \* and what it may have achieved by then
    OpeningGems,
    NoRequest

VARIABLES plan, pc, mine, earned, cost, holder, wallet, row, gems, progress,
          taken, restarts, paidRepicks, capped, elsewhere

requestVars == <<plan, pc, mine, earned, cost>>
tables == <<row, gems, progress>>
(* What is remembered about the commits:                                    *)
(*   taken         the points that left the tree                            *)
(*   restarts      how often the ascendancy lost a node                     *)
(*   paidRepicks   gems paid for changed picks                              *)
(*   capped        gems a branch was spared by its cap                      *)
(*   elsewhere     gems that other requests of the trainer spent            *)
ghosts == <<taken, restarts, paidRepicks, capped, elsewhere>>
vars == <<requestVars, holder, wallet, tables, ghosts>>

---------------------------------------------------------------------------

Progress ==
    [dexSpecies : Nat, raidFirstClears : Nat, nightmareClears : Nat, adventureClears : Nat,
     totalWins : Nat, worldBossDefeats : Nat, pvpSeasonRanks : Seq(Nat)]

(* A trainer's row, whatever it holds *)
IsRow(t) ==
    /\ t = [nodes |-> t.nodes, refunded |-> t.refunded, picks |-> t.picks, ascendancy |-> t.ascendancy]
    /\ IsFiniteSet(t.nodes) /\ IsFiniteSet(t.ascendancy) /\ t.refunded \in Nat

Kinds == {"allocate", "deallocate", "deallocateBranch", "respec", "save", "pickMastery",
          "allocateAscendancy", "resetAscendancy"}

TreeAssumption ==
    /\ IsFiniteSet(Requests) /\ NoRequest \notin Requests
    /\ PASSIVE_BRANCH_REFUND_CAP \in Nat /\ OpeningGems \in Nat
    /\ OpeningProgress \subseteq Progress
    /\ \A t \in OpeningTrees : IsRow(t) /\ \A p \in OpeningProgress : validatePassiveDraft(t, Points(p))
    /\ \A q \in Plans : DOMAIN q \subseteq Requests /\ \A r \in DOMAIN q : q[r].kind \in Kinds /\ IsRow(q[r].draft)

Labels == {"idle", "lock", "progress", "pay", "write", "committed", "rolledBack"}

PathOf(r) == IF r.ascendancy = {} THEN 0 ELSE getAscendancyPath(CHOOSE n \in r.ascendancy : TRUE)

TypeOK ==
    /\ plan \in Plans /\ pc \in [Requests -> Labels]
    /\ {holder, wallet} \subseteq Requests \cup {NoRequest}
    /\ row.nodes \subseteq Nodes \ {Hub} /\ row.ascendancy \subseteq AscendNodes
    /\ row.refunded \in Nat /\ gems \in Nat

Init ==
    /\ plan \in Plans
    /\ pc = [r \in Requests |-> "idle"]
    /\ mine = [r \in Requests |-> EmptyTree]
    /\ earned = [r \in Requests |-> [tree |-> 0, ascendancy |-> 0]]
    /\ cost = [r \in Requests |-> 0]
    /\ holder = NoRequest /\ wallet = NoRequest
    /\ row \in OpeningTrees
    /\ gems = OpeningGems
    /\ progress \in OpeningProgress
    /\ taken = 0 /\ restarts = 0 /\ paidRepicks = 0 /\ capped = 0
    /\ elsewhere = 0

Kind(r) == plan[r].kind
Node(r) == plan[r].node
Draft(r) == plan[r].draft
At(r, label) == r \in DOMAIN plan /\ pc[r] = label
Goto(r, label) == pc' = [pc EXCEPT ![r] = label]

(* The fights, the dex and the bosses of the trainer go on meanwhile. *)
Achieve ==
    /\ \E p \in OpeningProgress :
          /\ \A k \in DOMAIN p \ {"pvpSeasonRanks"} : p[k] >= progress[k]
          /\ p # progress /\ p.pvpSeasonRanks = progress.pvpSeasonRanks
          /\ progress' = p
    /\ UNCHANGED <<requestVars, holder, wallet, row, gems, ghosts>>

SpendElsewhere ==
    /\ wallet = NoRequest /\ gems > 0 /\ elsewhere = 0
    /\ gems' = gems - 1 /\ elsewhere' = 1
    /\ UNCHANGED <<requestVars, holder, wallet, row, progress, taken, restarts, paidRepicks, capped>>

Begin(r) ==
    /\ At(r, "idle") /\ Goto(r, "lock")
    /\ UNCHANGED <<plan, mine, earned, cost, holder, wallet, tables, ghosts>>

(* A bug: the row is read without FOR UPDATE. *)
FreeUnlocked(h) == TRUE

Free(h) == h = NoRequest

(* lockRow *)
LockRow(r) ==
    /\ At(r, "lock") /\ Free(holder)
    /\ holder' = r
    /\ mine' = [mine EXCEPT ![r] = row]
    /\ Goto(r, "progress")
    /\ UNCHANGED <<plan, earned, cost, wallet, tables, ghosts>>

(* loadProgress *)
ReadProgress(r) ==
    /\ At(r, "progress")
    /\ earned' = [earned EXCEPT ![r] = Points(progress)]
    /\ Goto(r, "pay")
    /\ UNCHANGED <<plan, mine, cost, holder, wallet, tables, ghosts>>

Removed(r) ==
    CASE Kind(r) = "deallocate" -> {Node(r)}
      [] Kind(r) = "deallocateBranch" -> branchOf(mine[r].nodes, Node(r))
      [] Kind(r) = "respec" -> mine[r].nodes
      [] Kind(r) = "save" -> mine[r].nodes \ Draft(r).nodes
      [] OTHER -> {}

IsAllowed(r) ==
    CASE Kind(r) = "allocate" ->
            canAllocate(mine[r].nodes, Node(r)) /\ Cardinality(mine[r].nodes) < earned[r].tree
      [] Kind(r) = "deallocate" -> canDeallocate(mine[r].nodes, Node(r))
      [] Kind(r) = "deallocateBranch" -> Node(r) \in mine[r].nodes
      [] Kind(r) = "respec" -> mine[r].nodes # {}
      [] Kind(r) = "save" -> validatePassiveDraft(Draft(r), earned[r])
      [] Kind(r) = "pickMastery" ->
            /\ Node(r) \in mine[r].nodes /\ isValidMasteryPick(Node(r), plan[r].option)
            /\ Node(r) \in DOMAIN mine[r].picks => mine[r].picks[Node(r)] # plan[r].option
      [] Kind(r) = "allocateAscendancy" ->
            /\ canAllocateAscendancy(PathOf(mine[r]), mine[r].ascendancy, Node(r))
            /\ Cardinality(mine[r].ascendancy) < earned[r].ascendancy
      [] Kind(r) = "resetAscendancy" -> mine[r].ascendancy # {}

FullCost(r) == calcRespecCost(mine[r].refunded, Cardinality(Removed(r)))

Cost(r) ==
    CASE Kind(r) = "deallocateBranch" -> Least(FullCost(r), PASSIVE_BRANCH_REFUND_CAP)
      [] Kind(r) \in {"deallocate", "respec"} -> FullCost(r)
      [] Kind(r) = "save" -> calcPassiveSaveCost(mine[r], Draft(r))
      [] Kind(r) = "pickMastery" -> IF Node(r) \in DOMAIN mine[r].picks THEN MASTERY_REPICK_GEM_PRICE ELSE 0
      [] Kind(r) = "resetAscendancy" -> ASCENDANCY_RESET_GEM_PRICE
      [] OTHER -> 0

(* WalletService.change, where the request costs anything *)
Pay(r) ==
    /\ At(r, "pay") /\ IsAllowed(r)
    /\ cost' = [cost EXCEPT ![r] = Cost(r)]
    /\ IF Cost(r) > 0
       THEN wallet = NoRequest /\ gems >= Cost(r) /\ wallet' = r /\ gems' = gems - Cost(r)
       ELSE UNCHANGED <<wallet, gems>>
    /\ Goto(r, "write")
    /\ UNCHANGED <<plan, mine, earned, holder, row, progress, ghosts>>

Written(r) ==
    CASE Kind(r) = "allocate" -> [mine[r] EXCEPT !.nodes = @ \cup {Node(r)}]
      [] Kind(r) \in {"deallocate", "deallocateBranch", "respec"} ->
            [mine[r] EXCEPT !.nodes = @ \ Removed(r),
                            !.picks = Restrict(@, DOMAIN @ \ Removed(r)),
                            !.refunded = @ + Cardinality(Removed(r))]
      [] Kind(r) = "save" ->
            [nodes |-> Draft(r).nodes, picks |-> Draft(r).picks, ascendancy |-> Draft(r).ascendancy,
             refunded |-> mine[r].refunded + Cardinality(Removed(r))]
      [] Kind(r) = "pickMastery" ->
            [mine[r] EXCEPT !.picks = [n \in DOMAIN @ \cup {Node(r)} |->
                                         IF n = Node(r) THEN plan[r].option ELSE @[n]]]
      [] Kind(r) = "allocateAscendancy" -> [mine[r] EXCEPT !.ascendancy = @ \cup {Node(r)}]
      [] Kind(r) = "resetAscendancy" -> [mine[r] EXCEPT !.ascendancy = {}]

Release(r) ==
    /\ holder' = IF holder = r THEN NoRequest ELSE holder
    /\ wallet' = IF wallet = r THEN NoRequest ELSE wallet

(* etm.save and the commit *)
Write(r) ==
    /\ At(r, "write")
    /\ row' = Written(r)
    /\ LET charged == IF Kind(r) = "save" THEN Cardinality(Repicked(mine[r], Draft(r)))
                      ELSE IF Kind(r) = "pickMastery" /\ cost[r] > 0 THEN 1 ELSE 0
       IN paidRepicks' = paidRepicks + MASTERY_REPICK_GEM_PRICE * charged
    /\ taken' = taken + Cardinality(row.nodes \ row'.nodes)
    /\ restarts' = restarts + (IF Restarted(row, row') THEN 1 ELSE 0)
    /\ capped' = capped + (IF Kind(r) = "deallocateBranch" THEN FullCost(r) - Cost(r) ELSE 0)
    /\ Goto(r, "committed") /\ Release(r)
    /\ UNCHANGED <<plan, mine, earned, cost, gems, progress, elsewhere>>

(* A refusal, or a failure of the process: everything is rolled back. *)
Abort(r) ==
    /\ \/ At(r, "pay") /\ (~IsAllowed(r) \/ gems < Cost(r))
       \/ At(r, "write")
    /\ gems' = IF At(r, "write") THEN gems + cost[r] ELSE gems
    /\ Goto(r, "rolledBack") /\ Release(r)
    /\ UNCHANGED <<plan, mine, earned, cost, row, progress, ghosts>>

Step(r) == Begin(r) \/ LockRow(r) \/ ReadProgress(r) \/ Pay(r) \/ Write(r) \/ Abort(r)

Next == Achieve \/ SpendElsewhere \/ \E r \in DOMAIN plan : Step(r)

Spec == Init /\ [][Next]_vars

---------------------------------------------------------------------------

(* Whatever requests, drafts and achievements cross: the nodes owned are    *)
(* joined to the hub and paid for with points earned, options are picked    *)
(* of masteries that are owned, and the ascendancy is one path from its     *)
(* first node, within its own points (passive-data.ts: isValidAllocation).  *)
TreeStaysConnected ==
    /\ validatePassiveDraft(row, Points(progress))
    /\ isValidAscendancy(row.ascendancy)
    /\ isValidAllocation(row.nodes)

(* "created on first use and locked so two requests can't overspend points" *)
(* (passive.service.ts:144): however the points taken back are spread over   *)
(* requests, they cost what one request for all of them would have cost,     *)
(* less what the cap spared a branch; a restarted ascendancy and a changed   *)
(* pick are paid for, and nothing else is.  A pick that one draft dropped    *)
(* and a later request sets anew is a first pick here, as it is in the code. *)
RefundsArePaid ==
    LET reserved == SumFunction([r \in Requests |-> IF At(r, "write") THEN cost[r] ELSE 0])
        before == row.refunded - taken
    IN OpeningGems - gems - elsewhere - reserved =
         calcRespecCost(before, taken) - capped + paidRepicks + ASCENDANCY_RESET_GEM_PRICE * restarts

=============================================================================
