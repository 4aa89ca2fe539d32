-------------------------- MODULE MCMonsterRoster --------------------------
(* Small instances of MonsterRoster. *)
EXTENDS MonsterRoster

CONSTANTS m1, m2, e1, e2, r1, r2, r3

MCMonsters == {m1, m2, e1, e2}
MCStarters == {m1, m2}
TwoRequests == {r1, r2}
ThreeRequests == {r1, r2, r3}

EveryOp == AllOps
HatchOnly == {"hatch"}
MergeAndFight == {"merge", "fight"}

(* Any two requests; and beside some of them a third one.  Where the first *)
(* two look and fight, a third one selects a monster: who looks before it  *)
(* and who looks after it lock the same rows in different orders.  Where a *)
(* fight waits for a merge, a third one comes after the merge: it locks    *)
(* the fused monster, on which the fight falls back without a lock.        *)
AfterTheMerge == {"fight", "returnHome"}

IsCrowded ==
    \/ op[r1] = "look" /\ op[r2] = "fight" /\ op[r3] = "select"
    \/ op[r1] = "merge" /\ op[r2] = "fight" /\ op[r3] \in AfterTheMerge

ThirdMayCome == IsCrowded /\ (op[r1] = "merge" => pc[r1] = "committed" /\ pc[r2] # "idle")

CrowdInit ==
    /\ Init
    /\ op[r3] = "select" \/ IsCrowded

CrowdNext == Next /\ (pc'[r3] = "idle" \/ ThirdMayCome)

Crowds ==
    /\ CrowdInit /\ [][CrowdNext]_vars
    /\ \A r \in Requests : WF_vars(CrowdNext /\ Step(r))
=============================================================================
