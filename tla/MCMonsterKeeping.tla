-------------------------- MODULE MCMonsterKeeping --------------------------
(* A small world for MonsterKeeping and MonsterTime: five forms, a life of  *)
(* some ten minutes, and every threshold small enough to be met on the way. *)
EXTENDS MonsterTime

CONSTANT never

MCSpecies == {"egg", "baby", "good", "poor", "ultimate"}
MCStage ==
    [egg |-> "EGG", baby |-> "BABY_1", good |-> "PERFECT", poor |-> "PERFECT",
     ultimate |-> "ULTIMATE"]

Rule(to, maxMistakes, minTrain, minWins) ==
    [to |-> to, maxCareMistakes |-> maxMistakes, minTrainCount |-> minTrain, minWins |-> minWins]

MCEvolutions ==
    [egg |-> <<Rule("baby", never, 0, 0)>>,
     baby |-> <<Rule("good", 0, 1, 0), Rule("poor", never, 0, 0)>>,
     good |-> <<Rule("ultimate", 1, 0, 1)>>,
     poor |-> <<Rule("ultimate", 3, 0, 1)>>,
     ultimate |-> <<>>]

MCDurations == [EGG |-> 2, BABY_1 |-> 3, PERFECT |-> 3, ULTIMATE |-> never]
MCLifespans == [s \in {"EGG", "BABY_1", "PERFECT", "ULTIMATE"} |-> 9]
MCFullnessLoss == [EGG |-> 0, BABY_1 |-> 2, PERFECT |-> 1, ULTIMATE |-> 1]
MCStrengthLoss == [EGG |-> 0, BABY_1 |-> 2, PERFECT |-> 2, ULTIMATE |-> 1]
MCPoopEvery == [EGG |-> 2, BABY_1 |-> 2, PERFECT |-> 3, ULTIMATE |-> 3]

Drain(hunger) == [hunger |-> hunger, poopEvery |-> MCPoopEvery]
TidyDrain ==
    [hunger |-> 1, poopEvery |-> [EGG |-> 4, BABY_1 |-> 4, PERFECT |-> 6, ULTIMATE |-> 6]]

OneDrain == {Drain(1)}
TwoDrains == {Drain(0), TidyDrain}
Rewards == {1, 2}

CareOps == {"feed", "clean", "medicine", "explore", "claim", "battle"}

(* MonsterKeeping alone: nobody looks at the monster but the requests. *)
KeepingInit == Init /\ found = never
KeepingNext == Next /\ UNCHANGED found
KeepingSpec == KeepingInit /\ [][KeepingNext]_timeVars
=============================================================================
