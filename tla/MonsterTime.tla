---------------------------- MODULE MonsterTime ----------------------------
(* Keeping a monster on demand against living in real time: MonsterKeeping *)
(* implements MonsterLife.                                                 *)
EXTENDS MonsterKeeping, MonsterLife

(* The monster as it would be found now, kept up to date by every step so  *)
(* that it is worked out once.                                             *)
VARIABLE found

timeVars == <<vars, found>>

TimeInit == Init /\ found = pet
TimeNext == Next /\ \E s \in {Tick(pet', clock', drain')} : found' = AtRest(s)
TimeSpec == TimeInit /\ [][TimeNext]_timeVars /\ WF_vars(Pass)

RealTime == INSTANCE MonsterLife WITH pet <- found

(* Replaying on demand is as good as living in real time: the monster a    *)
(* request finds is the one that would have lived through every minute     *)
(* (simulation.ts:267-268).                                                *)
LivesInRealTime == RealTime!Life

(* Every monster's life ends, also when nobody ever looks at it again.     *)
EveryLifeEnds == <>IsDead(found)
=============================================================================
