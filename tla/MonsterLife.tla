---------------------------- MODULE MonsterLife ----------------------------
(***************************************************************************)
(* What the engine promises: the monster lives in real time.  Every minute *)
(* that passes happens to it then, whether or not anybody looks at it.     *)
(***************************************************************************)
EXTENDS MonsterEngine

lifeVars == <<pet, clock, drain>>

Birth ==
    /\ pet = NewEgg(0)
    /\ clock = 0
    /\ drain \in Drains

(* Nobody sees or ticks the dead: these two stop at the death. *)
AtRest(s) ==
    IF IsDead(s) THEN [s EXCEPT !.lastTickAt = s.diedAt, !.lastSeenAt = s.diedAt] ELSE s

TimePasses ==
    /\ clock < MAX_CLOCK
    /\ clock' = clock + 1
    /\ IF clock' % Minute = 0 /\ ~IsDead(pet)
       THEN \E s \in {Step(pet, clock', drain)} : pet' = AtRest([s EXCEPT !.lastTickAt = clock'])
       ELSE pet' = pet
    /\ UNCHANGED drain

(* A request marks the owner online. *)
OwnerActs ==
    /\ ~IsDead(pet)
    /\ Act([pet EXCEPT !.lastSeenAt = clock], clock)
    /\ UNCHANGED <<clock, drain>>

(* The owner learns or forgets a passive. *)
OwnerAllocates == drain' \in Drains /\ UNCHANGED <<pet, clock>>

LifeNext == TimePasses \/ OwnerActs \/ OwnerAllocates

Life == Birth /\ [][LifeNext]_lifeVars

LifeOfType == pet \in Pet /\ clock \in Nat /\ drain \in Drains

(* The form is decided once: a monster whose time was up and that did not  *)
(* evolve stays what it is for good, whatever it achieves later            *)
(* (monster-rules.ts:15, simulation.ts:172-174).                           *)
FormDecidedOnce ==
    [][LET duration == STAGE_DURATION_MINUTES[Stage[pet.form]] IN
       duration # Never /\ pet.stageMinutes >= duration => pet'.form = pet.form]_lifeVars
=============================================================================
