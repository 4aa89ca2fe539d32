------------------------------ MODULE Loadout -------------------------------
(* What a player's monster brings into an arena fight, and against whom     *)
(* (src/src/modules/monster/arena/arena-fighter.ts, passive/skill.service.ts,*)
(* and the services that start fights or freeze a copy of a fighter).       *)
(*                                                                         *)
(* The picks of a monster are stored once and outlive what made them legal: *)
(* it evolves, its own skill changes, and it may merge.  So they are        *)
(* checked when they are set and cleaned whenever they are used.            *)
EXTENDS Bestiary

CONSTANTS
    MyLines,                \* the lines the followed pet may be hatched in
    Partners,               \* the lines of ultimates it may be merged with
    Others,                 \* species the player's other monsters may become
    Picks, DodgePicks,      \* skill ids a request may ask for
    MAX_PETS                \* bound: pets followed one after the other

VARIABLES
    pet, dex, slots,        \* the row of the pet, the player's dex, its skillLoadout
    kept,                   \* ghost: the pet has kept its form since the slots were set
    made,                   \* the fighter a request has built, until it answers
    pets

vars == <<pet, dex, slots, kept, made, pets>>

Egg(line) == [id |-> <<line, "egg">>, line |-> line]

Init ==
    /\ \E l \in MyLines : pet = Egg(l)
    /\ dex = {} /\ slots = EMPTY_LOADOUT
    /\ kept = FALSE /\ made = <<>> /\ pets = 1

---------------------------------------------------------------------------
(* A request of the player first ticks the monsters, which may evolve: the  *)
(* dex learns every form.                                                   *)

Evolve ==
    /\ StageOf(pet.id) # "fused"
    /\ \E form \in Evolutions[pet.id[2]] :
          LET id == <<pet.line, form>> IN
          /\ pet' = [pet EXCEPT !.id = id]
          /\ dex' = dex \cup {id}
    /\ kept' = FALSE
    /\ UNCHANGED <<slots, made, pets>>

RaiseAnother ==
    /\ \E s \in Others \ dex : dex' = dex \cup {s}
    /\ UNCHANGED <<pet, slots, kept, made, pets>>

(* The pet is gone, or another is selected. *)
NextPet ==
    /\ pets < MAX_PETS /\ pets' = pets + 1
    /\ \E l \in MyLines : pet' = Egg(l)
    /\ slots' = EMPTY_LOADOUT /\ kept' = FALSE
    /\ UNCHANGED <<dex, made>>

Merge ==
    /\ StageOf(pet.id) = "ultimate"
    /\ \E l \in Partners : isSameGroup(pet.line, l) /\ \E base \in {pet.line, l} :
          LET id == fusedSpeciesId(pet.line, l) IN
          /\ pet' = [id |-> id, line |-> base]
          /\ dex' = dex \cup {id}
    /\ slots' = EMPTY_LOADOUT /\ kept' = FALSE
    /\ UNCHANGED <<made, pets>>

Accepts(loadout) ==
    LET check(id, slot, others) == id # None => Fits(pet, id, slot, others, dex)
    IN /\ hasArenaSkills(StageOf(pet.id))
       /\ (loadout.s1 # None => loadout.s1 # loadout.s2)
       /\ check(loadout.s1, "skill", {})
       /\ check(loadout.s2, "skill", {loadout.s1} \ {None})
       /\ check(loadout.dodge, "dodge", {})

setLoadout ==
    /\ \E s1, s2 \in Picks, d \in DodgePicks :
          LET loadout == [s1 |-> s1, s2 |-> s2, dodge |-> d] IN
          /\ Accepts(loadout)
          /\ slots' = loadout
    /\ kept' = TRUE
    /\ UNCHANGED <<pet, dex, made, pets>>

loadArenaLoadout == cleanArenaLoadout(pet, slots, dex)

Fight ==
    /\ {f \in Fights : MayFight(pet, f)} # {}
    /\ made' = <<toArenaFighter(pet, loadArenaLoadout)>>
    /\ UNCHANGED <<pet, dex, slots, kept, pets>>

(* setDefense and setSupport freeze a copy (Pvp and FriendGraph model when). *)
Freeze ==
    /\ StageOf(pet.id) \in PVP_STAGES
    /\ made' = <<toArenaFighter(pet, loadArenaLoadout)>>
    /\ UNCHANGED <<pet, dex, slots, kept, pets>>

Answer ==
    /\ made' = <<>>
    /\ UNCHANGED <<pet, dex, slots, kept, pets>>

Request == Evolve \/ RaiseAnother \/ NextPet \/ Merge \/ setLoadout \/ Fight \/ Freeze

(* One request of the player after the other *)
Next == IF made = <<>> THEN Request ELSE Answer

Spec == Init /\ [][Next]_vars

---------------------------------------------------------------------------

TypeOK ==
    /\ pet.id \in SPECIES /\ pet.line \in Lines /\ dex \subseteq SPECIES
    /\ slots \in [s1 : Picks, s2 : Picks, dodge : DodgePicks \cup {None}]

(* Whatever was picked, learnt, evolved or merged in between, a fighter     *)
(* that enters a fight, or is frozen for others to fight, carries only      *)
(* skills of its elements or neutral ones, none twice, one passive at most, *)
(* and besides its own only what the player's dex has unlocked; a baby      *)
(* carries none.                                                            *)
FighterIsLegal(spec) ==
    LET n == Len(spec.skills)
        of(i) == ARENA_SKILL_BY_ID[spec.skills[i]]
    IN /\ \A i \in 1..n :
             /\ of(i).slot # "dodge" /\ of(i).src # <<"enemy">>
             /\ of(i).el \in {"neutral"} \cup arenaElementsOf(spec.from)
             /\ i > 1 => of(i).src \in dex
       /\ \A i, j \in 1..n : i # j =>
             spec.skills[i] # spec.skills[j] /\ ~(of(i).slot = "passive" /\ of(j).slot = "passive")
       /\ spec.dodge # None =>
             ARENA_SKILL_BY_ID[spec.dodge].slot = "dodge" /\ ARENA_SKILL_BY_ID[spec.dodge].src \in dex
       /\ (n > 0) = hasArenaSkills(StageOf(spec.from.id))
FightersAreLegal == \A i \in DOMAIN made : FighterIsLegal(made[i])

(* Cleaning and checking agree: what a player was allowed to pick is what   *)
(* the pet fights with for as long as it keeps its form.                    *)
AcceptedPicksStay == kept => loadArenaLoadout = slots

StageFights == {<<"stage", s.id>> : s \in AdventureStages}

(* The fights whose foe has skills that exist, none if it is a dummy, and   *)
(* dodges with a dodge, and is the one that the screens show.               *)
WithAFoe ==
    {f \in Fights :
        LET foe == FoeOf(f) IN
        /\ (foe.skills = <<>>) = (f[1] = "dummy")
        /\ \A i \in DOMAIN foe.skills : foe.skills[i] \in SkillIds
        /\ foe.dodge # None => ARENA_SKILL_BY_ID[foe.dodge].slot = "dodge"
        /\ \A s \in AdventureStages : f = <<"stage", s.id>> => foe.element = s.element /\ foe.boss = s.isBoss}

(* Whoever the screens let a pet fight has a fighter in the arena's own     *)
(* tables: a stage of the adventure is found there, with the element and    *)
(* rank shown for it, and every foe but the dummy has skills that exist,    *)
(* and dodges with a dodge.                                                 *)
FoesAreReady ==
    LET open == {f \in Fights : MayFight(pet, f)} IN
    /\ open \subseteq WithAFoe
    /\ StageOf(pet.id) # "egg" => StageFights \subseteq open

=============================================================================
