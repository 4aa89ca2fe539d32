--------------------------- MODULE MonsterEngine ---------------------------
(***************************************************************************)
(* The rules of one monster's life, from                                   *)
(* src/src/modules/monster/core/monster-engine: what one game minute does  *)
(* to it (step, simulation.ts) and what its owner may do (actions.ts).     *)
(* MonsterLife and MonsterKeeping say when these happen.                   *)
(*                                                                         *)
(* Hearts and stamina are counted in whole units small enough that every   *)
(* drain is an integer; the code uses floating point.  Weight, losses and  *)
(* the rolled potential decide nothing here and are left out.              *)
(***************************************************************************)
EXTENDS Integers, Sequences

CONSTANTS
    Species, Stage,       \* the forms, and the stage each belongs to
    Evolutions,           \* of each form, its rules in order
    Egg,                  \* the species every life starts as
    STAGE_DURATION_MINUTES, LIFESPAN_MINUTES, Never,
    FullnessLoss, StrengthLoss,                  \* per stage (STAGE_RATES)
    Drains,               \* what passives and gear may make of fullnessDrain
                          \* (hunger) and of poopEveryMinutes / poopRate (poopEvery)
    Heart, MAX_HEARTS, HATCH_FULLNESS, HATCH_STRENGTH,
    MAX_POOPS, MAX_STAMINA, STAMINA_REGEN, ADVENTURE_STAMINA_COST,
    ADVENTURE_SKIP_MAX_RUNS, MinigameRewards,
    NEGLECT_FIRST_MISTAKE_MINUTES, NEGLECT_REPEAT_MISTAKE_MINUTES,
    SICK_AFTER_HUNGRY_MINUTES, DEATH_AFTER_SICK_MINUTES, DEATH_AFTER_HUNGRY_MINUTES,
    EXPEDITION_MAX_MINUTES,
    Minute,               \* clock instants in a minute
    ONLINE_GRACE, TRAIN_COOLDOWN, MINIGAME_COOLDOWN,   \* in instants
    Ops,                  \* what the owner does in this instance
    MAX_CLOCK             \* the clock stops here

AllOps == {"feed", "vitamin", "train", "clean", "medicine", "battle", "skip",
           "explore", "claim", "meat", "protein", "manual", "minigame", "refill"}

Causes == {"none", "starvation", "sickness", "old_age"}

ASSUME EngineAssumption ==
    /\ Egg \in Species
    /\ Ops \subseteq AllOps
    /\ Minute \in Nat \ {0}
    /\ Heart \in Nat \ {0} /\ MAX_HEARTS \in Nat /\ MAX_POOPS \in Nat /\ MAX_STAMINA \in Nat
    /\ HATCH_FULLNESS \in 0..MAX_HEARTS * Heart /\ HATCH_STRENGTH \in 0..MAX_HEARTS * Heart
    /\ STAMINA_REGEN \in Nat /\ ADVENTURE_STAMINA_COST \in Nat /\ MinigameRewards \subseteq Nat
    /\ ADVENTURE_SKIP_MAX_RUNS \in Nat
    /\ ONLINE_GRACE \in Nat /\ TRAIN_COOLDOWN \in Nat /\ MINIGAME_COOLDOWN \in Nat
    /\ NEGLECT_FIRST_MISTAKE_MINUTES \in Nat \ {0} /\ NEGLECT_REPEAT_MISTAKE_MINUTES \in Nat \ {0}
    /\ SICK_AFTER_HUNGRY_MINUTES \in Nat \ {0}
    /\ DEATH_AFTER_HUNGRY_MINUTES \in Nat \ {0}
    /\ DEATH_AFTER_SICK_MINUTES \in Nat \ {0}
    /\ EXPEDITION_MAX_MINUTES \in Nat \ {0}

ASSUME SpeciesAssumption ==
    /\ Stage[Egg] = "EGG"
    /\ \A sp \in Species :
          /\ STAGE_DURATION_MINUTES[Stage[sp]] \in (Nat \ {0}) \cup {Never}
          /\ LIFESPAN_MINUTES[Stage[sp]] \in Nat \ {0}
          /\ FullnessLoss[Stage[sp]] \in Nat
          /\ StrengthLoss[Stage[sp]] \in Nat
          /\ \A d \in Drains : d.poopEvery[Stage[sp]] \in Nat \ {0}
          /\ \A i \in 1..Len(Evolutions[sp]) :
                /\ Evolutions[sp][i].to \in Species
                /\ Stage[Evolutions[sp][i].to] # "EGG"
                \* no evolution shortens a life (only a merge makes a FUSED)
                /\ LIFESPAN_MINUTES[Stage[Evolutions[sp][i].to]] = LIFESPAN_MINUTES[Stage[sp]]
    /\ Never \notin Nat
    /\ \A d \in Drains : d.hunger \in Nat

VARIABLES
    pet,
    clock,   \* in instants, from the monster's birth
    drain    \* the owner's current fullnessDrain and poopRate

---------------------------------------------------------------------------

IsEgg(s) == Stage[s.form] = "EGG"
IsDead(s) == s.cause # "none"
IsExploring(s) == s.area /\ ~s.returned
IsOnlineAt(s, at) == at <= s.lastSeenAt + ONLINE_GRACE

NewEgg(now) ==
    [form |-> Egg, fullness |-> 0, strength |-> 0, stamina |-> MAX_STAMINA,
     poops |-> 0, sick |-> FALSE, mistakes |-> 0, trained |-> 0, wins |-> 0,
     poopMinutes |-> 0, hungryMinutes |-> 0, weakMinutes |-> 0, sickMinutes |-> 0,
     stageMinutes |-> 0, ageMinutes |-> 0,
     lastTickAt |-> now, lastSeenAt |-> now, lastTrainedAt |-> Never, lastMinigameAt |-> Never,
     area |-> FALSE, explored |-> 0, returned |-> FALSE,
     cause |-> "none", diedAt |-> Never]

IsEvolutionRuleMet(rule, s) ==
    /\ rule.maxCareMistakes = Never \/ s.mistakes <= rule.maxCareMistakes
    /\ s.trained >= rule.minTrainCount
    /\ s.wins >= rule.minWins

(* The positions of the rules a monster meets; pickEvolution takes the     *)
(* first.                                                                  *)
RulesMet(s) ==
    {i \in 1..Len(Evolutions[s.form]) : IsEvolutionRuleMet(Evolutions[s.form][i], s)}

NextForm(s) ==
    Evolutions[s.form][CHOOSE i \in RulesMet(s) : \A j \in RulesMet(s) : i <= j].to

(* evolve() *)
Evolved(s) ==
    LET t == [s EXCEPT !.form = NextForm(s), !.mistakes = 0, !.trained = 0, !.stageMinutes = 0]
    IN IF IsEgg(s) THEN [t EXCEPT !.fullness = HATCH_FULLNESS, !.strength = HATCH_STRENGTH]
                   ELSE t

(* Two bugs this module is checked against: an online minute that jumps    *)
(* over the duration, and an evolution tried again every minute after it.  *)
IsStageTimeExact(s, gain) == s.stageMinutes + gain = STAGE_DURATION_MINUTES[Stage[s.form]]

(* An evolution is decided once, on the minute that crosses the duration.  *)
IsStageTimeUp(s, gain) ==
    LET duration == STAGE_DURATION_MINUTES[Stage[s.form]] IN
    /\ duration # Never
    /\ s.stageMinutes < duration
    /\ s.stageMinutes + gain >= duration

AtLeast0(n) == IF n < 0 THEN 0 ELSE n
AtMost(n, limit) == IF n > limit THEN limit ELSE n

IsNeglectMistakeMinute(n) ==
    /\ n >= NEGLECT_FIRST_MISTAKE_MINUTES
    /\ (n - NEGLECT_FIRST_MISTAKE_MINUTES) % NEGLECT_REPEAT_MISTAKE_MINUTES = 0

Mistake(n) == IF IsNeglectMistakeMinute(n) THEN 1 ELSE 0

(* What one minute makes of a hatched monster s, field by field.           *)

(* EXPEDITION_DRAIN_MULTIPLIER = 1/2 *)
Away(s) == IF IsExploring(s) THEN 1 ELSE 2

Fullness(s, d) == AtLeast0(s.fullness - Away(s) * d.hunger * FullnessLoss[Stage[s.form]])
Strength(s) == AtLeast0(s.strength - Away(s) * StrengthLoss[Stage[s.form]])

(* Nothing piles up at home while it is away. *)
PoopMinutes(s) == s.poopMinutes + IF IsExploring(s) THEN 0 ELSE 1
IsPooping(s, d) == PoopMinutes(s) >= d.poopEvery[Stage[s.form]]
Poops(s, d) ==
    IF IsPooping(s, d) THEN AtMost(s.poops + 1, MAX_POOPS) ELSE s.poops

HungryMinutes(s, d) == IF Fullness(s, d) = 0 THEN s.hungryMinutes + 1 ELSE 0
Starves(s, d) == HungryMinutes(s, d) >= DEATH_AFTER_HUNGRY_MINUTES

(* becomeSick, from dirt or from hunger *)
FallsSick(s, d) ==
    /\ ~s.sick
    /\ \/ s.poops < MAX_POOPS /\ Poops(s, d) = MAX_POOPS
       \/ HungryMinutes(s, d) = SICK_AFTER_HUNGRY_MINUTES
IsSick(s, d) == s.sick \/ FallsSick(s, d)

(* A death ends the minute where it happens: a starved monster gets no     *)
(* weaker and no sicker.                                                   *)
WeakMinutes(s, d) ==
    IF Starves(s, d) THEN s.weakMinutes
    ELSE IF Strength(s) = 0 THEN s.weakMinutes + 1 ELSE 0

SickMinutes(s, d) ==
    (IF FallsSick(s, d) THEN 0 ELSE s.sickMinutes)
      + IF IsSick(s, d) /\ ~Starves(s, d) THEN 1 ELSE 0

Mistakes(s, d) ==
    s.mistakes + Mistake(HungryMinutes(s, d))
      + IF Starves(s, d) THEN 0 ELSE Mistake(WeakMinutes(s, d))

(* A bug: nobody grows old. *)
DeathCauseAgeless(s, d) ==
    IF Starves(s, d) THEN "starvation"
    ELSE IF IsSick(s, d) /\ SickMinutes(s, d) >= DEATH_AFTER_SICK_MINUTES THEN "sickness"
    ELSE "none"

DeathCause(s, d) ==
    IF Starves(s, d) THEN "starvation"
    ELSE IF IsSick(s, d) /\ SickMinutes(s, d) >= DEATH_AFTER_SICK_MINUTES THEN "sickness"
    ELSE IF s.ageMinutes + 1 >= LIFESPAN_MINUTES[Stage[s.form]] THEN "old_age"
    ELSE "none"

(* A bug: an expedition that only minds sickness. *)
IsUnwellWhenSick(s, d) == IsSick(s, d)

(* An expedition's minute only counts while the monster is healthy;        *)
(* otherwise it heads home with what it has.                               *)
IsOut(s, d) == IsExploring(s) /\ DeathCause(s, d) = "none"
IsUnwell(s, d) == IsSick(s, d) \/ Fullness(s, d) = 0
Explored(s, d) == s.explored + IF IsOut(s, d) /\ ~IsUnwell(s, d) THEN 1 ELSE 0
Returns(s, d) ==
    /\ IsOut(s, d)
    /\ IsUnwell(s, d) \/ Explored(s, d) >= EXPEDITION_MAX_MINUTES

Lived(s, online, d, at) ==
    [s EXCEPT
       !.ageMinutes = @ + 1,
       !.stamina = AtMost(@ + (IF online THEN 2 ELSE 1) * STAMINA_REGEN, MAX_STAMINA),
       !.fullness = Fullness(s, d),
       !.strength = Strength(s),
       !.poopMinutes = IF IsPooping(s, d) THEN 0 ELSE PoopMinutes(s),
       !.poops = Poops(s, d),
       !.hungryMinutes = HungryMinutes(s, d),
       !.weakMinutes = WeakMinutes(s, d),
       !.mistakes = Mistakes(s, d),
       !.sick = IsSick(s, d),
       !.sickMinutes = SickMinutes(s, d),
       !.explored = Explored(s, d),
       !.returned = @ \/ Returns(s, d),
       !.cause = DeathCause(s, d),
       !.diedAt = IF DeathCause(s, d) = "none" THEN @ ELSE at]

(* step(): the game minute that ends at `at`. *)
Step(s, at, d) ==
    LET online == IsOnlineAt(s, at)
        gain == IF online THEN 2 ELSE 1           \* ONLINE_EVOLUTION_MULTIPLIER
        t == IF IsEgg(s) THEN s ELSE Lived(s, online, d, at)
    IN IF IsStageTimeUp(s, gain) /\ ~IsDead(t) /\ RulesMet(t) # {}
       THEN Evolved(t)
       ELSE [t EXCEPT !.stageMinutes = @ + gain]

---------------------------------------------------------------------------
(* The owner's actions on a monster s that has been ticked up to now.      *)

IsGrown(s) == ~IsDead(s) /\ ~IsEgg(s)

Fed(s, hearts) ==
    [s EXCEPT !.fullness = AtMost(@ + hearts * Heart, MAX_HEARTS * Heart), !.hungryMinutes = 0]

Strengthened(s, hearts) ==
    [s EXCEPT !.strength = AtMost(@ + hearts * Heart, MAX_HEARTS * Heart), !.weakMinutes = 0]

Feed(s) == "feed" \in Ops /\ IsGrown(s) /\ pet' = Fed(s, 1)

Vitamin(s) == "vitamin" \in Ops /\ IsGrown(s) /\ pet' = Strengthened(s, 1)

IsReady(last, now, cooldown) == last # Never => now - last >= cooldown

Train(s, now) ==
    /\ "train" \in Ops
    /\ IsGrown(s)
    /\ ~s.sick
    /\ IsReady(s.lastTrainedAt, now, TRAIN_COOLDOWN)
    /\ pet' = [Strengthened(s, 1) EXCEPT !.trained = @ + 1, !.lastTrainedAt = now]

Clean(s) == "clean" \in Ops /\ IsGrown(s) /\ pet' = [s EXCEPT !.poops = 0]

(* A bug: the count of sick minutes survives the cure. *)
MedicineForgetsCount(s) ==
    /\ "medicine" \in Ops
    /\ IsGrown(s)
    /\ s.sick
    /\ pet' = [s EXCEPT !.sick = FALSE]

Medicine(s) ==
    /\ "medicine" \in Ops
    /\ IsGrown(s)
    /\ s.sick
    /\ pet' = [s EXCEPT !.sick = FALSE, !.sickMinutes = 0]

(* assertCanAdventure *)
CanAdventure(s, cost) == IsGrown(s) /\ ~s.sick /\ ~s.area /\ s.stamina >= cost

Battle(s) ==
    /\ "battle" \in Ops
    /\ CanAdventure(s, ADVENTURE_STAMINA_COST)
    /\ \E won \in {0, 1} :
          pet' = [s EXCEPT !.stamina = AtLeast0(@ - ADVENTURE_STAMINA_COST), !.wins = @ + won]

Skip(s) ==
    /\ "skip" \in Ops
    /\ \E runs \in 1..ADVENTURE_SKIP_MAX_RUNS :
          /\ CanAdventure(s, ADVENTURE_STAMINA_COST * runs)
          /\ pet' = [s EXCEPT !.stamina = @ - ADVENTURE_STAMINA_COST * runs, !.wins = @ + runs]

Explore(s) ==
    /\ "explore" \in Ops
    /\ IsGrown(s)
    /\ ~s.area
    /\ ~s.sick /\ s.fullness > 0
    /\ pet' = [s EXCEPT !.area = TRUE, !.explored = 0, !.returned = FALSE]

Claim(s) ==
    /\ "claim" \in Ops
    /\ IsGrown(s)
    /\ s.area
    /\ pet' = [s EXCEPT !.area = FALSE, !.explored = 0, !.returned = FALSE]

(* Shop items are eaten or used on purchase. *)
PremiumMeat(s) == "meat" \in Ops /\ IsGrown(s) /\ pet' = Fed(s, 2)
Protein(s) == "protein" \in Ops /\ IsGrown(s) /\ pet' = Strengthened(s, 2)
TrainingManual(s) == "manual" \in Ops /\ IsGrown(s) /\ pet' = [s EXCEPT !.trained = @ + 1]

Minigame(s, now) ==
    /\ "minigame" \in Ops
    /\ IsGrown(s)
    /\ IsReady(s.lastMinigameAt, now, MINIGAME_COOLDOWN)
    /\ \E reward \in MinigameRewards :
          pet' = [s EXCEPT !.stamina = AtMost(@ + reward, MAX_STAMINA), !.lastMinigameAt = now]

RefillStamina(s) ==
    /\ "refill" \in Ops
    /\ IsGrown(s)
    /\ s.stamina < MAX_STAMINA
    /\ pet' = [s EXCEPT !.stamina = MAX_STAMINA]

(* A request that only looks at the monster (or one whose action changes   *)
(* nothing modelled: diet tea, an arena, raid or world boss fight).        *)
Look(s) == pet' = s

Act(s, now) ==
    \/ Look(s)
    \/ Feed(s) \/ Vitamin(s) \/ Train(s, now) \/ Clean(s) \/ Medicine(s)
    \/ Battle(s) \/ Skip(s) \/ Explore(s) \/ Claim(s)
    \/ PremiumMeat(s) \/ Protein(s) \/ TrainingManual(s)
    \/ Minigame(s, now) \/ RefillStamina(s)

---------------------------------------------------------------------------

Pet == [form : Species, fullness : 0..MAX_HEARTS * Heart, strength : 0..MAX_HEARTS * Heart,
        stamina : 0..MAX_STAMINA, poops : 0..MAX_POOPS, sick : BOOLEAN,
        mistakes : Nat, trained : Nat, wins : Nat,
        poopMinutes : Nat, hungryMinutes : 0..DEATH_AFTER_HUNGRY_MINUTES,
        weakMinutes : Nat, sickMinutes : 0..DEATH_AFTER_SICK_MINUTES,
        stageMinutes : Nat, ageMinutes : Nat,
        lastTickAt : Nat, lastSeenAt : Nat,
        lastTrainedAt : Nat \cup {Never}, lastMinigameAt : Nat \cup {Never},
        area : BOOLEAN, explored : 0..EXPEDITION_MAX_MINUTES, returned : BOOLEAN,
        cause : Causes, diedAt : Nat \cup {Never}]

(* A monster that is out collecting is well: it never goes on collecting   *)
(* while sick, hungry or beyond its time (simulation.ts:246-256), whatever *)
(* its owner does to it meanwhile.                                         *)
ExplorerIsWell(s) ==
    ~IsDead(s) /\ IsExploring(s) =>
        ~s.sick /\ s.fullness > 0 /\ s.explored < EXPEDITION_MAX_MINUTES

ExplorersAreWell == ExplorerIsWell(pet)

(* A death is what its cause says, at the minute its limit was reached,    *)
(* and nothing outlives a limit (simulation.ts:215-244).                   *)
DeathIsExplained(s) ==
    /\ s.cause = "starvation" <=> s.hungryMinutes = DEATH_AFTER_HUNGRY_MINUTES
    /\ s.cause = "sickness" <=> s.sickMinutes = DEATH_AFTER_SICK_MINUTES
    /\ ~s.sick => s.sickMinutes = 0
    /\ s.cause = "old_age" => s.ageMinutes = LIFESPAN_MINUTES[Stage[s.form]]
    /\ s.cause = "none" => s.ageMinutes < LIFESPAN_MINUTES[Stage[s.form]]

DeathsAreExplained == DeathIsExplained(pet)
=============================================================================
