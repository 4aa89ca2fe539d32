----------------------- MODULE MonsterKeeping_proofs -----------------------
(* Proofs about the life of a monster, in real time (MonsterLife) and as    *)
(* requests replay it on demand (MonsterKeeping), for every set of species, *)
(* every table of rates and every threshold: a life keeps its bounds, and   *)
(* replaying loses and repeats no minute of it, whatever the age of a       *)
(* request's `now`.                                                        *)
EXTENDS MonsterTime, NatFacts, TLAPS

---------------------------------------------------------------------------
(*                          A life in real time                             *)

(* An egg is at home. *)
EggIsHome(s) == IsEgg(s) => ~s.area

(* What every monster a minute or a request leaves behind satisfies. *)
IsSound(s) ==
    /\ s \in Pet
    /\ ExplorerIsWell(s)
    /\ DeathIsExplained(s)
    /\ EggIsHome(s)

IInv == IsSound(pet) /\ clock \in Nat /\ drain \in Drains

---------------------------------------------------------------------------

LEMMA AtMostType ==
    ASSUME NEW n \in Nat, NEW limit \in Nat
    PROVE  AtMost(n, limit) \in 0..limit
  BY DEF AtMost

LEMMA AtLeast0Type ==
    ASSUME NEW n \in Nat, NEW loss \in Nat
    PROVE  AtLeast0(n - loss) \in 0..n
  BY DEF AtLeast0

LEMMA ProductIsNat ==
    ASSUME NEW a \in Nat, NEW b \in Nat
    PROVE  a * b \in Nat
  OBVIOUS

LEMMA MistakeType ==
    ASSUME NEW n
    PROVE  Mistake(n) \in Nat
  BY DEF Mistake

(* The hearts, poops and counters of a minute stay within their bounds.    *)
LEMMA LivedTypes ==
    ASSUME NEW s \in Pet, NEW d \in Drains
    PROVE  /\ Fullness(s, d) \in 0..MAX_HEARTS * Heart
           /\ Strength(s) \in 0..MAX_HEARTS * Heart
           /\ PoopMinutes(s) \in Nat
           /\ Poops(s, d) \in 0..MAX_POOPS
           /\ HungryMinutes(s, d) \in Nat
           /\ HungryMinutes(s, d) <= s.hungryMinutes + 1
           /\ WeakMinutes(s, d) \in Nat
           /\ SickMinutes(s, d) \in Nat
           /\ SickMinutes(s, d) <= s.sickMinutes + 1
           /\ Mistakes(s, d) \in Nat
           /\ IsSick(s, d) \in BOOLEAN
           /\ DeathCause(s, d) \in Causes
           /\ Explored(s, d) \in Nat
           /\ Explored(s, d) <= s.explored + 1
  <1>1. /\ d.hunger \in Nat
        /\ FullnessLoss[Stage[s.form]] \in Nat
        /\ StrengthLoss[Stage[s.form]] \in Nat
    BY SpeciesAssumption DEF Pet
  <1>2. /\ Away(s) \in Nat
        /\ s.fullness \in Nat /\ s.strength \in Nat
        /\ s.fullness <= MAX_HEARTS * Heart /\ s.strength <= MAX_HEARTS * Heart
        /\ MAX_HEARTS * Heart \in Nat
    <2>1. MAX_HEARTS * Heart \in Nat
      BY EngineAssumption, ProductIsNat
    <2>2. s.fullness \in 0..MAX_HEARTS * Heart /\ s.strength \in 0..MAX_HEARTS * Heart
      BY DEF Pet
    <2> QED BY <2>1, <2>2 DEF Away
  <1>3. Fullness(s, d) \in 0..s.fullness /\ Strength(s) \in 0..s.strength
    <2>1. Away(s) * d.hunger \in Nat
      BY <1>1, <1>2, ProductIsNat
    <2>2. /\ Away(s) * d.hunger * FullnessLoss[Stage[s.form]] \in Nat
          /\ Away(s) * StrengthLoss[Stage[s.form]] \in Nat
      BY <1>1, <1>2, <2>1, ProductIsNat
    <2> QED BY <1>2, <2>2, AtLeast0Type DEF Fullness, Strength
  <1>4. PoopMinutes(s) \in Nat
    BY DEF PoopMinutes, Pet
  <1>5. Poops(s, d) \in 0..MAX_POOPS
    <2>1. s.poops \in 0..MAX_POOPS /\ MAX_POOPS \in Nat
      BY EngineAssumption DEF Pet
    <2>2. AtMost(s.poops + 1, MAX_POOPS) \in 0..MAX_POOPS
      <3>1. s.poops + 1 \in Nat BY <2>1
      <3> QED BY <2>1, <3>1, AtMostType
    <2> QED BY <2>1, <2>2 DEF Poops
  <1>6. HungryMinutes(s, d) \in Nat /\ HungryMinutes(s, d) <= s.hungryMinutes + 1
    BY EngineAssumption DEF HungryMinutes, Pet
  <1>7. WeakMinutes(s, d) \in Nat
    BY DEF WeakMinutes, Pet
  <1>8. SickMinutes(s, d) \in Nat /\ SickMinutes(s, d) <= s.sickMinutes + 1
    BY EngineAssumption DEF SickMinutes, Pet
  <1>9. Mistakes(s, d) \in Nat
    <2>1. s.mistakes \in Nat BY DEF Pet
    <2>2. Mistake(HungryMinutes(s, d)) \in Nat /\ Mistake(WeakMinutes(s, d)) \in Nat
      BY MistakeType
    <2> QED BY <2>1, <2>2 DEF Mistakes
  <1>10. IsSick(s, d) \in BOOLEAN
    BY DEF IsSick, FallsSick, Pet
  <1>11. DeathCause(s, d) \in Causes
    BY DEF DeathCause, Causes
  <1>12. Explored(s, d) \in Nat /\ Explored(s, d) <= s.explored + 1
    BY EngineAssumption DEF Explored, Pet
  <1>13. Fullness(s, d) \in 0..MAX_HEARTS * Heart /\ Strength(s) \in 0..MAX_HEARTS * Heart
    BY <1>2, <1>3
  <1> QED BY <1>4, <1>5, <1>6, <1>7, <1>8, <1>9, <1>10, <1>11, <1>12, <1>13

(* One minute of a living monster: the fields that decide how it is doing. *)
LEMMA LivedFields ==
    ASSUME NEW s \in Pet, NEW d \in Drains, NEW online \in BOOLEAN, NEW at \in Nat,
           s.cause = "none", DeathIsExplained(s), ExplorerIsWell(s), ~IsEgg(s)
    PROVE  LET t == Lived(s, online, d, at) IN
           /\ t \in Pet
           /\ t.form = s.form /\ t.stageMinutes = s.stageMinutes
           /\ ExplorerIsWell(t)
           /\ DeathIsExplained(t)
  <1> DEFINE t == Lived(s, online, d, at)
             fullness == Fullness(s, d)
             hungry == HungryMinutes(s, d)
             ill == SickMinutes(s, d)
             cause == DeathCause(s, d)
             explored == Explored(s, d)
             stamina == AtMost(s.stamina + (IF online THEN 2 ELSE 1) * STAMINA_REGEN, MAX_STAMINA)
  <1>1. /\ t.form = s.form /\ t.stageMinutes = s.stageMinutes
        /\ t.ageMinutes = s.ageMinutes + 1
        /\ t.fullness = fullness /\ t.sick = IsSick(s, d)
        /\ t.hungryMinutes = hungry /\ t.sickMinutes = ill
        /\ t.area = s.area /\ t.explored = explored
        /\ t.returned = (s.returned \/ Returns(s, d))
        /\ t.cause = cause
    BY DEF Lived, Pet
  <1>2. /\ s.hungryMinutes < DEATH_AFTER_HUNGRY_MINUTES
        /\ s.sickMinutes < DEATH_AFTER_SICK_MINUTES
        /\ s.ageMinutes < LIFESPAN_MINUTES[Stage[s.form]]
        /\ s.ageMinutes \in Nat
        /\ LIFESPAN_MINUTES[Stage[s.form]] \in Nat
        /\ DEATH_AFTER_HUNGRY_MINUTES \in Nat \ {0} /\ DEATH_AFTER_SICK_MINUTES \in Nat \ {0}
        /\ EXPEDITION_MAX_MINUTES \in Nat \ {0}
        /\ s.hungryMinutes \in Nat /\ s.sickMinutes \in Nat
    <2>1. /\ DEATH_AFTER_HUNGRY_MINUTES \in Nat \ {0} /\ DEATH_AFTER_SICK_MINUTES \in Nat \ {0}
          /\ EXPEDITION_MAX_MINUTES \in Nat \ {0}
      BY EngineAssumption
    <2>2. /\ s.hungryMinutes \in 0..DEATH_AFTER_HUNGRY_MINUTES
          /\ s.sickMinutes \in 0..DEATH_AFTER_SICK_MINUTES
          /\ s.ageMinutes \in Nat /\ s.form \in Species
      BY DEF Pet
    <2>3. LIFESPAN_MINUTES[Stage[s.form]] \in Nat
      BY <2>2, SpeciesAssumption
    <2>4. /\ s.hungryMinutes # DEATH_AFTER_HUNGRY_MINUTES
          /\ s.sickMinutes # DEATH_AFTER_SICK_MINUTES
          /\ s.ageMinutes < LIFESPAN_MINUTES[Stage[s.form]]
      BY DEF DeathIsExplained
    <2> QED BY <2>1, <2>2, <2>3, <2>4
  <1>3. /\ hungry \in Nat /\ hungry <= s.hungryMinutes + 1
        /\ ill \in Nat /\ ill <= s.sickMinutes + 1
        /\ explored \in Nat /\ explored <= s.explored + 1
        /\ cause \in Causes /\ IsSick(s, d) \in BOOLEAN
    BY LivedTypes
  <1>4. ExplorerIsWell(t)
    <2> HIDE DEF t, fullness, explored
    <2> SUFFICES ASSUME t.cause = "none", IsExploring(t)
                 PROVE  ~t.sick /\ t.fullness > 0 /\ t.explored < EXPEDITION_MAX_MINUTES
      BY DEF ExplorerIsWell, IsDead
    <2>1. IsExploring(s) /\ ~Returns(s, d) /\ IsOut(s, d)
      BY <1>1 DEF IsExploring, IsOut
    <2>2. ~IsUnwell(s, d) /\ ~(explored >= EXPEDITION_MAX_MINUTES)
      BY <2>1 DEF Returns, explored
    <2>3. fullness \in Nat
      BY LivedTypes, EngineAssumption, ProductIsNat DEF fullness
    <2> QED BY <1>1, <1>2, <1>3, <2>2, <2>3 DEF IsUnwell, fullness
  <1>5. DeathIsExplained(t)
    <2> HIDE DEF t
    <2> USE <1>2, <1>3
    <2>1. cause = "starvation" <=> hungry = DEATH_AFTER_HUNGRY_MINUTES
      <3>1. Starves(s, d) <=> hungry = DEATH_AFTER_HUNGRY_MINUTES
        BY DEF Starves
      <3> QED BY <3>1 DEF DeathCause
    <2>2. cause = "sickness" <=> ill = DEATH_AFTER_SICK_MINUTES
      <3>1. Starves(s, d) => ill < DEATH_AFTER_SICK_MINUTES
        BY DEF SickMinutes
      <3>2. ~IsSick(s, d) => ill < DEATH_AFTER_SICK_MINUTES
        BY DEF SickMinutes
      <3>3. ill >= DEATH_AFTER_SICK_MINUTES <=> ill = DEATH_AFTER_SICK_MINUTES
        OBVIOUS
      <3> HIDE DEF ill
      <3> QED BY <3>1, <3>2, <3>3 DEF DeathCause, ill
    <2>3. ~IsSick(s, d) => ill = 0
      BY DEF SickMinutes, IsSick, DeathIsExplained
    <2>4. /\ cause = "old_age" => s.ageMinutes + 1 = LIFESPAN_MINUTES[Stage[s.form]]
          /\ cause = "none" => s.ageMinutes + 1 < LIFESPAN_MINUTES[Stage[s.form]]
      BY DEF DeathCause
    <2> QED BY <1>1, <2>1, <2>2, <2>3, <2>4 DEF DeathIsExplained
  <1>6. explored \in 0..EXPEDITION_MAX_MINUTES
    <2>1. s.explored \in 0..EXPEDITION_MAX_MINUTES
      BY DEF Pet
    <2>2. CASE IsExploring(s)
      <3>1. s.explored < EXPEDITION_MAX_MINUTES
        BY <2>2 DEF ExplorerIsWell, IsDead
      <3> QED BY <1>2, <1>3, <2>1, <3>1
    <2>3. CASE ~IsExploring(s)
      <3>1. explored = s.explored
        BY <2>1, <2>3 DEF Explored, IsOut
      <3> QED BY <2>1, <3>1
    <2> QED BY <2>2, <2>3
  <1>7. t \in Pet
    <2>1. stamina \in 0..MAX_STAMINA
      <3>1. MAX_STAMINA \in Nat /\ STAMINA_REGEN \in Nat /\ s.stamina \in Nat
        BY EngineAssumption DEF Pet
      <3>2. s.stamina + (IF online THEN 2 ELSE 1) * STAMINA_REGEN \in Nat
        BY <3>1
      <3> QED BY <3>1, <3>2, AtMostType
    <2>2. hungry \in 0..DEATH_AFTER_HUNGRY_MINUTES /\ ill \in 0..DEATH_AFTER_SICK_MINUTES
      BY <1>2, <1>3
    <2>3. (s.returned \/ Returns(s, d)) \in BOOLEAN
      BY DEF Pet, Returns
    <2> DEFINE returned == s.returned \/ Returns(s, d)
               poopMinutes == IF IsPooping(s, d) THEN 0 ELSE PoopMinutes(s)
               diedAt == IF DeathCause(s, d) = "none" THEN s.diedAt ELSE at
    <2>4. poopMinutes \in Nat /\ diedAt \in Nat \cup {Never}
      BY LivedTypes DEF Pet
    <2>5. /\ fullness \in 0..MAX_HEARTS * Heart
          /\ Strength(s) \in 0..MAX_HEARTS * Heart
          /\ Poops(s, d) \in 0..MAX_POOPS
          /\ WeakMinutes(s, d) \in Nat
          /\ Mistakes(s, d) \in Nat
          /\ s.ageMinutes + 1 \in Nat
      BY <1>2, LivedTypes
    <2>6. t = [s EXCEPT
       !.ageMinutes = s.ageMinutes + 1, !.stamina = stamina, !.fullness = fullness,
       !.strength = Strength(s), !.poopMinutes = poopMinutes, !.poops = Poops(s, d),
       !.hungryMinutes = hungry, !.weakMinutes = WeakMinutes(s, d),
       !.mistakes = Mistakes(s, d), !.sick = IsSick(s, d), !.sickMinutes = ill,
       !.explored = explored, !.returned = returned, !.cause = cause, !.diedAt = diedAt]
      BY DEF Lived
    <2> HIDE DEF t, stamina, fullness, hungry, ill, explored, cause, returned, poopMinutes, diedAt
    <2>7. returned \in BOOLEAN
      BY <2>3 DEF returned
    <2>8. t = [form |-> s.form, fullness |-> fullness, strength |-> Strength(s),
               stamina |-> stamina, poops |-> Poops(s, d), sick |-> IsSick(s, d),
               mistakes |-> Mistakes(s, d), trained |-> s.trained, wins |-> s.wins,
               poopMinutes |-> poopMinutes, hungryMinutes |-> hungry,
               weakMinutes |-> WeakMinutes(s, d), sickMinutes |-> ill,
               stageMinutes |-> s.stageMinutes, ageMinutes |-> s.ageMinutes + 1,
               lastTickAt |-> s.lastTickAt, lastSeenAt |-> s.lastSeenAt,
               lastTrainedAt |-> s.lastTrainedAt, lastMinigameAt |-> s.lastMinigameAt,
               area |-> s.area, explored |-> explored, returned |-> returned,
               cause |-> cause, diedAt |-> diedAt]
      BY <2>6 DEF Pet
    <2>9. /\ s.form \in Species /\ s.trained \in Nat /\ s.wins \in Nat
          /\ s.stageMinutes \in Nat /\ s.lastTickAt \in Nat /\ s.lastSeenAt \in Nat
          /\ s.lastTrainedAt \in Nat \cup {Never} /\ s.lastMinigameAt \in Nat \cup {Never}
          /\ s.area \in BOOLEAN
      BY DEF Pet
    <2> QED BY <1>3, <1>6, <2>1, <2>2, <2>4, <2>5, <2>7, <2>8, <2>9 DEF Pet
  <1> QED BY <1>1, <1>4, <1>5, <1>7

---------------------------------------------------------------------------

(* pickEvolution returns a form that is no egg and lives as long.          *)
LEMMA NextFormType ==
    ASSUME NEW s \in Pet, RulesMet(s) # {}
    PROVE  /\ NextForm(s) \in Species
           /\ Stage[NextForm(s)] # "EGG"
           /\ LIFESPAN_MINUTES[Stage[NextForm(s)]] = LIFESPAN_MINUTES[Stage[s.form]]
  <1> DEFINE first == CHOOSE i \in RulesMet(s) : \A j \in RulesMet(s) : i <= j
  <1>1. RulesMet(s) \subseteq 1..Len(Evolutions[s.form])
    BY DEF RulesMet
  <1>2. \E i \in RulesMet(s) : \A j \in RulesMet(s) : i <= j
    <2>1. RulesMet(s) \subseteq Nat
      BY <1>1
    <2> QED BY <2>1, NatHasLeast
  <1>3. first \in RulesMet(s)
    BY <1>2
  <1>4. first \in 1..Len(Evolutions[s.form]) /\ s.form \in Species
    BY <1>1, <1>3 DEF Pet
  <1> HIDE DEF first
  <1>5. NextForm(s) = Evolutions[s.form][first].to
    BY DEF NextForm, first
  <1> QED BY <1>4, <1>5, SpeciesAssumption

(* An evolution keeps a living monster sound. *)
LEMMA EvolvedIsSound ==
    ASSUME NEW s \in Pet, s.cause = "none", RulesMet(s) # {},
           ExplorerIsWell(s), DeathIsExplained(s), EggIsHome(s)
    PROVE  IsSound(Evolved(s))
  <1> DEFINE t == [s EXCEPT !.form = NextForm(s), !.mistakes = 0, !.trained = 0,
                            !.stageMinutes = 0]
             u == [t EXCEPT !.fullness = HATCH_FULLNESS, !.strength = HATCH_STRENGTH]
  <1>1. /\ NextForm(s) \in Species
        /\ Stage[NextForm(s)] # "EGG"
        /\ LIFESPAN_MINUTES[Stage[NextForm(s)]] = LIFESPAN_MINUTES[Stage[s.form]]
    BY NextFormType
  <1>2. t \in Pet
    BY <1>1 DEF Pet
  <1>3. u \in Pet
    BY <1>2, EngineAssumption DEF Pet
  <1>4. /\ t.cause = s.cause /\ t.area = s.area /\ t.returned = s.returned /\ t.sick = s.sick
        /\ t.fullness = s.fullness /\ t.explored = s.explored /\ t.form = NextForm(s)
        /\ t.hungryMinutes = s.hungryMinutes /\ t.sickMinutes = s.sickMinutes
        /\ t.ageMinutes = s.ageMinutes
    BY DEF Pet
  <1>5. /\ u.cause = s.cause /\ u.area = s.area /\ u.sick = s.sick /\ u.form = NextForm(s)
        /\ u.hungryMinutes = s.hungryMinutes /\ u.sickMinutes = s.sickMinutes
        /\ u.ageMinutes = s.ageMinutes
    BY DEF Pet
  <1>6. Evolved(s) = IF IsEgg(s) THEN u ELSE t
    BY DEF Evolved
  <1> HIDE DEF t, u
  <1>7. IsSound(t)
    BY <1>1, <1>2, <1>4
       DEF IsSound, ExplorerIsWell, DeathIsExplained, EggIsHome, IsEgg, IsDead, IsExploring
  <1>8. CASE IsEgg(s)
    <2>1. ~s.area
      BY <1>8 DEF EggIsHome
    <2> QED BY <1>1, <1>3, <1>5, <1>6, <1>8, <2>1
         DEF IsSound, ExplorerIsWell, DeathIsExplained, EggIsHome, IsEgg, IsDead, IsExploring
  <1> QED BY <1>6, <1>7, <1>8

(* Changing only when it was last ticked, seen, trained or played with, or *)
(* its progress, says nothing about how it is; nor does feeding it.        *)
LEMMA SameHealth ==
    ASSUME NEW s \in Pet, NEW t \in Pet,
           ExplorerIsWell(s), DeathIsExplained(s), EggIsHome(s),
           t.form = s.form, t.cause = s.cause, t.area = s.area, t.returned = s.returned,
           t.explored = s.explored, t.sick = s.sick, t.fullness >= s.fullness,
           t.hungryMinutes = s.hungryMinutes, t.sickMinutes = s.sickMinutes,
           t.ageMinutes = s.ageMinutes
    PROVE  IsSound(t)
  <1>1. s.fullness \in Nat /\ t.fullness \in Nat
    BY EngineAssumption, ProductIsNat DEF Pet
  <1> QED BY <1>1
       DEF IsSound, ExplorerIsWell, DeathIsExplained, EggIsHome, IsEgg, IsDead, IsExploring

(* A minute keeps a living monster sound, and only a minute that brings    *)
(* its stage to an end changes its form.                                   *)
LEMMA StepIsSound ==
    ASSUME NEW s, IsSound(s), s.cause = "none", NEW d \in Drains, NEW at \in Nat
    PROVE  /\ IsSound(Step(s, at, d))
           /\ LET duration == STAGE_DURATION_MINUTES[Stage[s.form]]
              IN  duration # Never /\ s.stageMinutes >= duration => Step(s, at, d).form = s.form
  <1> DEFINE online == IsOnlineAt(s, at)
             gain == IF online THEN 2 ELSE 1
             t == IF IsEgg(s) THEN s ELSE Lived(s, online, d, at)
             u == [t EXCEPT !.stageMinutes = @ + gain]
  <1>1. s \in Pet /\ ExplorerIsWell(s) /\ DeathIsExplained(s) /\ EggIsHome(s)
    BY DEF IsSound
  <1>2. online \in BOOLEAN /\ gain \in Nat
    BY DEF IsOnlineAt
  <1>3. /\ t \in Pet /\ t.form = s.form
        /\ ExplorerIsWell(t) /\ DeathIsExplained(t) /\ EggIsHome(t)
    <2>1. CASE IsEgg(s)
      BY <1>1, <2>1
    <2>2. CASE ~IsEgg(s)
      <3> HIDE DEF online
      <3>1. t = Lived(s, online, d, at)
        BY <2>2
      <3>2. /\ t \in Pet /\ t.form = s.form /\ ExplorerIsWell(t) /\ DeathIsExplained(t)
        BY <1>1, <1>2, <2>2, <3>1, LivedFields
      <3> QED BY <2>2, <3>2 DEF EggIsHome, IsEgg
    <2> QED BY <2>1, <2>2
  <1>4. Step(s, at, d) =
          IF IsStageTimeUp(s, gain) /\ ~IsDead(t) /\ RulesMet(t) # {} THEN Evolved(t) ELSE u
    BY DEF Step
  <1> HIDE DEF online, gain, t
  <1>5. /\ u \in Pet /\ u.form = t.form /\ u.cause = t.cause /\ u.area = t.area
        /\ u.returned = t.returned /\ u.explored = t.explored /\ u.sick = t.sick
        /\ u.fullness = t.fullness /\ u.hungryMinutes = t.hungryMinutes
        /\ u.sickMinutes = t.sickMinutes /\ u.ageMinutes = t.ageMinutes
    BY <1>2, <1>3 DEF Pet
  <1> HIDE DEF u
  <1>6. IsSound(u)
    <2>1. u.fullness >= t.fullness
      BY <1>3, <1>5, EngineAssumption, ProductIsNat DEF Pet
    <2> QED BY <1>3, <1>5, <2>1, SameHealth
  <1>7. CASE IsStageTimeUp(s, gain) /\ ~IsDead(t) /\ RulesMet(t) # {}
    <2>1. IsSound(Evolved(t))
      BY <1>3, <1>7, EvolvedIsSound DEF IsDead
    <2>2. \/ ~(s.stageMinutes >= STAGE_DURATION_MINUTES[Stage[s.form]])
          \/ STAGE_DURATION_MINUTES[Stage[s.form]] = Never
      <3>1. s.stageMinutes \in Nat /\ s.form \in Species
        BY <1>1 DEF Pet
      <3> QED BY <1>7, <3>1, SpeciesAssumption DEF IsStageTimeUp
    <2> QED BY <1>4, <1>7, <2>1, <2>2
  <1>8. CASE ~(IsStageTimeUp(s, gain) /\ ~IsDead(t) /\ RulesMet(t) # {})
    BY <1>3, <1>4, <1>5, <1>6, <1>8
  <1> QED BY <1>7, <1>8

---------------------------------------------------------------------------

(* What the owner does to a living monster short of sending it out: it may *)
(* get better, and stays what it is.                                       *)
Better(s, t) ==
    /\ t \in Pet
    /\ t.form = s.form /\ t.cause = "none" /\ t.ageMinutes = s.ageMinutes
    /\ t.area = s.area /\ t.returned = s.returned /\ t.explored = s.explored
    /\ t.sick => s.sick
    /\ ~t.sick => t.sickMinutes = 0
    /\ t.fullness >= s.fullness
    /\ t.hungryMinutes \in {0, s.hungryMinutes}
    /\ t.sickMinutes \in {0, s.sickMinutes}

LEMMA BetterIsSound ==
    ASSUME NEW s, IsSound(s), s.cause = "none", NEW t, Better(s, t)
    PROVE  IsSound(t)
  <1>1. /\ s.fullness \in Nat /\ t.fullness \in Nat
        /\ DEATH_AFTER_HUNGRY_MINUTES \in Nat \ {0} /\ DEATH_AFTER_SICK_MINUTES \in Nat \ {0}
    BY EngineAssumption, ProductIsNat DEF Pet, IsSound, Better
  <1> QED BY <1>1
       DEF IsSound, Better, ExplorerIsWell, DeathIsExplained, EggIsHome, IsEgg, IsDead, IsExploring

LEMMA FedIsBetter ==
    ASSUME NEW s, IsSound(s), s.cause = "none", NEW hearts \in Nat
    PROVE  Better(s, Fed(s, hearts))
  <1> DEFINE full == AtMost(s.fullness + hearts * Heart, MAX_HEARTS * Heart)
  <1>1. /\ MAX_HEARTS * Heart \in Nat /\ hearts * Heart \in Nat
        /\ s.fullness \in 0..MAX_HEARTS * Heart /\ s \in Pet
        /\ 0 \in 0..DEATH_AFTER_HUNGRY_MINUTES
    BY EngineAssumption, ProductIsNat DEF IsSound, Pet
  <1>2. full \in 0..MAX_HEARTS * Heart /\ full >= s.fullness
    BY <1>1 DEF AtMost
  <1>3. Fed(s, hearts) = [s EXCEPT !.fullness = full, !.hungryMinutes = 0]
    BY DEF Fed
  <1> HIDE DEF full
  <1>4. Fed(s, hearts) \in Pet
    BY <1>1, <1>2, <1>3, ZenonT(60) DEF Pet
  <1>5. /\ Fed(s, hearts).form = s.form /\ Fed(s, hearts).cause = s.cause
        /\ Fed(s, hearts).ageMinutes = s.ageMinutes /\ Fed(s, hearts).area = s.area
        /\ Fed(s, hearts).returned = s.returned /\ Fed(s, hearts).explored = s.explored
        /\ Fed(s, hearts).sick = s.sick /\ Fed(s, hearts).fullness = full
        /\ Fed(s, hearts).hungryMinutes = 0 /\ Fed(s, hearts).sickMinutes = s.sickMinutes
    BY <1>1, <1>3 DEF Pet
  <1> QED BY <1>2, <1>4, <1>5 DEF Better, IsSound, DeathIsExplained

LEMMA StrengthenedIsBetter ==
    ASSUME NEW s, IsSound(s), s.cause = "none", NEW hearts \in Nat
    PROVE  Better(s, Strengthened(s, hearts))
  <1> DEFINE strong == AtMost(s.strength + hearts * Heart, MAX_HEARTS * Heart)
  <1>1. /\ MAX_HEARTS * Heart \in Nat /\ hearts * Heart \in Nat
        /\ s.strength \in 0..MAX_HEARTS * Heart /\ s.fullness \in 0..MAX_HEARTS * Heart
        /\ s \in Pet /\ 0 \in Nat
    BY EngineAssumption, ProductIsNat DEF IsSound, Pet
  <1>2. strong \in 0..MAX_HEARTS * Heart
    BY <1>1 DEF AtMost
  <1>3. Strengthened(s, hearts) = [s EXCEPT !.strength = strong, !.weakMinutes = 0]
    BY DEF Strengthened
  <1> HIDE DEF strong
  <1>4. Strengthened(s, hearts) \in Pet
    BY <1>1, <1>2, <1>3, ZenonT(60) DEF Pet
  <1>5. s.fullness >= s.fullness
    BY <1>1
  <1> QED BY <1>1, <1>3, <1>4, <1>5 DEF Better, IsSound, DeathIsExplained, Pet

(* Counting something more, spending or gaining stamina, and cleaning make *)
(* no difference to anybody's health.                                      *)
LEMMA CountedIsBetter ==
    ASSUME NEW s, NEW b, Better(s, b),
           NEW stamina \in 0..MAX_STAMINA, NEW wins \in Nat, NEW trained \in Nat,
           NEW poops \in 0..MAX_POOPS, NEW at \in Nat \cup {Never}, NEW played \in Nat \cup {Never}
    PROVE  Better(s, [b EXCEPT !.stamina = stamina, !.wins = wins, !.trained = trained,
                               !.poops = poops, !.lastTrainedAt = at, !.lastMinigameAt = played])
  <1> DEFINE t == [b EXCEPT !.stamina = stamina, !.wins = wins, !.trained = trained,
                            !.poops = poops, !.lastTrainedAt = at, !.lastMinigameAt = played]
  <1>1. b \in Pet
    BY DEF Better
  <1>2. t \in Pet
    BY <1>1 DEF Pet
  <1>3. /\ t.form = b.form /\ t.cause = b.cause /\ t.ageMinutes = b.ageMinutes
        /\ t.area = b.area /\ t.returned = b.returned /\ t.explored = b.explored
        /\ t.sick = b.sick /\ t.fullness = b.fullness
        /\ t.hungryMinutes = b.hungryMinutes /\ t.sickMinutes = b.sickMinutes
    BY <1>1 DEF Pet
  <1> HIDE DEF t
  <1>4. Better(s, t)
    BY <1>2, <1>3 DEF Better
  <1> QED BY <1>4 DEF t

LEMMA SameIsBetter ==
    ASSUME NEW s, IsSound(s), s.cause = "none"
    PROVE  Better(s, s)
  <1>1. s \in Pet /\ s.fullness >= s.fullness
    BY EngineAssumption, ProductIsNat DEF IsSound, Pet
  <1> QED BY <1>1 DEF Better, IsSound, DeathIsExplained, Pet

(* Whatever the owner may do keeps the monster sound and its form.         *)
LEMMA ActIsSound ==
    ASSUME NEW s, IsSound(s), s.cause = "none", NEW now \in Nat, Act(s, now)
    PROVE  IsSound(pet') /\ pet'.form = s.form
  <1>1. /\ s \in Pet /\ s.stamina \in 0..MAX_STAMINA /\ s.wins \in Nat /\ s.trained \in Nat
        /\ s.poops \in 0..MAX_POOPS /\ s.lastTrainedAt \in Nat \cup {Never}
        /\ s.lastMinigameAt \in Nat \cup {Never}
    BY DEF IsSound, Pet
  <1>2. /\ MAX_STAMINA \in Nat /\ MAX_POOPS \in Nat /\ ADVENTURE_STAMINA_COST \in Nat
        /\ ADVENTURE_SKIP_MAX_RUNS \in Nat /\ MinigameRewards \subseteq Nat
        /\ 0 \in 0..EXPEDITION_MAX_MINUTES /\ 0 < EXPEDITION_MAX_MINUTES
    BY EngineAssumption
  <1>3. Better(s, s)
    BY SameIsBetter
  <1> SUFFICES \/ Better(s, pet')
               \/ IsSound(pet') /\ pet'.form = s.form
    BY BetterIsSound DEF Better
  <1>4. CASE Look(s)
    BY <1>3, <1>4 DEF Look
  <1>5. CASE Feed(s) \/ PremiumMeat(s)
    BY <1>5, FedIsBetter DEF Feed, PremiumMeat
  <1>6. CASE Vitamin(s) \/ Protein(s)
    BY <1>6, StrengthenedIsBetter DEF Vitamin, Protein
  <1>7. CASE Train(s, now)
    <2> DEFINE b == Strengthened(s, 1)
    <2>1. Better(s, b) /\ b \in Pet
      BY StrengthenedIsBetter DEF Better
    <2>2. pet' = [b EXCEPT !.trained = @ + 1, !.lastTrainedAt = now]
      BY <1>7 DEF Train
    <2> HIDE DEF b
    <2>3. pet' = [b EXCEPT !.stamina = b.stamina, !.wins = b.wins, !.trained = b.trained + 1,
                           !.poops = b.poops, !.lastTrainedAt = now,
                           !.lastMinigameAt = b.lastMinigameAt]
      BY <2>1, <2>2 DEF Pet
    <2>4. /\ b.stamina \in 0..MAX_STAMINA /\ b.wins \in Nat /\ b.trained + 1 \in Nat
          /\ b.poops \in 0..MAX_POOPS /\ b.lastMinigameAt \in Nat \cup {Never}
      BY <2>1 DEF Pet
    <2> QED BY <2>1, <2>3, <2>4, CountedIsBetter
  <1>8. CASE Clean(s)
    <2>1. pet' = [s EXCEPT !.stamina = s.stamina, !.wins = s.wins, !.trained = s.trained,
                           !.poops = 0, !.lastTrainedAt = s.lastTrainedAt,
                           !.lastMinigameAt = s.lastMinigameAt]
      BY <1>1, <1>8 DEF Clean, Pet
    <2>2. 0 \in 0..MAX_POOPS
      BY <1>2
    <2> QED BY <1>1, <1>3, <2>1, <2>2, CountedIsBetter, ZenonT(60)
  <1>9. CASE Medicine(s)
    <2>1. pet' = [s EXCEPT !.sick = FALSE, !.sickMinutes = 0] /\ s.sick
      BY <1>9 DEF Medicine
    <2>2. 0 \in 0..DEATH_AFTER_SICK_MINUTES
      BY EngineAssumption
    <2>3. pet' \in Pet
      BY <1>1, <2>1, <2>2 DEF Pet
    <2>4. /\ pet'.form = s.form /\ pet'.cause = s.cause /\ pet'.ageMinutes = s.ageMinutes
          /\ pet'.area = s.area /\ pet'.returned = s.returned /\ pet'.explored = s.explored
          /\ pet'.sick = FALSE /\ pet'.fullness = s.fullness
          /\ pet'.hungryMinutes = s.hungryMinutes /\ pet'.sickMinutes = 0
      BY <1>1, <2>1 DEF Pet
    <2> QED BY <1>3, <2>1, <2>3, <2>4 DEF Better
  <1>10. CASE Battle(s)
    <2>1. PICK won \in {0, 1} :
             pet' = [s EXCEPT !.stamina = AtLeast0(@ - ADVENTURE_STAMINA_COST), !.wins = @ + won]
      BY <1>10 DEF Battle
    <2> DEFINE left == AtLeast0(s.stamina - ADVENTURE_STAMINA_COST)
    <2>2. left \in 0..MAX_STAMINA /\ s.wins + won \in Nat
      BY <1>1, <1>2 DEF AtLeast0
    <2>3. pet' = [s EXCEPT !.stamina = left, !.wins = s.wins + won, !.trained = s.trained,
                           !.poops = s.poops, !.lastTrainedAt = s.lastTrainedAt,
                           !.lastMinigameAt = s.lastMinigameAt]
      BY <1>1, <2>1 DEF Pet
    <2> HIDE DEF left
    <2> QED BY <1>1, <1>3, <2>2, <2>3, CountedIsBetter, ZenonT(60)
  <1>11. CASE Skip(s)
    <2>1. PICK runs \in 1..ADVENTURE_SKIP_MAX_RUNS :
             /\ CanAdventure(s, ADVENTURE_STAMINA_COST * runs)
             /\ pet' = [s EXCEPT !.stamina = @ - ADVENTURE_STAMINA_COST * runs, !.wins = @ + runs]
      BY <1>11 DEF Skip
    <2> DEFINE cost == ADVENTURE_STAMINA_COST * runs
               left == s.stamina - cost
    <2>2. runs \in Nat /\ cost \in Nat
      BY <1>2, ProductIsNat
    <2>3. s.stamina >= cost
      BY <2>1 DEF CanAdventure
    <2>4. pet' = [s EXCEPT !.stamina = left, !.wins = s.wins + runs, !.trained = s.trained,
                           !.poops = s.poops, !.lastTrainedAt = s.lastTrainedAt,
                           !.lastMinigameAt = s.lastMinigameAt]
      BY <1>1, <2>1 DEF Pet
    <2> HIDE DEF cost
    <2>5. left \in 0..MAX_STAMINA /\ s.wins + runs \in Nat
      BY <1>1, <1>2, <2>2, <2>3
    <2> HIDE DEF left
    <2> QED BY <1>1, <1>3, <2>4, <2>5, CountedIsBetter, ZenonT(60)
  <1>12. CASE Explore(s)
    <2>1. /\ pet' = [s EXCEPT !.area = TRUE, !.explored = 0, !.returned = FALSE]
          /\ ~IsEgg(s) /\ ~s.sick /\ s.fullness > 0
      BY <1>12 DEF Explore, IsGrown
    <2>2. pet' \in Pet
      BY <1>1, <1>2, <2>1 DEF Pet
    <2>3. /\ pet'.form = s.form /\ pet'.cause = s.cause /\ pet'.ageMinutes = s.ageMinutes
          /\ pet'.area = TRUE /\ pet'.returned = FALSE /\ pet'.explored = 0
          /\ pet'.sick = s.sick /\ pet'.fullness = s.fullness
          /\ pet'.hungryMinutes = s.hungryMinutes /\ pet'.sickMinutes = s.sickMinutes
      BY <1>1, <2>1 DEF Pet
    <2> QED BY <1>2, <2>1, <2>2, <2>3
          DEF IsSound, ExplorerIsWell, DeathIsExplained, EggIsHome, IsEgg, IsDead, IsExploring
  <1>13. CASE Claim(s)
    <2>1. pet' = [s EXCEPT !.area = FALSE, !.explored = 0, !.returned = FALSE]
      BY <1>13 DEF Claim
    <2>2. pet' \in Pet
      BY <1>1, <1>2, <2>1 DEF Pet
    <2>3. /\ pet'.form = s.form /\ pet'.cause = s.cause /\ pet'.ageMinutes = s.ageMinutes
          /\ pet'.area = FALSE /\ pet'.returned = FALSE /\ pet'.explored = 0
          /\ pet'.sick = s.sick /\ pet'.fullness = s.fullness
          /\ pet'.hungryMinutes = s.hungryMinutes /\ pet'.sickMinutes = s.sickMinutes
      BY <1>1, <2>1 DEF Pet
    <2> QED BY <1>2, <2>1, <2>2, <2>3
          DEF IsSound, ExplorerIsWell, DeathIsExplained, EggIsHome, IsEgg, IsDead, IsExploring
  <1>14. CASE TrainingManual(s)
    <2>1. pet' = [s EXCEPT !.stamina = s.stamina, !.wins = s.wins, !.trained = s.trained + 1,
                           !.poops = s.poops, !.lastTrainedAt = s.lastTrainedAt,
                           !.lastMinigameAt = s.lastMinigameAt]
      BY <1>1, <1>14 DEF TrainingManual, Pet
    <2>2. s.trained + 1 \in Nat
      BY <1>1
    <2> QED BY <1>1, <1>3, <2>1, <2>2, CountedIsBetter, ZenonT(60)
  <1>15. CASE Minigame(s, now)
    <2>1. PICK reward \in MinigameRewards :
             pet' = [s EXCEPT !.stamina = AtMost(@ + reward, MAX_STAMINA), !.lastMinigameAt = now]
      BY <1>15 DEF Minigame
    <2> DEFINE regained == AtMost(s.stamina + reward, MAX_STAMINA)
    <2>2. regained \in 0..MAX_STAMINA
      BY <1>1, <1>2 DEF AtMost
    <2>3. pet' = [s EXCEPT !.stamina = regained, !.wins = s.wins, !.trained = s.trained,
                           !.poops = s.poops, !.lastTrainedAt = s.lastTrainedAt,
                           !.lastMinigameAt = now]
      BY <1>1, <2>1 DEF Pet
    <2> HIDE DEF regained
    <2> QED BY <1>1, <1>3, <2>2, <2>3, CountedIsBetter
  <1>16. CASE RefillStamina(s)
    <2>1. pet' = [s EXCEPT !.stamina = MAX_STAMINA, !.wins = s.wins, !.trained = s.trained,
                           !.poops = s.poops, !.lastTrainedAt = s.lastTrainedAt,
                           !.lastMinigameAt = s.lastMinigameAt]
      BY <1>1, <1>16 DEF RefillStamina, Pet
    <2>2. MAX_STAMINA \in 0..MAX_STAMINA
      BY <1>2
    <2> QED BY <1>1, <1>3, <2>1, <2>2, CountedIsBetter, ZenonT(60)
  <1> QED BY <1>4, <1>5, <1>6, <1>7, <1>8, <1>9, <1>10, <1>11, <1>12, <1>13, <1>14, <1>15, <1>16
          DEF Act

---------------------------------------------------------------------------

(* A new egg is sound. *)
LEMMA EggIsSound ==
    ASSUME NEW now \in Nat
    PROVE  IsSound(NewEgg(now))
  <1>1. /\ 0 \in 0..MAX_HEARTS * Heart /\ 0 \in 0..MAX_POOPS /\ MAX_STAMINA \in 0..MAX_STAMINA
        /\ 0 \in 0..DEATH_AFTER_HUNGRY_MINUTES /\ 0 # DEATH_AFTER_HUNGRY_MINUTES
        /\ 0 \in 0..DEATH_AFTER_SICK_MINUTES /\ 0 # DEATH_AFTER_SICK_MINUTES
        /\ 0 \in 0..EXPEDITION_MAX_MINUTES /\ Egg \in Species /\ 0 \in Nat
    BY EngineAssumption, ProductIsNat
  <1>2. NewEgg(now) \in Pet
    BY <1>1 DEF NewEgg, Pet, Causes
  <1>3. 0 < LIFESPAN_MINUTES[Stage[Egg]]
    BY <1>1, SpeciesAssumption
  <1> QED BY <1>1, <1>2, <1>3
          DEF NewEgg, IsSound, ExplorerIsWell, DeathIsExplained, EggIsHome, IsExploring

(* Setting when it was last ticked or seen changes nothing else. *)
LEMMA MarkIsSound ==
    ASSUME NEW s, IsSound(s), NEW ticked \in Nat, NEW seen \in Nat
    PROVE  LET t == [s EXCEPT !.lastTickAt = ticked, !.lastSeenAt = seen]
           IN  /\ IsSound(t) /\ t.form = s.form /\ t.cause = s.cause
               /\ t.stageMinutes = s.stageMinutes
  <1> DEFINE t == [s EXCEPT !.lastTickAt = ticked, !.lastSeenAt = seen]
  <1>1. s \in Pet
    BY DEF IsSound
  <1>2. s.fullness >= s.fullness
    BY <1>1, EngineAssumption, ProductIsNat DEF Pet
  <1>3. t \in Pet
    BY <1>1 DEF Pet
  <1>4. /\ t.form = s.form /\ t.cause = s.cause /\ t.area = s.area /\ t.returned = s.returned
        /\ t.explored = s.explored /\ t.sick = s.sick /\ t.fullness = s.fullness
        /\ t.hungryMinutes = s.hungryMinutes /\ t.sickMinutes = s.sickMinutes
        /\ t.ageMinutes = s.ageMinutes /\ t.stageMinutes = s.stageMinutes
    BY <1>1 DEF Pet
  <1> HIDE DEF t
  <1>5. IsSound(t)
    BY <1>1, <1>2, <1>3, <1>4, SameHealth DEF IsSound
  <1>6. IsSound(t) /\ t.form = s.form /\ t.cause = s.cause /\ t.stageMinutes = s.stageMinutes
    BY <1>4, <1>5
  <1> QED BY <1>6 DEF t

(* A monster that a minute kills dies at that minute. *)
LEMMA StepDatesDeath ==
    ASSUME NEW s \in Pet, s.cause = "none", NEW d, NEW at \in Nat
    PROVE  Step(s, at, d).cause # "none" => Step(s, at, d).diedAt \in Nat
  <1> DEFINE online == IsOnlineAt(s, at)
             gain == IF online THEN 2 ELSE 1
             t == IF IsEgg(s) THEN s ELSE Lived(s, online, d, at)
             cause == DeathCause(s, d)
  <1>1. t.cause # "none" => t.diedAt \in Nat
    <2>1. CASE IsEgg(s)
      BY <2>1
    <2>2. CASE ~IsEgg(s)
      <3>1. t = Lived(s, online, d, at)
        BY <2>2
      <3> HIDE DEF cause, t
      <3>2. t.cause = cause /\ t.diedAt = IF cause = "none" THEN s.diedAt ELSE at
        BY <3>1 DEF Lived, Pet, cause
      <3> QED BY <3>2
    <2> QED BY <2>1, <2>2
  <1>2. Step(s, at, d) =
          IF IsStageTimeUp(s, gain) /\ ~IsDead(t) /\ RulesMet(t) # {} THEN Evolved(t)
          ELSE [t EXCEPT !.stageMinutes = @ + gain]
    BY DEF Step
  <1> HIDE DEF online, gain, t
  <1>3. CASE IsStageTimeUp(s, gain) /\ ~IsDead(t) /\ RulesMet(t) # {}
    <2>1. Evolved(t).cause = t.cause
      BY DEF Evolved
    <2> QED BY <1>2, <1>3, <2>1 DEF IsDead
  <1>4. CASE ~(IsStageTimeUp(s, gain) /\ ~IsDead(t) /\ RulesMet(t) # {})
    BY <1>1, <1>2, <1>4
  <1> QED BY <1>3, <1>4

---------------------------------------------------------------------------

(* The clock's step: a minute of life for the living, nothing for the dead. *)
LEMMA TimeKeepsIInv ==
    ASSUME IInv, TimePasses
    PROVE  /\ IInv'
           /\ LET duration == STAGE_DURATION_MINUTES[Stage[pet.form]]
              IN  duration # Never /\ pet.stageMinutes >= duration => pet'.form = pet.form
  <1>1. IsSound(pet) /\ clock \in Nat /\ drain \in Drains /\ pet \in Pet
    BY DEF IInv, IsSound
  <1>2. clock' \in Nat /\ drain' \in Drains
    BY <1>1 DEF TimePasses
  <1>3. CASE clock' % Minute = 0 /\ ~IsDead(pet)
    <2> DEFINE t == Step(pet, clock', drain)
               u == [t EXCEPT !.lastTickAt = clock']
    <2>1. pet.cause = "none"
      BY <1>3 DEF IsDead
    <2>2. /\ IsSound(t)
          /\ LET duration == STAGE_DURATION_MINUTES[Stage[pet.form]]
             IN  duration # Never /\ pet.stageMinutes >= duration => t.form = pet.form
      BY <1>1, <1>2, <2>1, StepIsSound
    <2>3. t.cause # "none" => t.diedAt \in Nat
      BY <1>1, <1>2, <2>1, StepDatesDeath
    <2>4. pet' = AtRest(u)
      BY <1>3 DEF TimePasses
    <2> HIDE DEF t
    <2>5. t \in Pet /\ t.lastSeenAt \in Nat
      BY <2>2 DEF IsSound, Pet
    <2>6. /\ u = [t EXCEPT !.lastTickAt = clock', !.lastSeenAt = t.lastSeenAt]
          /\ u.cause = t.cause /\ u.diedAt = t.diedAt
      BY <2>5 DEF Pet
    <2> HIDE DEF u
    <2>7. CASE t.cause = "none"
      <3>1. pet' = u
        BY <2>4, <2>6, <2>7 DEF AtRest, IsDead
      <3>2. IsSound(u) /\ u.form = t.form
        BY <1>2, <2>2, <2>5, <2>6, MarkIsSound
      <3> QED BY <1>2, <2>2, <3>1, <3>2 DEF IInv
    <2>8. CASE t.cause # "none"
      <3>1. pet' = [u EXCEPT !.lastTickAt = u.diedAt, !.lastSeenAt = u.diedAt]
        BY <2>4, <2>6, <2>8 DEF AtRest, IsDead
      <3>2. IsSound(u) /\ u.form = t.form /\ u.diedAt \in Nat
        BY <1>2, <2>2, <2>3, <2>5, <2>6, <2>8, MarkIsSound
      <3>3. IsSound(pet') /\ pet'.form = u.form
        BY <3>1, <3>2, MarkIsSound
      <3> QED BY <1>2, <2>2, <3>2, <3>3 DEF IInv
    <2> QED BY <2>7, <2>8
  <1>4. CASE ~(clock' % Minute = 0 /\ ~IsDead(pet))
    <2>1. pet' = pet
      BY <1>4 DEF TimePasses
    <2> QED BY <1>1, <1>2, <2>1 DEF IInv
  <1> QED BY <1>3, <1>4

(* A request acts on the living only. *)
LEMMA ActsKeepIInv ==
    ASSUME IInv, OwnerActs
    PROVE  IInv' /\ pet'.form = pet.form
  <1> DEFINE s == [pet EXCEPT !.lastSeenAt = clock]
  <1>1. IsSound(pet) /\ clock \in Nat /\ drain \in Drains /\ pet \in Pet /\ pet.cause = "none"
    BY DEF IInv, IsSound, OwnerActs, IsDead
  <1>2. Act(s, clock) /\ clock' = clock /\ drain' = drain
    BY DEF OwnerActs
  <1>3. s = [pet EXCEPT !.lastTickAt = pet.lastTickAt, !.lastSeenAt = clock]
        /\ pet.lastTickAt \in Nat
    BY <1>1 DEF Pet
  <1> HIDE DEF s
  <1>4. IsSound(s) /\ s.form = pet.form /\ s.cause = "none"
    BY <1>1, <1>3, MarkIsSound
  <1>5. IsSound(pet') /\ pet'.form = s.form
    BY <1>1, <1>2, <1>4, ActIsSound
  <1> QED BY <1>1, <1>2, <1>4, <1>5 DEF IInv

LEMMA BirthIInv == Birth => IInv
  <1> SUFFICES ASSUME Birth PROVE IInv
    OBVIOUS
  <1>1. IsSound(NewEgg(0))
    BY EggIsSound
  <1> QED BY <1>1 DEF Birth, IInv

LEMMA LifeKeepsIInv ==
    ASSUME IInv, [LifeNext]_lifeVars
    PROVE  IInv'
  <1>1. CASE TimePasses
    BY <1>1, TimeKeepsIInv
  <1>2. CASE OwnerActs
    BY <1>2, ActsKeepIInv
  <1>3. CASE OwnerAllocates
    BY <1>3 DEF OwnerAllocates, IInv
  <1>4. CASE UNCHANGED lifeVars
    BY <1>4 DEF lifeVars, IInv
  <1> QED BY <1>1, <1>2, <1>3, <1>4 DEF LifeNext

(* Always: what every state of a life satisfies. *)
LEMMA LifeIInv == Life => []IInv
  BY BirthIInv, LifeKeepsIInv, PTL DEF Life

(* Every field of a monster stays within its bounds: no gauge overflows,   *)
(* no counter of hungry or sick minutes runs past the death it leads to.   *)
THEOREM LifeTypeOK == Life => []LifeOfType
  <1>1. IInv => LifeOfType
    BY DEF IInv, IsSound, LifeOfType
  <1> QED BY <1>1, LifeIInv, PTL

(* No monster goes on collecting while sick, hungry or beyond its time     *)
(* (simulation.ts:246-256), whatever is done to it in whatever order.      *)
THEOREM LifeExplorersAreWell == Life => []ExplorersAreWell
  <1>1. IInv => ExplorersAreWell
    BY DEF IInv, IsSound, ExplorersAreWell
  <1> QED BY <1>1, LifeIInv, PTL

(* Every death has exactly the cause recorded, at exactly its limit, and   *)
(* nothing lives past a limit (simulation.ts:215-244).                     *)
THEOREM LifeDeathsAreExplained == Life => []DeathsAreExplained
  <1>1. IInv => DeathsAreExplained
    BY DEF IInv, IsSound, DeathsAreExplained
  <1> QED BY <1>1, LifeIInv, PTL

(* A stage whose time was up keeps its form for good (simulation.ts:172-174). *)
THEOREM LifeDecidedOnce == Life => FormDecidedOnce
  <1> DEFINE Decided == LET duration == STAGE_DURATION_MINUTES[Stage[pet.form]]
                        IN  duration # Never /\ pet.stageMinutes >= duration
                              => pet'.form = pet.form
  <1>1. ASSUME IInv, [LifeNext]_lifeVars
        PROVE  [Decided]_lifeVars
    <2>1. CASE TimePasses
      BY <1>1, <2>1, TimeKeepsIInv
    <2>2. CASE OwnerActs
      BY <1>1, <2>2, ActsKeepIInv
    <2>3. CASE OwnerAllocates
      BY <2>3 DEF OwnerAllocates
    <2>4. CASE UNCHANGED lifeVars
      BY <2>4
    <2> QED BY <1>1, <2>1, <2>2, <2>3, <2>4 DEF LifeNext
  <1> QED BY <1>1, LifeIInv, PTL DEF Life, FormDecidedOnce

---------------------------------------------------------------------------
(*                        Minutes replayed on demand                        *)

EggMinutes == STAGE_DURATION_MINUTES["EGG"]

(* A monster that has lived m minutes from its birth. *)
HasLived(s, m) ==
    /\ IsSound(s)
    /\ LIFESPAN_MINUTES[Stage[s.form]] = LIFESPAN_MINUTES["EGG"]
    /\ IsEgg(s) => /\ s.form = Egg /\ s.cause = "none" /\ s.ageMinutes = 0
                   /\ s.mistakes = 0 /\ s.trained = 0 /\ s.wins = 0
                   /\ m <= s.stageMinutes /\ s.stageMinutes < EggMinutes
    /\ s.cause = "none" /\ ~IsEgg(s) => m - s.ageMinutes \in 1..EggMinutes

(* Its form has been decided. *)
IsDecided(s) ==
    LET duration == STAGE_DURATION_MINUTES[Stage[s.form]]
    IN  duration # Never /\ s.stageMinutes >= duration

(* What no minute and no request may change about s. *)
MovesOn(s, t) ==
    /\ t.lastTickAt >= s.lastTickAt
    /\ t.ageMinutes >= s.ageMinutes
    /\ IsDecided(s) => t.form = s.form

(* What minutes leave of s, apart from those they add to what it has lived. *)
Follows(s, t) ==
    /\ MovesOn(s, t)
    /\ IsDecided(s) => IsDecided(t)
    /\ t.lastTickAt = s.lastTickAt /\ t.lastSeenAt = s.lastSeenAt
    /\ s.cause # "none" => t = s

KInv ==
    /\ HasLived(pet, pet.lastTickAt \div Minute)
    /\ pet.lastTickAt <= clock
    /\ pet.lastTickAt % Minute = 0
    /\ clock \in 0..MAX_CLOCK
    /\ drain \in Drains
    /\ requests \in 0..MAX_REQUESTS

---------------------------------------------------------------------------

LEMMA EggFacts ==
    /\ Stage[Egg] = "EGG" /\ Egg \in Species
    /\ EggMinutes \in Nat \ {0}
    /\ LIFESPAN_MINUTES["EGG"] \in Nat \ {0}
    /\ MAX_TICK_MINUTES \in Nat \ {0}
    /\ MAX_TICK_MINUTES >= EggMinutes + LIFESPAN_MINUTES["EGG"]
  BY EngineAssumption, SpeciesAssumption, KeepingAssumption, LifeFitsAssumption DEF EggMinutes

(* What a minute does to a hatched monster's age and form, before it may evolve. *)
LEMMA LivedAges ==
    ASSUME NEW s \in Pet, NEW online, NEW d, NEW at
    PROVE  LET t == Lived(s, online, d, at) IN
           /\ t.form = s.form /\ t.ageMinutes = s.ageMinutes + 1
           /\ t.stageMinutes = s.stageMinutes
           /\ t.lastTickAt = s.lastTickAt /\ t.lastSeenAt = s.lastSeenAt
  BY DEF Lived, Pet

LEMMA EvolvedFields ==
    ASSUME NEW s \in Pet
    PROVE  /\ Evolved(s).form = NextForm(s) /\ Evolved(s).cause = s.cause
           /\ Evolved(s).ageMinutes = s.ageMinutes
           /\ Evolved(s).lastTickAt = s.lastTickAt /\ Evolved(s).lastSeenAt = s.lastSeenAt
  BY DEF Evolved, Pet

(* An egg whose time is up hatches: its rule asks for nothing. *)
LEMMA EggHatches ==
    ASSUME NEW s, s.form = Egg, s.mistakes = 0, s.trained = 0, s.wins = 0
    PROVE  RulesMet(s) # {}
  <1>1. PICK i \in 1..Len(Evolutions[Egg]) : IsEvolutionRuleMet(Evolutions[Egg][i], NewEgg(0))
    BY LifeFitsAssumption
  <1>2. IsEvolutionRuleMet(Evolutions[Egg][i], s)
    BY <1>1 DEF IsEvolutionRuleMet, NewEgg
  <1> QED BY <1>1, <1>2 DEF RulesMet

(* A minute of a living monster adds one to what it has lived. *)
LEMMA StepCounts ==
    ASSUME NEW s, NEW m \in Nat, HasLived(s, m), s.cause = "none", NEW d \in Drains, NEW at \in Nat
    PROVE  /\ HasLived(Step(s, at, d), m + 1)
           /\ MovesOn(s, Step(s, at, d))
           /\ IsDecided(s) => IsDecided(Step(s, at, d))
           /\ Step(s, at, d).lastTickAt = s.lastTickAt
           /\ Step(s, at, d).lastSeenAt = s.lastSeenAt
  <1> DEFINE online == IsOnlineAt(s, at)
             gain == IF online THEN 2 ELSE 1
             t == IF IsEgg(s) THEN s ELSE Lived(s, online, d, at)
             u == [t EXCEPT !.stageMinutes = @ + gain]
             v == Step(s, at, d)
             evolves == IsStageTimeUp(s, gain) /\ ~IsDead(t) /\ RulesMet(t) # {}
  <1>1. /\ IsSound(s) /\ s \in Pet /\ s.form \in Species /\ s.ageMinutes \in Nat
        /\ s.stageMinutes \in Nat /\ s.lastTickAt \in Nat /\ s.lastSeenAt \in Nat
    BY DEF HasLived, IsSound, Pet
  <1>2. gain \in {1, 2}
    OBVIOUS
  <1>3. IsSound(v) /\ v \in Pet
    BY <1>1, StepIsSound DEF IsSound
  <1>4. v = IF evolves THEN Evolved(t) ELSE u
    BY DEF Step
  <1>5. /\ t \in Pet /\ t.form = s.form /\ t.stageMinutes = s.stageMinutes
        /\ t.lastTickAt = s.lastTickAt /\ t.lastSeenAt = s.lastSeenAt
        /\ t.ageMinutes = s.ageMinutes + IF IsEgg(s) THEN 0 ELSE 1
        /\ IsEgg(s) => t = s
    <2>1. CASE IsEgg(s)
      BY <1>1, <2>1
    <2>2. CASE ~IsEgg(s)
      <3>0. online \in BOOLEAN /\ ExplorerIsWell(s) /\ DeathIsExplained(s)
        BY <1>1 DEF IsOnlineAt, IsSound
      <3> HIDE DEF online
      <3>1. t = Lived(s, online, d, at)
        BY <2>2
      <3>2. t \in Pet
        BY <1>1, <2>2, <3>0, <3>1, LivedFields
      <3> QED BY <1>1, <2>2, <3>1, <3>2, LivedAges
    <2> QED BY <2>1, <2>2
  <1> HIDE DEF t, gain, v
  <1>6. /\ u.form = s.form /\ u.cause = t.cause /\ u.ageMinutes = t.ageMinutes
        /\ u.stageMinutes = s.stageMinutes + gain
        /\ u.lastTickAt = s.lastTickAt /\ u.lastSeenAt = s.lastSeenAt
        /\ u.mistakes = t.mistakes /\ u.trained = t.trained /\ u.wins = t.wins
    BY <1>5 DEF Pet
  <1> HIDE DEF u
  <1>7. /\ v.lastTickAt = s.lastTickAt /\ v.lastSeenAt = s.lastSeenAt
        /\ v.ageMinutes = t.ageMinutes
    <2>1. CASE evolves
      BY <1>4, <1>5, <2>1, EvolvedFields
    <2>2. CASE ~evolves
      BY <1>4, <1>5, <1>6, <2>2
    <2> QED BY <2>1, <2>2
  <1>8. IsDecided(s) => v.form = s.form /\ IsDecided(v)
    <2> SUFFICES ASSUME IsDecided(s) PROVE v.form = s.form /\ IsDecided(v)
      OBVIOUS
    <2>1. STAGE_DURATION_MINUTES[Stage[s.form]] \in Nat
      BY <1>1, SpeciesAssumption DEF IsDecided
    <2>2. ~evolves
      BY <1>1, <2>1 DEF IsStageTimeUp, IsDecided
    <2>3. v.form = s.form /\ v.stageMinutes = s.stageMinutes + gain
      BY <1>4, <1>6, <2>2
    <2> QED BY <1>1, <1>2, <2>1, <2>3 DEF IsDecided
  <1>9. MovesOn(s, v)
    BY <1>1, <1>5, <1>7, <1>8 DEF MovesOn
  <1>10. HasLived(v, m + 1)
    <2>1. CASE evolves
      <3>1. /\ v.form = NextForm(t) /\ v.cause = t.cause
            /\ Stage[NextForm(t)] # "EGG"
            /\ LIFESPAN_MINUTES[Stage[NextForm(t)]] = LIFESPAN_MINUTES[Stage[t.form]]
        BY <1>4, <1>5, <2>1, EvolvedFields, NextFormType
      <3>2. ~IsEgg(v) /\ LIFESPAN_MINUTES[Stage[v.form]] = LIFESPAN_MINUTES["EGG"]
        BY <1>5, <3>1 DEF IsEgg, HasLived
      <3>3. (m + 1) - v.ageMinutes \in 1..EggMinutes
        <4>1. CASE IsEgg(s)
          <5>1. v.ageMinutes = 0 /\ m < EggMinutes
            BY <1>1, <1>5, <1>7, <4>1, EggFacts DEF HasLived
          <5> QED BY <5>1, EggFacts
        <4>2. CASE ~IsEgg(s)
          <5>1. v.ageMinutes = s.ageMinutes + 1 /\ m - s.ageMinutes \in 1..EggMinutes
            BY <1>5, <1>7, <4>2 DEF HasLived
          <5> QED BY <1>1, <5>1, EggFacts
        <4> QED BY <4>1, <4>2
      <3> QED BY <1>3, <3>2, <3>3 DEF HasLived
    <2>2. CASE ~evolves /\ IsEgg(s)
      <3>1. t = s /\ ~IsDead(t) /\ RulesMet(t) # {}
        BY <1>5, <2>2, EggHatches DEF IsDead, HasLived
      <3>2. v = u /\ ~IsStageTimeUp(s, gain)
        BY <1>4, <2>2, <3>1
      <3>3. /\ v.form = Egg /\ v.cause = "none" /\ v.ageMinutes = 0
            /\ v.mistakes = 0 /\ v.trained = 0 /\ v.wins = 0
            /\ LIFESPAN_MINUTES[Stage[v.form]] = LIFESPAN_MINUTES["EGG"]
            /\ v.stageMinutes = s.stageMinutes + gain
        BY <1>6, <2>2, <3>1, <3>2 DEF HasLived
      <3>4. s.stageMinutes < EggMinutes /\ m <= s.stageMinutes /\ Stage[s.form] = "EGG"
        BY <2>2 DEF HasLived, IsEgg
      <3>5. s.stageMinutes + gain < EggMinutes
        BY <1>1, <1>2, <3>2, <3>4, EggFacts, LifeFitsAssumption DEF IsStageTimeUp, EggMinutes
      <3>6. m + 1 <= v.stageMinutes /\ v.stageMinutes < EggMinutes
        BY <1>1, <1>2, <3>3, <3>4, <3>5
      <3>7. IsEgg(v)
        BY <3>3, EggFacts DEF IsEgg
      <3> QED BY <1>3, <3>3, <3>6, <3>7 DEF HasLived
    <2>3. CASE ~evolves /\ ~IsEgg(s)
      <3>1. v.form = s.form /\ v.ageMinutes = s.ageMinutes + 1
        BY <1>4, <1>5, <1>6, <1>7, <2>3
      <3>2. ~IsEgg(v) /\ LIFESPAN_MINUTES[Stage[v.form]] = LIFESPAN_MINUTES["EGG"]
        BY <2>3, <3>1 DEF IsEgg, HasLived
      <3>3. m - s.ageMinutes \in 1..EggMinutes
        BY <2>3 DEF HasLived
      <3>4. (m + 1) - v.ageMinutes \in 1..EggMinutes
        BY <1>1, <3>1, <3>3, EggFacts
      <3> QED BY <1>3, <3>2, <3>4 DEF HasLived
    <2> QED BY <2>1, <2>2, <2>3
  <1>11. HasLived(v, m + 1) /\ MovesOn(s, v) /\ (IsDecided(s) => IsDecided(v))
         /\ v.lastTickAt = s.lastTickAt /\ v.lastSeenAt = s.lastSeenAt
    BY <1>7, <1>8, <1>9, <1>10
  <1> QED BY <1>11 DEF v

(* So does the loop body of tick, whether the monster lives or not. *)
LEMMA MinuteCounts ==
    ASSUME NEW s, NEW m \in Nat, HasLived(s, m), NEW d \in Drains, NEW at \in Nat
    PROVE  LET t == MinuteOf(s, at, d) IN
           /\ HasLived(t, m + 1)
           /\ Follows(s, t)
  <1>1. s \in Pet /\ s.ageMinutes \in Nat /\ s.lastTickAt \in Nat
    BY DEF HasLived, IsSound, Pet
  <1>2. MinuteOf(s, at, d) = IF IsDead(s) THEN s ELSE Step(s, at, d)
    BY <1>1 DEF MinuteOf
  <1>3. CASE s.cause = "none"
    <2>1. MinuteOf(s, at, d) = Step(s, at, d)
      BY <1>2, <1>3 DEF IsDead
    <2> QED BY <1>3, <2>1, StepCounts DEF Follows
  <1>4. CASE s.cause # "none"
    <2>1. MinuteOf(s, at, d) = s
      BY <1>2, <1>4 DEF IsDead
    <2>2. HasLived(s, m + 1) /\ MovesOn(s, s)
      BY <1>1, <1>4 DEF HasLived, MovesOn
    <2> QED BY <2>1, <2>2 DEF Follows
  <1> QED BY <1>3, <1>4

---------------------------------------------------------------------------
(* The recursive function in Replayed. *)
ReplayTable(s, from, n, d) ==
    CHOOSE after :
        after = [k \in 0..n |-> IF k = 0 THEN s ELSE MinuteOf(after[k - 1], from + k * Minute, d)]

LEMMA ReplayedIsTable ==
    ASSUME NEW s, NEW from, NEW n, NEW d
    PROVE  Replayed(s, from, n, d) = ReplayTable(s, from, n, d)[n]
  BY DEF Replayed, ReplayTable

(* It exists: the least number of minutes for which it did not would       *)
(* follow one for which it does.                                           *)
LEMMA ReplayExists ==
    ASSUME NEW s, NEW from, NEW n \in Nat, NEW d
    PROVE  \E f : f = [k \in 0..n |-> IF k = 0 THEN s ELSE MinuteOf(f[k - 1], from + k * Minute, d)]
  <1> DEFINE Exists(m) == \E f : f = [k \in 0..m |-> IF k = 0 THEN s
                                                     ELSE MinuteOf(f[k - 1], from + k * Minute, d)]
             T == {m \in Nat : ~Exists(m)}
  <1>1. SUFFICES ASSUME T # {} PROVE FALSE
    OBVIOUS
  <1>2. PICK m \in T : \A j \in T : m <= j
    BY <1>1, NatHasLeast
  <1>3. Exists(0)
    <2> DEFINE f == [k \in 0..0 |-> s]
    <2>1. f = [k \in 0..0 |-> IF k = 0 THEN s ELSE MinuteOf(f[k - 1], from + k * Minute, d)]
      OBVIOUS
    <2> QED BY <2>1
  <1>4. m \in Nat \ {0} /\ m - 1 \in Nat /\ m - 1 \notin T
    BY <1>2, <1>3, SMTT(60)
  <1>5. PICK f : f = [k \in 0..(m - 1) |-> IF k = 0 THEN s
                                           ELSE MinuteOf(f[k - 1], from + k * Minute, d)]
    BY <1>4
  <1> DEFINE g == [k \in 0..m |-> IF k < m THEN f[k] ELSE MinuteOf(f[m - 1], from + m * Minute, d)]
  <1>6. g = [k \in 0..m |-> IF k = 0 THEN s ELSE MinuteOf(g[k - 1], from + k * Minute, d)]
    <2> SUFFICES ASSUME NEW k \in 0..m
                 PROVE  g[k] = IF k = 0 THEN s ELSE MinuteOf(g[k - 1], from + k * Minute, d)
      BY Zenon
    <2>1. CASE k = 0
      BY <1>4, <1>5, <2>1
    <2>2. CASE k # 0 /\ k < m
      <3>1. k \in 0..(m - 1) /\ k - 1 \in 0..m /\ k - 1 < m
        BY <1>4, <2>2
      <3>2. f[k] = MinuteOf(f[k - 1], from + k * Minute, d)
        BY <1>5, <2>2, <3>1
      <3>3. g[k] = f[k] /\ g[k - 1] = f[k - 1]
        BY <2>2, <3>1
      <3> HIDE DEF g
      <3> QED BY <2>2, <3>2, <3>3
    <2>3. CASE k = m
      <3>1. m - 1 \in 0..m /\ m - 1 < m /\ m \in 0..m /\ ~(m < m)
        BY <1>4
      <3>2. g[m - 1] = f[m - 1] /\ g[m] = MinuteOf(f[m - 1], from + m * Minute, d)
        BY <3>1
      <3> HIDE DEF g
      <3> QED BY <1>4, <2>3, <3>2
    <2> QED BY <1>4, <2>1, <2>2, <2>3
  <1>7. Exists(m)
    BY <1>6
  <1> QED BY <1>2, <1>7

LEMMA ReplayRecursion ==
    ASSUME NEW s, NEW from, NEW n \in Nat, NEW d
    PROVE  /\ ReplayTable(s, from, n, d)[0] = s
           /\ \A k \in 1..n : ReplayTable(s, from, n, d)[k]
                = MinuteOf(ReplayTable(s, from, n, d)[k - 1], from + k * Minute, d)
  <1> DEFINE f == ReplayTable(s, from, n, d)
  <1>1. f = [k \in 0..n |-> IF k = 0 THEN s ELSE MinuteOf(f[k - 1], from + k * Minute, d)]
    BY ReplayExists DEF ReplayTable
  <1> HIDE DEF f
  <1>2. f[0] = s /\ \A k \in 1..n : f[k] = MinuteOf(f[k - 1], from + k * Minute, d)
    BY <1>1
  <1> QED BY <1>2 DEF f

(* The minutes of a replay, each counted. *)
LEMMA ReplayCounts ==
    ASSUME NEW s, NEW m \in Nat, HasLived(s, m), NEW d \in Drains,
           NEW from \in Nat, NEW n \in Nat, NEW k \in 0..n, NEW t, t = ReplayTable(s, from, n, d)[k]
    PROVE  /\ HasLived(t, m + k)
           /\ Follows(s, t)
  <1> DEFINE f == ReplayTable(s, from, n, d)
             Counts(j) == /\ HasLived(f[j], m + j)
                          /\ Follows(s, f[j])
             T == {j \in 0..n : ~Counts(j)}
  <1>1. SUFFICES ASSUME T # {} PROVE FALSE
    OBVIOUS
  <1>2. T \subseteq Nat
    OBVIOUS
  <1>3. PICK j \in T : \A i \in T : j <= i
    BY <1>1, <1>2, NatHasLeast
  <1>4. \A i \in 1..n : f[i] = MinuteOf(f[i - 1], from + i * Minute, d)
    <2> SUFFICES ASSUME NEW i \in 1..n PROVE f[i] = MinuteOf(f[i - 1], from + i * Minute, d)
      OBVIOUS
    <2> QED BY ReplayRecursion
  <1>5. f[0] = s
    BY ReplayRecursion
  <1>6. s.ageMinutes \in Nat /\ s.lastTickAt \in Nat
    BY DEF HasLived, IsSound, Pet
  <1> HIDE DEF f
  <1>7. Counts(0)
    <2>1. Follows(s, s) /\ m + 0 = m
      BY <1>6 DEF Follows, MovesOn
    <2> QED BY <1>5, <2>1
  <1>8. j \in 1..n /\ j - 1 \in 0..n /\ j - 1 \in Nat /\ j \in Nat /\ Counts(j - 1)
    BY <1>3, <1>7
  <1> DEFINE a == f[j - 1]
             b == f[j]
  <1>9. b = MinuteOf(a, from + j * Minute, d)
    BY <1>4, <1>8
  <1>10. HasLived(a, m + (j - 1)) /\ Follows(s, a)
    BY <1>8
  <1>11. m + (j - 1) \in Nat /\ (m + (j - 1)) + 1 = m + j /\ from + j * Minute \in Nat
    BY <1>8, EngineAssumption
  <1> HIDE DEF a, b
  <1>12. HasLived(b, (m + (j - 1)) + 1) /\ Follows(a, b)
    BY <1>9, <1>10, <1>11, MinuteCounts
  <1>13. a.ageMinutes \in Nat /\ b.ageMinutes \in Nat
    BY <1>10, <1>12 DEF HasLived, IsSound, Pet
  <1>14. Follows(s, b)
    BY <1>6, <1>10, <1>12, <1>13 DEF MovesOn, Follows
  <1>15. Counts(j)
    BY <1>11, <1>12, <1>14 DEF b
  <1> QED BY <1>3, <1>15

LEMMA ReplayedCounts ==
    ASSUME NEW s, NEW m \in Nat, HasLived(s, m), NEW d \in Drains,
           NEW from \in Nat, NEW n \in Nat, NEW t, t = Replayed(s, from, n, d)
    PROVE  /\ HasLived(t, m + n)
           /\ Follows(s, t)
  <1>1. n \in 0..n
    OBVIOUS
  <1>2. t = ReplayTable(s, from, n, d)[n]
    BY ReplayedIsTable
  <1> QED BY <1>1, <1>2, ReplayCounts

(* The dead stay as they are: it does not matter how long they lived.      *)
LEMMA DeadHaveLived ==
    ASSUME NEW s, NEW m, NEW n, HasLived(s, m), s.cause # "none"
    PROVE  HasLived(s, n)
  BY DEF HasLived

(* Whoever has lived as many minutes as one tick may replay is dead. *)
LEMMA NobodyLivesSoLong ==
    ASSUME NEW s, NEW m \in Nat, HasLived(s, m), m >= MAX_TICK_MINUTES
    PROVE  s.cause # "none"
  <1> SUFFICES ASSUME s.cause = "none" PROVE FALSE
    OBVIOUS
  <1>1. s.ageMinutes \in Nat /\ s.stageMinutes \in Nat
    BY DEF HasLived, IsSound, Pet
  <1>2. s.ageMinutes < LIFESPAN_MINUTES["EGG"]
    BY DEF HasLived, IsSound, DeathIsExplained
  <1>3. CASE IsEgg(s)
    BY <1>1, <1>3, EggFacts DEF HasLived
  <1>4. CASE ~IsEgg(s)
    <2>1. m - s.ageMinutes <= EggMinutes
      BY <1>4, EggFacts DEF HasLived
    <2> QED BY <1>1, <1>2, <2>1, EggFacts
  <1> QED BY <1>3, <1>4

---------------------------------------------------------------------------
(* Whole minutes. *)
LEMMA WholeMinutes ==
    ASSUME NEW at \in Nat, at % Minute = 0
    PROVE  at \div Minute \in Nat /\ at = (at \div Minute) * Minute
  BY EngineAssumption

LEMMA MinutesAreWhole ==
    ASSUME NEW m \in Nat
    PROVE  (m * Minute) % Minute = 0 /\ (m * Minute) \div Minute = m /\ m * Minute \in Nat
  BY EngineAssumption

LEMMA MinutesPassed ==
    ASSUME NEW span \in Int
    PROVE  /\ span \div Minute \in Int
           /\ (span \div Minute) * Minute <= span
           /\ span < (span \div Minute + 1) * Minute
  BY EngineAssumption

(* Setting when it was last ticked or seen changes nothing it has lived. *)
Marked(s, ticked, seen) == [s EXCEPT !.lastTickAt = ticked, !.lastSeenAt = seen]

IsLike(s, t) ==
    /\ t.form = s.form /\ t.cause = s.cause /\ t.ageMinutes = s.ageMinutes
    /\ IsDecided(s) <=> IsDecided(t)

LEMMA MarkedFields ==
    ASSUME NEW s \in Pet, NEW ticked, NEW seen
    PROVE  /\ Marked(s, ticked, seen).lastTickAt = ticked
           /\ Marked(s, ticked, seen).lastSeenAt = seen
  BY DEF Marked, Pet

LEMMA MarkedHasLived ==
    ASSUME NEW s, NEW m, HasLived(s, m), NEW ticked \in Nat, NEW seen \in Nat
    PROVE  HasLived(Marked(s, ticked, seen), m) /\ IsLike(s, Marked(s, ticked, seen))
  <1> DEFINE t == Marked(s, ticked, seen)
  <1>1. IsSound(s) /\ s \in Pet
    BY DEF HasLived, IsSound
  <1>2. IsSound(t)
    BY <1>1, MarkIsSound DEF Marked
  <1>3. /\ t.lastTickAt = ticked /\ t.lastSeenAt = seen
        /\ t.form = s.form /\ t.cause = s.cause /\ t.ageMinutes = s.ageMinutes
        /\ t.stageMinutes = s.stageMinutes /\ t.mistakes = s.mistakes
        /\ t.trained = s.trained /\ t.wins = s.wins
    BY <1>1 DEF Pet, Marked
  <1> HIDE DEF t
  <1>4. HasLived(t, m) /\ IsLike(s, t)
    BY <1>2, <1>3 DEF HasLived, IsLike, IsDecided, IsEgg
  <1> QED BY <1>4 DEF t

(* Replaying up to the cap is as good as replaying all minutes. *)
LEMMA CappedReplayCounts ==
    ASSUME NEW s, NEW m \in Nat, HasLived(s, m), NEW d \in Drains, NEW from \in Nat,
           NEW elapsed \in Nat, NEW n, n = AtMost(elapsed, MAX_TICK_MINUTES),
           NEW r, r = Replayed(s, from, n, d)
    PROVE  HasLived(r, m + elapsed) /\ Follows(s, r)
  <1>1. n \in Nat /\ n <= elapsed /\ (n = elapsed \/ n = MAX_TICK_MINUTES)
    BY EggFacts DEF AtMost
  <1>2. HasLived(r, m + n) /\ Follows(s, r)
    BY <1>1, ReplayedCounts
  <1>3. CASE n = elapsed
    BY <1>2, <1>3
  <1>4. CASE n = MAX_TICK_MINUTES
    <2>1. m + n \in Nat /\ m + n >= MAX_TICK_MINUTES
      BY <1>1, <1>4, EggFacts
    <2>2. r.cause # "none"
      BY <1>2, <2>1, NobodyLivesSoLong
    <2>3. HasLived(r, m + elapsed)
      BY <1>2, <2>2, DeadHaveLived
    <2> QED BY <1>2, <2>3
  <1> QED BY <1>1, <1>3, <1>4

(* A tick replays the minutes up to its `now` once each, or, beyond the    *)
(* cap, up to the monster's death.                                         *)
LEMMA TickCounts ==
    ASSUME NEW s, HasLived(s, s.lastTickAt \div Minute), s.lastTickAt % Minute = 0,
           NEW now \in Int, NEW d \in Drains, NEW t, t = Tick(s, now, d)
    PROVE  /\ HasLived(t, t.lastTickAt \div Minute) /\ t.lastTickAt % Minute = 0
           /\ t.lastTickAt <= now \/ t.lastTickAt = s.lastTickAt
           /\ MovesOn(s, t)
           /\ IsDecided(s) => IsDecided(t)
           /\ t.lastSeenAt = s.lastSeenAt
  <1> DEFINE start == s.lastTickAt
             m == start \div Minute
             elapsed == (now - start) \div Minute
             n == AtMost(elapsed, MAX_TICK_MINUTES)
             r == Replayed(s, start, n, d)
             ticked == start + elapsed * Minute
  <1>1. s \in Pet /\ start \in Nat /\ s.ageMinutes \in Nat /\ s.lastSeenAt \in Nat
    BY DEF HasLived, IsSound, Pet
  <1>2. m \in Nat /\ start = m * Minute
    BY <1>1, WholeMinutes
  <1>3. elapsed \in Int /\ elapsed * Minute <= now - start
    BY <1>1, MinutesPassed
  <1>4. t = IF IsDead(s) \/ elapsed <= 0 THEN s ELSE [r EXCEPT !.lastTickAt = ticked]
    BY DEF Tick
  <1> HIDE DEF r
  <1>5. CASE IsDead(s) \/ elapsed <= 0
    <2>1. t = s
      BY <1>4, <1>5
    <2> QED BY <1>1, <2>1 DEF MovesOn
  <1>6. CASE ~(IsDead(s) \/ elapsed <= 0)
    <2>1. elapsed \in Nat /\ elapsed > 0
      BY <1>3, <1>6
    <2>2. (m + elapsed) * Minute = m * Minute + elapsed * Minute
      BY <1>2, <2>1, EngineAssumption
    <2>3. m + elapsed \in Nat /\ ticked = (m + elapsed) * Minute
      BY <1>2, <2>1, <2>2
    <2>4. /\ ticked % Minute = 0 /\ ticked \div Minute = m + elapsed /\ ticked \in Nat
          /\ ticked <= now /\ ticked >= start
      <3>1. ticked % Minute = 0 /\ ticked \div Minute = m + elapsed /\ ticked \in Nat
        BY <2>3, MinutesAreWhole
      <3>2. elapsed * Minute \in Nat
        BY <2>1, MinutesAreWhole
      <3> QED BY <1>1, <1>3, <3>1, <3>2
    <2>5. HasLived(s, m)
      OBVIOUS
    <2>6. r = Replayed(s, start, n, d) /\ n = AtMost(elapsed, MAX_TICK_MINUTES)
      BY DEF r
    <2> HIDE DEF m, n, elapsed
    <2>7. HasLived(r, m + elapsed) /\ Follows(s, r)
      BY <1>1, <1>2, <2>1, <2>5, <2>6, CappedReplayCounts
    <2> HIDE DEF ticked
    <2>8. t = Marked(r, ticked, s.lastSeenAt)
      <3>1. r \in Pet
        BY <2>7 DEF HasLived, IsSound
      <3>2. t = [r EXCEPT !.lastTickAt = ticked]
        BY <1>4, <1>6
      <3>3. r.lastSeenAt = s.lastSeenAt
        BY <2>7 DEF Follows
      <3> QED BY <3>1, <3>2, <3>3 DEF Pet, Marked
    <2>9. /\ HasLived(t, m + elapsed) /\ IsLike(r, t)
          /\ t.lastTickAt = ticked /\ t.lastSeenAt = s.lastSeenAt
      <3>1. ticked \in Nat /\ s.lastSeenAt \in Nat /\ r \in Pet
        BY <1>1, <2>4, <2>7 DEF HasLived, IsSound
      <3>2. HasLived(t, m + elapsed) /\ IsLike(r, t)
        BY <2>7, <2>8, <3>1, MarkedHasLived
      <3> QED BY <2>8, <3>1, <3>2, MarkedFields
    <2>10. MovesOn(s, t)
      BY <2>4, <2>7, <2>9 DEF MovesOn, Follows, IsLike
    <2> QED BY <2>4, <2>7, <2>9, <2>10 DEF Follows, IsLike
  <1> QED BY <1>5, <1>6

---------------------------------------------------------------------------
(* The owner's actions change no counter of time, and nothing of an egg.   *)
LEMMA ActKeepsTime ==
    ASSUME NEW s \in Pet, NEW now, Act(s, now)
    PROVE  /\ pet'.form = s.form /\ pet'.ageMinutes = s.ageMinutes
           /\ pet'.stageMinutes = s.stageMinutes /\ pet'.cause = s.cause
           /\ pet'.lastTickAt = s.lastTickAt /\ pet'.lastSeenAt = s.lastSeenAt
           /\ IsEgg(s) \/ IsDead(s) => pet' = s
  <1>1. CASE Look(s)
    BY <1>1 DEF Look
  <1>2. CASE Feed(s) \/ PremiumMeat(s)
    BY <1>2 DEF Feed, PremiumMeat, Fed, IsGrown, Pet
  <1>3. CASE Vitamin(s) \/ Protein(s)
    BY <1>3 DEF Vitamin, Protein, Strengthened, IsGrown, Pet
  <1>4. CASE Train(s, now)
    BY <1>4 DEF Train, Strengthened, IsGrown, Pet
  <1>5. CASE Clean(s) \/ Medicine(s)
    BY <1>5 DEF Clean, Medicine, IsGrown, Pet
  <1>6. CASE Battle(s) \/ Skip(s)
    BY <1>6 DEF Battle, Skip, CanAdventure, IsGrown, Pet
  <1>7. CASE Explore(s) \/ Claim(s)
    BY <1>7 DEF Explore, Claim, IsGrown, Pet
  <1>8. CASE TrainingManual(s) \/ RefillStamina(s)
    BY <1>8 DEF TrainingManual, RefillStamina, IsGrown, Pet
  <1>9. CASE Minigame(s, now)
    BY <1>9 DEF Minigame, IsGrown, Pet
  <1> QED BY <1>1, <1>2, <1>3, <1>4, <1>5, <1>6, <1>7, <1>8, <1>9 DEF Act

LEMMA ActCountsNothing ==
    ASSUME NEW s, NEW m, HasLived(s, m), s.cause = "none", NEW now \in Nat, Act(s, now)
    PROVE  HasLived(pet', m)
  <1>1. IsSound(s) /\ s \in Pet
    BY DEF HasLived, IsSound
  <1>2. IsSound(pet')
    BY <1>1, ActIsSound
  <1>3. /\ pet'.form = s.form /\ pet'.ageMinutes = s.ageMinutes
        /\ pet'.stageMinutes = s.stageMinutes /\ pet'.cause = s.cause
        /\ IsEgg(s) => pet' = s
    BY <1>1, ActKeepsTime
  <1> QED BY <1>2, <1>3 DEF HasLived, IsEgg

---------------------------------------------------------------------------

LEMMA InitKInv == Init => KInv
  <1> SUFFICES ASSUME Init PROVE KInv
    OBVIOUS
  <1>1. /\ pet = NewEgg(0) /\ clock = 0 /\ drain \in Drains /\ requests = 0
        /\ MAX_CLOCK \in Nat /\ MAX_REQUESTS \in Nat
    BY KeepingAssumption DEF Init
  <1>2. IsSound(pet)
    BY <1>1, EggIsSound
  <1>3. /\ pet.form = Egg /\ pet.cause = "none" /\ pet.ageMinutes = 0 /\ pet.mistakes = 0
        /\ pet.trained = 0 /\ pet.wins = 0 /\ pet.stageMinutes = 0 /\ pet.lastTickAt = 0
    BY <1>1 DEF NewEgg
  <1>4. 0 \div Minute = 0 /\ 0 % Minute = 0
    BY EngineAssumption
  <1>5. HasLived(pet, 0)
    BY <1>2, <1>3, EggFacts DEF HasLived, IsEgg
  <1> QED BY <1>1, <1>3, <1>4, <1>5 DEF KInv

(* What a request finds, and what it leaves. *)
LEMMA RequestKeepsKInv ==
    ASSUME KInv, Request
    PROVE  KInv' /\ MovesOn(pet, pet')
  <1>1. /\ HasLived(pet, pet.lastTickAt \div Minute) /\ pet.lastTickAt <= clock
        /\ pet.lastTickAt % Minute = 0 /\ clock \in 0..MAX_CLOCK /\ drain \in Drains
        /\ requests \in 0..MAX_REQUESTS /\ MAX_CLOCK \in Nat /\ MAX_REQUESTS \in Nat
    BY KeepingAssumption DEF KInv
  <1>2. PICK lag \in 0..MAX_LAG : lag <= clock /\ Act(Loaded(clock - lag), clock - lag)
    BY DEF Request
  <1>3. requests < MAX_REQUESTS /\ requests' = requests + 1 /\ clock' = clock /\ drain' = drain
    BY DEF Request
  <1> DEFINE now == clock - lag
             t == Tick(pet, now, drain)
             s == Loaded(now)
  <1>4. now \in Nat /\ now <= clock
    BY <1>1, <1>2, KeepingAssumption
  <1>5. /\ HasLived(t, t.lastTickAt \div Minute) /\ t.lastTickAt % Minute = 0
        /\ t.lastTickAt <= now \/ t.lastTickAt = pet.lastTickAt
        /\ MovesOn(pet, t)
        /\ IsDecided(pet) => IsDecided(t)
    <2>1. now \in Int
      BY <1>4
    <2> HIDE DEF now
    <2> QED BY <1>1, <2>1, TickCounts
  <1> DEFINE m == t.lastTickAt \div Minute
  <1>6. t \in Pet /\ t.lastTickAt \in Nat /\ t.ageMinutes \in Nat /\ pet.ageMinutes \in Nat
        /\ pet.lastTickAt \in Nat
    BY <1>1, <1>5 DEF HasLived, IsSound, Pet
  <1>7. s = [t EXCEPT !.lastSeenAt = now]
    BY DEF Loaded
  <1>8. Act(s, now)
    BY <1>2
  <1> HIDE DEF now, t, s
  <1>9. s = Marked(t, t.lastTickAt, now)
    BY <1>6, <1>7 DEF Pet, Marked
  <1>10. HasLived(s, m) /\ IsLike(t, s) /\ s.lastTickAt = t.lastTickAt
    <2>1. HasLived(t, m)
      BY <1>5
    <2> HIDE DEF m
    <2>2. HasLived(s, m) /\ IsLike(t, s)
      BY <1>4, <1>6, <1>9, <2>1, MarkedHasLived
    <2>3. s.lastTickAt = t.lastTickAt
      BY <1>6, <1>9, MarkedFields
    <2> QED BY <2>2, <2>3
  <1> HIDE DEF m
  <1>11. s \in Pet
    BY <1>10 DEF HasLived, IsSound
  <1>12. /\ pet'.form = s.form /\ pet'.ageMinutes = s.ageMinutes
         /\ pet'.lastTickAt = s.lastTickAt
         /\ IsDead(s) => pet' = s
    BY <1>8, <1>11, ActKeepsTime
  <1>13. HasLived(pet', m)
    <2>1. CASE s.cause = "none"
      BY <1>4, <1>8, <1>10, <2>1, ActCountsNothing
    <2>2. CASE s.cause # "none"
      BY <1>10, <1>12, <2>2 DEF IsDead
    <2> QED BY <2>1, <2>2
  <1>14. /\ pet'.lastTickAt = t.lastTickAt /\ pet'.ageMinutes = t.ageMinutes
         /\ pet'.form = t.form
    BY <1>10, <1>12 DEF IsLike
  <1>15. MovesOn(pet, pet')
    BY <1>5, <1>14 DEF MovesOn
  <1>16. HasLived(pet', pet'.lastTickAt \div Minute)
    BY <1>13, <1>14 DEF m
  <1>17. pet'.lastTickAt <= clock' /\ pet'.lastTickAt % Minute = 0
    BY <1>1, <1>3, <1>4, <1>5, <1>6, <1>14
  <1>18. clock' \in 0..MAX_CLOCK /\ drain' \in Drains /\ requests' \in 0..MAX_REQUESTS
    BY <1>1, <1>3
  <1> QED BY <1>15, <1>16, <1>17, <1>18 DEF KInv

LEMMA NextKeepsKInv ==
    ASSUME KInv, [Next]_vars
    PROVE  KInv' /\ MovesOn(pet, pet')
  <1>1. pet.lastTickAt \in Nat /\ pet.ageMinutes \in Nat
    BY DEF KInv, HasLived, IsSound, Pet
  <1>2. MovesOn(pet, pet)
    BY <1>1 DEF MovesOn
  <1>3. CASE Request
    BY <1>3, RequestKeepsKInv
  <1>4. CASE Pass
    <2>1. /\ clock' = clock + 1 /\ clock < MAX_CLOCK /\ pet' = pet /\ drain' = drain
          /\ requests' = requests /\ MAX_CLOCK \in Nat
      BY <1>4, KeepingAssumption DEF Pass
    <2>2. clock' \in 0..MAX_CLOCK /\ pet.lastTickAt <= clock'
      BY <1>1, <2>1 DEF KInv
    <2> QED BY <1>2, <2>1, <2>2 DEF KInv
  <1>5. CASE Allocate
    BY <1>2, <1>5 DEF Allocate, KInv
  <1>6. CASE UNCHANGED vars
    BY <1>2, <1>6 DEF vars, KInv
  <1> QED BY <1>3, <1>4, <1>5, <1>6 DEF Next

(* Always: what every state of a kept monster satisfies. *)
LEMMA KeptKInv == Spec => []KInv
  BY InitKInv, NextKeepsKInv, PTL DEF Spec

(* Every field of a row stays within its bounds. *)
THEOREM KeepingTypeOK == Spec => []TypeOK
  <1>1. KInv => TypeOK
    BY DEF KInv, HasLived, IsSound, TypeOK
  <1> QED BY <1>1, KeptKInv, PTL

(* No monster is found collecting while sick, hungry or beyond its time,   *)
(* however late the minutes are replayed (simulation.ts:246-256).          *)
THEOREM KeepingExplorersAreWell == Spec => []ExplorersAreWell
  <1>1. KInv => ExplorersAreWell
    BY DEF KInv, HasLived, IsSound, ExplorersAreWell
  <1> QED BY <1>1, KeptKInv, PTL

(* Every death that is found has exactly the cause recorded, at exactly    *)
(* its limit (simulation.ts:215-244).                                      *)
THEOREM KeepingDeathsAreExplained == Spec => []DeathsAreExplained
  <1>1. KInv => DeathsAreExplained
    BY DEF KInv, HasLived, IsSound, DeathsAreExplained
  <1> QED BY <1>1, KeptKInv, PTL

(* The cap of one tick never loses a minute of a living monster            *)
(* (monster-rules.ts:97-98).                                               *)
THEOREM KeepingCapNeverBites == Spec => []CapNeverBites
  <1>1. KInv => CapNeverBites
    <2> SUFFICES ASSUME KInv, pet.cause = "none", NEW d \in Drains
                 PROVE  IsDead(Tick(pet, pet.lastTickAt + MAX_TICK_MINUTES * Minute, d))
      BY DEF CapNeverBites, IsDead
    <2> DEFINE start == pet.lastTickAt
               m == start \div Minute
               now == start + MAX_TICK_MINUTES * Minute
               r == Replayed(pet, start, MAX_TICK_MINUTES, d)
    <2>1. HasLived(pet, m) /\ start % Minute = 0 /\ start \in Nat /\ m \in Nat
      <3>1. HasLived(pet, m) /\ start % Minute = 0
        BY DEF KInv
      <3>2. start \in Nat
        BY <3>1 DEF HasLived, IsSound, Pet
      <3> QED BY <3>1, <3>2, WholeMinutes
    <2>2. /\ MAX_TICK_MINUTES \in Nat /\ MAX_TICK_MINUTES > 0
          /\ MAX_TICK_MINUTES * Minute \in Nat
          /\ (MAX_TICK_MINUTES * Minute) \div Minute = MAX_TICK_MINUTES
      BY EggFacts, MinutesAreWhole
    <2>3. now - start = MAX_TICK_MINUTES * Minute
      BY <2>1, <2>2
    <2>4. (now - start) \div Minute = MAX_TICK_MINUTES
      BY <2>2, <2>3
    <2>5. AtMost(MAX_TICK_MINUTES, MAX_TICK_MINUTES) = MAX_TICK_MINUTES
      BY DEF AtMost
    <2> HIDE DEF now
    <2>6. Tick(pet, now, d)
            = [r EXCEPT !.lastTickAt = start + MAX_TICK_MINUTES * Minute]
      BY <2>2, <2>4, <2>5 DEF Tick, IsDead
    <2>7. HasLived(r, m + MAX_TICK_MINUTES)
      <3>1. r = Replayed(pet, start, MAX_TICK_MINUTES, d)
        OBVIOUS
      <3> HIDE DEF r, start, m
      <3> QED BY <2>1, <2>2, <3>1, ReplayedCounts
    <2> HIDE DEF r
    <2>8. r.cause # "none"
      <3>1. m + MAX_TICK_MINUTES \in Nat /\ m + MAX_TICK_MINUTES >= MAX_TICK_MINUTES
        BY <2>1, <2>2
      <3> HIDE DEF m
      <3> QED BY <2>7, <3>1, NobodyLivesSoLong
    <2>9. Tick(pet, now, d).cause = r.cause
      BY <2>6
    <2> QED BY <2>8, <2>9 DEF now, IsDead
  <1> QED BY <1>1, KeptKInv, PTL

(* However the requests fall between the minutes, and however old their    *)
(* `now`: no minute is lost or lived twice, no life is rewound, and no     *)
(* form is decided twice (simulation.ts:172-174, 267-268).                 *)
THEOREM KeepingLifeMovesOn == Spec => LifeMovesOn
  <1>1. ASSUME KInv, [Next]_vars
        PROVE  [NoMinuteLost' /\ NeverRewound /\ DecidedOnce]_vars
    <2>1. KInv' /\ MovesOn(pet, pet')
      BY <1>1, NextKeepsKInv
    <2>2. NoMinuteLost'
      <3>1. EggMinutes = STAGE_DURATION_MINUTES[Stage[Egg]]
        BY EggFacts DEF EggMinutes
      <3> QED BY <2>1, <3>1 DEF KInv, HasLived, NoMinuteLost, IsDead
    <2>3. NeverRewound /\ DecidedOnce
      BY <2>1 DEF MovesOn, IsDecided, NeverRewound, DecidedOnce
    <2> QED BY <2>2, <2>3
  <1> QED BY <1>1, KeptKInv, PTL DEF Spec, LifeMovesOn

---------------------------------------------------------------------------
(* Keeping implements living in real time, as long as requests are not     *)
(* held up (MAX_LAG) and the owner's rates do not change.                  *)

(* A minute does not depend on when the monster was last ticked. *)
Ticked(s, at) == [s EXCEPT !.lastTickAt = at]

LEMMA TickedFields ==
    ASSUME NEW s \in Pet, NEW x
    PROVE  /\ Ticked(s, x).form = s.form /\ Ticked(s, x).fullness = s.fullness
           /\ Ticked(s, x).strength = s.strength /\ Ticked(s, x).stamina = s.stamina
           /\ Ticked(s, x).poops = s.poops /\ Ticked(s, x).sick = s.sick
           /\ Ticked(s, x).mistakes = s.mistakes /\ Ticked(s, x).trained = s.trained
           /\ Ticked(s, x).wins = s.wins /\ Ticked(s, x).poopMinutes = s.poopMinutes
           /\ Ticked(s, x).hungryMinutes = s.hungryMinutes
           /\ Ticked(s, x).weakMinutes = s.weakMinutes /\ Ticked(s, x).sickMinutes = s.sickMinutes
           /\ Ticked(s, x).stageMinutes = s.stageMinutes /\ Ticked(s, x).ageMinutes = s.ageMinutes
           /\ Ticked(s, x).lastTickAt = x /\ Ticked(s, x).lastSeenAt = s.lastSeenAt
           /\ Ticked(s, x).area = s.area /\ Ticked(s, x).explored = s.explored
           /\ Ticked(s, x).returned = s.returned
           /\ Ticked(s, x).cause = s.cause /\ Ticked(s, x).diedAt = s.diedAt
  BY DEF Ticked, Pet

(* All that a minute changes, to the values in c. *)
Changes(s, c) ==
    [s EXCEPT
       !.ageMinutes = c.ageMinutes, !.stamina = c.stamina, !.fullness = c.fullness,
       !.strength = c.strength, !.poopMinutes = c.poopMinutes, !.poops = c.poops,
       !.hungryMinutes = c.hungryMinutes, !.weakMinutes = c.weakMinutes,
       !.mistakes = c.mistakes, !.sick = c.sick, !.sickMinutes = c.sickMinutes,
       !.explored = c.explored, !.returned = c.returned, !.cause = c.cause,
       !.diedAt = c.diedAt]

LEMMA ChangesIgnoreTick ==
    ASSUME NEW s \in Pet, NEW x \in Nat, NEW c
    PROVE  Changes(Ticked(s, x), c) = Ticked(Changes(s, c), x)
  <1> DEFINE t == Ticked(s, x)
             v == Changes(s, c)
             w == Changes(t, c)
  <1>1. v = [s EXCEPT
       !.ageMinutes = c.ageMinutes, !.stamina = c.stamina, !.fullness = c.fullness,
       !.strength = c.strength, !.poopMinutes = c.poopMinutes, !.poops = c.poops,
       !.hungryMinutes = c.hungryMinutes, !.weakMinutes = c.weakMinutes,
       !.mistakes = c.mistakes, !.sick = c.sick, !.sickMinutes = c.sickMinutes,
       !.explored = c.explored, !.returned = c.returned, !.cause = c.cause,
       !.diedAt = c.diedAt]
    BY DEF Changes
  <1>2. t = [s EXCEPT !.lastTickAt = x]
    BY DEF Ticked
  <1>3. w = [t EXCEPT
       !.ageMinutes = c.ageMinutes, !.stamina = c.stamina, !.fullness = c.fullness,
       !.strength = c.strength, !.poopMinutes = c.poopMinutes, !.poops = c.poops,
       !.hungryMinutes = c.hungryMinutes, !.weakMinutes = c.weakMinutes,
       !.mistakes = c.mistakes, !.sick = c.sick, !.sickMinutes = c.sickMinutes,
       !.explored = c.explored, !.returned = c.returned, !.cause = c.cause,
       !.diedAt = c.diedAt]
    BY DEF Changes
  <1>4. Ticked(v, x) = [v EXCEPT !.lastTickAt = x]
    BY DEF Ticked
  <1> HIDE DEF t, v, w
  <1>5. t \in Pet
    BY <1>2 DEF Pet
  <1>6. v =
          [form |-> s.form, fullness |-> c.fullness, strength |-> c.strength,
           stamina |-> c.stamina, poops |-> c.poops, sick |-> c.sick,
           mistakes |-> c.mistakes, trained |-> s.trained, wins |-> s.wins,
           poopMinutes |-> c.poopMinutes, hungryMinutes |-> c.hungryMinutes,
           weakMinutes |-> c.weakMinutes, sickMinutes |-> c.sickMinutes,
           stageMinutes |-> s.stageMinutes, ageMinutes |-> c.ageMinutes,
           lastTickAt |-> s.lastTickAt, lastSeenAt |-> s.lastSeenAt,
           lastTrainedAt |-> s.lastTrainedAt, lastMinigameAt |-> s.lastMinigameAt,
           area |-> s.area, explored |-> c.explored, returned |-> c.returned,
           cause |-> c.cause, diedAt |-> c.diedAt]
    BY <1>1 DEF Pet
  <1>7. w =
          [form |-> t.form, fullness |-> c.fullness, strength |-> c.strength,
           stamina |-> c.stamina, poops |-> c.poops, sick |-> c.sick,
           mistakes |-> c.mistakes, trained |-> t.trained, wins |-> t.wins,
           poopMinutes |-> c.poopMinutes, hungryMinutes |-> c.hungryMinutes,
           weakMinutes |-> c.weakMinutes, sickMinutes |-> c.sickMinutes,
           stageMinutes |-> t.stageMinutes, ageMinutes |-> c.ageMinutes,
           lastTickAt |-> t.lastTickAt, lastSeenAt |-> t.lastSeenAt,
           lastTrainedAt |-> t.lastTrainedAt, lastMinigameAt |-> t.lastMinigameAt,
           area |-> t.area, explored |-> c.explored, returned |-> c.returned,
           cause |-> c.cause, diedAt |-> c.diedAt]
    BY <1>3, <1>5 DEF Pet
  <1>8. /\ t.form = s.form /\ t.trained = s.trained /\ t.wins = s.wins
        /\ t.stageMinutes = s.stageMinutes /\ t.lastTickAt = x /\ t.lastSeenAt = s.lastSeenAt
        /\ t.lastTrainedAt = s.lastTrainedAt /\ t.lastMinigameAt = s.lastMinigameAt
        /\ t.area = s.area
    BY <1>2 DEF Pet
  <1>9. w =
          [form |-> s.form, fullness |-> c.fullness, strength |-> c.strength,
           stamina |-> c.stamina, poops |-> c.poops, sick |-> c.sick,
           mistakes |-> c.mistakes, trained |-> s.trained, wins |-> s.wins,
           poopMinutes |-> c.poopMinutes, hungryMinutes |-> c.hungryMinutes,
           weakMinutes |-> c.weakMinutes, sickMinutes |-> c.sickMinutes,
           stageMinutes |-> s.stageMinutes, ageMinutes |-> c.ageMinutes, lastTickAt |-> x,
           lastSeenAt |-> s.lastSeenAt, lastTrainedAt |-> s.lastTrainedAt,
           lastMinigameAt |-> s.lastMinigameAt, area |-> s.area, explored |-> c.explored,
           returned |-> c.returned, cause |-> c.cause, diedAt |-> c.diedAt]
    BY <1>7, <1>8
  <1>10. w = [v EXCEPT !.lastTickAt = x]
    BY <1>6, <1>9
  <1> QED BY <1>4, <1>10 DEF t, v, w

LEMMA LivedIgnoresTick ==
    ASSUME NEW s \in Pet, NEW x \in Nat, NEW d \in Drains, NEW online, NEW at
    PROVE  Lived(Ticked(s, x), online, d, at) = Ticked(Lived(s, online, d, at), x)
  <1> DEFINE t == Ticked(s, x)
  <1>1. /\ t.form = s.form /\ t.fullness = s.fullness /\ t.strength = s.strength
        /\ t.poops = s.poops /\ t.sick = s.sick /\ t.mistakes = s.mistakes
        /\ t.poopMinutes = s.poopMinutes /\ t.hungryMinutes = s.hungryMinutes
        /\ t.weakMinutes = s.weakMinutes /\ t.sickMinutes = s.sickMinutes
        /\ t.ageMinutes = s.ageMinutes /\ t.area = s.area /\ t.explored = s.explored
        /\ t.returned = s.returned /\ t.stamina = s.stamina /\ t.diedAt = s.diedAt
    BY TickedFields
  <1>0. t = [s EXCEPT !.lastTickAt = x]
    BY DEF Ticked
  <1> HIDE DEF t
  <1>2. Away(t) = Away(s) /\ IsExploring(t) = IsExploring(s)
    BY <1>1 DEF Away, IsExploring
  <1>3. Fullness(t, d) = Fullness(s, d) /\ Strength(t) = Strength(s)
    BY <1>1, <1>2 DEF Fullness, Strength
  <1>4. PoopMinutes(t) = PoopMinutes(s) /\ IsPooping(t, d) = IsPooping(s, d)
    BY <1>1, <1>2 DEF PoopMinutes, IsPooping
  <1>5. Poops(t, d) = Poops(s, d)
    BY <1>1, <1>4 DEF Poops
  <1>6. HungryMinutes(t, d) = HungryMinutes(s, d) /\ Starves(t, d) = Starves(s, d)
    BY <1>1, <1>3 DEF HungryMinutes, Starves
  <1>7. FallsSick(t, d) = FallsSick(s, d) /\ IsSick(t, d) = IsSick(s, d)
    BY <1>1, <1>5, <1>6 DEF FallsSick, IsSick
  <1>8. WeakMinutes(t, d) = WeakMinutes(s, d)
    BY <1>1, <1>3, <1>6 DEF WeakMinutes
  <1>9. SickMinutes(t, d) = SickMinutes(s, d)
    BY <1>1, <1>6, <1>7 DEF SickMinutes
  <1>10. Mistakes(t, d) = Mistakes(s, d)
    BY <1>1, <1>6, <1>8 DEF Mistakes
  <1>11. DeathCause(t, d) = DeathCause(s, d)
    BY <1>1, <1>6, <1>7, <1>9 DEF DeathCause
  <1>12. IsUnwell(t, d) = IsUnwell(s, d) /\ IsOut(t, d) = IsOut(s, d)
    BY <1>2, <1>3, <1>7, <1>11 DEF IsUnwell, IsOut
  <1>13. Explored(t, d) = Explored(s, d)
    BY <1>1, <1>12 DEF Explored
  <1>14. Returns(t, d) = Returns(s, d)
    BY <1>12, <1>13 DEF Returns
  <1> DEFINE c ==
               [ageMinutes |-> s.ageMinutes + 1,
                stamina |-> AtMost(s.stamina + (IF online THEN 2 ELSE 1) * STAMINA_REGEN,
                                   MAX_STAMINA),
                fullness |-> Fullness(s, d), strength |-> Strength(s),
                poopMinutes |-> IF IsPooping(s, d) THEN 0 ELSE PoopMinutes(s),
                poops |-> Poops(s, d), hungryMinutes |-> HungryMinutes(s, d),
                weakMinutes |-> WeakMinutes(s, d), mistakes |-> Mistakes(s, d),
                sick |-> IsSick(s, d), sickMinutes |-> SickMinutes(s, d),
                explored |-> Explored(s, d), returned |-> s.returned \/ Returns(s, d),
                cause |-> DeathCause(s, d),
                diedAt |-> IF DeathCause(s, d) = "none" THEN s.diedAt ELSE at]
  <1>15. Lived(s, online, d, at) = Changes(s, c)
    BY DEF Lived, Changes
  <1>16. Lived(t, online, d, at) = Changes(t, c)
    BY <1>1, <1>3, <1>4, <1>5, <1>6, <1>7, <1>8, <1>9, <1>10, <1>11, <1>13, <1>14
       DEF Lived, Changes
  <1> HIDE DEF c
  <1> QED BY <1>15, <1>16, ChangesIgnoreTick DEF t

(* Step's count of the stage, and its evolution, likewise. *)
Staged(s, n) == [s EXCEPT !.stageMinutes = n]

LEMMA StagedIgnoresTick ==
    ASSUME NEW s \in Pet, NEW x, NEW n
    PROVE  Staged(Ticked(s, x), n) = Ticked(Staged(s, n), x)
  BY DEF Staged, Ticked, Pet

Formed(s, form) ==
    [s EXCEPT !.form = form, !.mistakes = 0, !.trained = 0, !.stageMinutes = 0]

Hatched(s) == [s EXCEPT !.fullness = HATCH_FULLNESS, !.strength = HATCH_STRENGTH]

LEMMA FormedIgnoresTick ==
    ASSUME NEW s \in Pet, NEW x, NEW form
    PROVE  Formed(Ticked(s, x), form) = Ticked(Formed(s, form), x)
  BY DEF Formed, Ticked, Pet

LEMMA HatchedIgnoresTick ==
    ASSUME NEW s \in Pet, NEW x, NEW form
    PROVE  Hatched(Formed(Ticked(s, x), form)) = Ticked(Hatched(Formed(s, form)), x)
  BY DEF Hatched, Formed, Ticked, Pet

LEMMA EvolvedIgnoresTick ==
    ASSUME NEW s \in Pet, NEW x
    PROVE  Evolved(Ticked(s, x)) = Ticked(Evolved(s), x) /\ RulesMet(Ticked(s, x)) = RulesMet(s)
  <1> DEFINE t == Ticked(s, x)
  <1>1. t.form = s.form /\ t.mistakes = s.mistakes /\ t.trained = s.trained /\ t.wins = s.wins
    BY TickedFields
  <1> HIDE DEF t
  <1>2. RulesMet(t) = RulesMet(s) /\ IsEgg(t) = IsEgg(s)
    BY <1>1 DEF RulesMet, IsEvolutionRuleMet, IsEgg
  <1>3. NextForm(t) = NextForm(s)
    BY <1>1, <1>2 DEF NextForm
  <1>4. Evolved(s) = IF IsEgg(s) THEN Hatched(Formed(s, NextForm(s))) ELSE Formed(s, NextForm(s))
    BY DEF Evolved, Hatched, Formed
  <1>5. Evolved(t) = IF IsEgg(s) THEN Hatched(Formed(t, NextForm(s))) ELSE Formed(t, NextForm(s))
    BY <1>2, <1>3 DEF Evolved, Hatched, Formed
  <1>6. /\ Formed(t, NextForm(s)) = Ticked(Formed(s, NextForm(s)), x)
        /\ Hatched(Formed(t, NextForm(s))) = Ticked(Hatched(Formed(s, NextForm(s))), x)
    BY FormedIgnoresTick, HatchedIgnoresTick DEF t
  <1> QED BY <1>2, <1>4, <1>5, <1>6 DEF t

LEMMA StepIgnoresTick ==
    ASSUME NEW s, IsSound(s), s.cause = "none", NEW x \in Nat, NEW d \in Drains, NEW at \in Nat
    PROVE  Step(Ticked(s, x), at, d) = Ticked(Step(s, at, d), x)
  <1> DEFINE online == IsOnlineAt(s, at)
             gain == IF online THEN 2 ELSE 1
             t == Ticked(s, x)
             a == IF IsEgg(s) THEN s ELSE Lived(s, online, d, at)
             b == IF IsEgg(t) THEN t ELSE Lived(t, online, d, at)
  <1>1. /\ s \in Pet /\ online \in BOOLEAN
        /\ ExplorerIsWell(s) /\ DeathIsExplained(s)
    BY DEF IsSound, IsOnlineAt
  <1>2. /\ t.form = s.form /\ t.stageMinutes = s.stageMinutes /\ t.lastSeenAt = s.lastSeenAt
    BY <1>1, TickedFields
  <1> HIDE DEF t
  <1>3. IsOnlineAt(t, at) = online /\ IsEgg(t) = IsEgg(s)
    BY <1>2 DEF IsOnlineAt, IsEgg
  <1> HIDE DEF online
  <1>4. a \in Pet /\ b = Ticked(a, x) /\ a.stageMinutes = s.stageMinutes
    <2>1. CASE IsEgg(s)
      BY <1>1, <1>3, <2>1 DEF t
    <2>2. CASE ~IsEgg(s)
      <3>1. Lived(s, online, d, at) \in Pet
        BY <1>1, <2>2, LivedFields
      <3>2. Lived(t, online, d, at) = Ticked(Lived(s, online, d, at), x)
        BY <1>1, LivedIgnoresTick DEF t
      <3>3. Lived(s, online, d, at).stageMinutes = s.stageMinutes
        BY <1>1, LivedAges
      <3> QED BY <1>3, <2>2, <3>1, <3>2, <3>3
    <2> QED BY <2>1, <2>2
  <1> HIDE DEF a, b
  <1>5. b.cause = a.cause /\ b.stageMinutes = a.stageMinutes
    BY <1>4, TickedFields
  <1>6. Evolved(b) = Ticked(Evolved(a), x) /\ RulesMet(b) = RulesMet(a)
    BY <1>4, EvolvedIgnoresTick
  <1>7. IsStageTimeUp(t, gain) = IsStageTimeUp(s, gain)
    BY <1>2 DEF IsStageTimeUp
  <1>8. Staged(b, a.stageMinutes + gain) = Ticked(Staged(a, a.stageMinutes + gain), x)
    BY <1>4, StagedIgnoresTick
  <1>9. Step(s, at, d) = IF IsStageTimeUp(s, gain) /\ ~IsDead(a) /\ RulesMet(a) # {}
                         THEN Evolved(a) ELSE Staged(a, a.stageMinutes + gain)
    BY DEF Step, Staged, a, online
  <1>10. Step(t, at, d) = IF IsStageTimeUp(t, gain) /\ ~IsDead(b) /\ RulesMet(b) # {}
                          THEN Evolved(b) ELSE Staged(b, b.stageMinutes + gain)
    <2>1. Step(t, at, d) = IF IsStageTimeUp(t, IF IsOnlineAt(t, at) THEN 2 ELSE 1)
                                /\ ~IsDead(IF IsEgg(t) THEN t ELSE Lived(t, IsOnlineAt(t, at), d, at))
                                /\ RulesMet(IF IsEgg(t) THEN t ELSE Lived(t, IsOnlineAt(t, at), d, at)) # {}
                           THEN Evolved(IF IsEgg(t) THEN t ELSE Lived(t, IsOnlineAt(t, at), d, at))
                           ELSE Staged(IF IsEgg(t) THEN t ELSE Lived(t, IsOnlineAt(t, at), d, at),
                                       (IF IsEgg(t) THEN t ELSE Lived(t, IsOnlineAt(t, at), d, at)).stageMinutes
                                       + (IF IsOnlineAt(t, at) THEN 2 ELSE 1))
      BY DEF Step, Staged
    <2> QED BY <1>3, <2>1 DEF b
  <1>11. IsDead(b) = IsDead(a)
    BY <1>5 DEF IsDead
  <1> HIDE DEF gain
  <1> QED BY <1>5, <1>6, <1>7, <1>8, <1>9, <1>10, <1>11 DEF t

---------------------------------------------------------------------------
(* A replay of one minute more lives through the same minutes before it.   *)
LEMMA ReplayTablesAgree ==
    ASSUME NEW s, NEW from, NEW d, NEW n \in Nat, NEW k \in 0..n
    PROVE  ReplayTable(s, from, n + 1, d)[k] = ReplayTable(s, from, n, d)[k]
  <1> DEFINE f == ReplayTable(s, from, n, d)
             g == ReplayTable(s, from, n + 1, d)
             T == {j \in 0..n : g[j] # f[j]}
  <1>1. SUFFICES ASSUME T # {} PROVE FALSE
    OBVIOUS
  <1>2. T \subseteq Nat
    OBVIOUS
  <1>3. PICK j \in T : \A i \in T : j <= i
    BY <1>1, <1>2, NatHasLeast
  <1>4. f[0] = s /\ \A i \in 1..n : f[i] = MinuteOf(f[i - 1], from + i * Minute, d)
    BY ReplayRecursion
  <1>5. g[0] = s /\ \A i \in 1..(n + 1) : g[i] = MinuteOf(g[i - 1], from + i * Minute, d)
    BY n + 1 \in Nat, ReplayRecursion
  <1> HIDE DEF f, g
  <1>6. j \in 1..n /\ j \in 1..(n + 1) /\ j - 1 \in 0..n /\ j - 1 \notin T
    BY <1>3, <1>4, <1>5
  <1>7. g[j - 1] = f[j - 1]
    BY <1>6
  <1>8. g[j] = f[j]
    BY <1>4, <1>5, <1>6, <1>7
  <1> QED BY <1>3, <1>8

LEMMA ReplayUnfolds ==
    ASSUME NEW s, NEW from, NEW d, NEW n \in Nat
    PROVE  /\ Replayed(s, from, 0, d) = s
           /\ Replayed(s, from, n + 1, d)
                = MinuteOf(Replayed(s, from, n, d), from + (n + 1) * Minute, d)
  <1>1. ReplayTable(s, from, 0, d)[0] = s
    BY ReplayRecursion
  <1>2. n \in 0..n /\ n + 1 \in Nat /\ n + 1 \in 1..(n + 1) /\ (n + 1) - 1 = n
    OBVIOUS
  <1>3. ReplayTable(s, from, n + 1, d)[n] = ReplayTable(s, from, n, d)[n]
    BY <1>2, ReplayTablesAgree
  <1>4. \A k \in 1..(n + 1) : ReplayTable(s, from, n + 1, d)[k]
           = MinuteOf(ReplayTable(s, from, n + 1, d)[k - 1], from + k * Minute, d)
    BY <1>2, ReplayRecursion
  <1>5. ReplayTable(s, from, n + 1, d)[n + 1]
          = MinuteOf(ReplayTable(s, from, n, d)[n], from + (n + 1) * Minute, d)
    BY <1>2, <1>3, <1>4
  <1> QED BY <1>1, <1>5, ReplayedIsTable

LEMMA TickedTwice ==
    ASSUME NEW s \in Pet, NEW x, NEW y
    PROVE  /\ Ticked(Ticked(s, x), y) = Ticked(s, y)
           /\ Ticked(s, s.lastTickAt) = s
           /\ s.cause # "none" => AtRest(Ticked(s, x)) = AtRest(s)
  BY DEF Ticked, AtRest, IsDead, Pet

LEMMA TickedIsSound ==
    ASSUME NEW s, IsSound(s), NEW x \in Nat
    PROVE  IsSound(Ticked(s, x))
  <1> DEFINE t == Ticked(s, x)
  <1>1. s \in Pet /\ s.lastSeenAt \in Nat
    BY DEF IsSound, Pet
  <1>2. t = [s EXCEPT !.lastTickAt = x, !.lastSeenAt = s.lastSeenAt]
    BY <1>1 DEF Ticked, Pet
  <1> HIDE DEF t
  <1>3. IsSound(t)
    BY <1>1, <1>2, MarkIsSound
  <1> QED BY <1>3 DEF t

(* The minutes in a span. *)
LEMMA WholePart ==
    ASSUME NEW x \in Int, NEW k \in Int, k * Minute <= x, x < (k + 1) * Minute
    PROVE  x \div Minute = k
  <1> DEFINE j == x \div Minute
  <1>1. j \in Int /\ j * Minute <= x /\ x < (j + 1) * Minute
    BY EngineAssumption
  <1> HIDE DEF j
  <1>2. CASE j < k
    <2>1. j + 1 <= k /\ (j + 1) * Minute <= k * Minute
      BY <1>1, <1>2, EngineAssumption
    <2> QED BY <1>1, <2>1, EngineAssumption
  <1>3. CASE j > k
    <2>1. k + 1 <= j /\ (k + 1) * Minute <= j * Minute
      BY <1>1, <1>3, EngineAssumption
    <2> QED BY <1>1, <2>1, EngineAssumption
  <1> QED BY <1>1, <1>2, <1>3 DEF j

(* The next instant completes a minute or it does not. *)
LEMMA MinuteCompletes ==
    ASSUME NEW start \in Nat, start % Minute = 0, NEW now \in Nat, start <= now
    PROVE  LET e == (now - start) \div Minute IN
           /\ e \in Nat
           /\ (now + 1) % Minute = 0 => /\ ((now + 1) - start) \div Minute = e + 1
                                        /\ start + (e + 1) * Minute = now + 1
           /\ (now + 1) % Minute # 0 => ((now + 1) - start) \div Minute = e
  <1> DEFINE e == (now - start) \div Minute
             m == start \div Minute
             q == (now + 1) \div Minute
  <1>1. m \in Nat /\ start = m * Minute
    BY EngineAssumption
  <1>2. q \in Nat /\ (now + 1) % Minute \in 0..(Minute - 1)
        /\ now + 1 = q * Minute + ((now + 1) % Minute)
    BY EngineAssumption
  <1>3. (q - m) * Minute = q * Minute - m * Minute
        /\ (q - m - 1) * Minute = (q - m) * Minute - Minute
        /\ (q - m + 1) * Minute = (q - m) * Minute + Minute
    BY <1>1, <1>2, EngineAssumption
  <1>6. e \in Nat
    BY EngineAssumption
  <1> HIDE DEF m, q
  <1>4. CASE (now + 1) % Minute = 0
    <2>0. now + 1 = q * Minute /\ q * Minute \in Int /\ m * Minute \in Int
      BY <1>1, <1>2, <1>4, EngineAssumption
    <2>1. (now + 1) - start = (q - m) * Minute
      BY <1>1, <1>2, <1>3, <2>0
    <2>2. (now - start) = (q - m) * Minute - 1
      BY <2>1
    <2>3. e = q - m - 1
      <3>1. now - start \in Int /\ q - m - 1 \in Int
        BY <1>1, <1>2
      <3>2. (q - m - 1) * Minute <= now - start
        BY <1>1, <1>2, <1>3, <2>2, EngineAssumption
      <3>3. now - start < ((q - m - 1) + 1) * Minute
        <4>1. (q - m - 1) + 1 = q - m
          BY <1>1, <1>2
        <4> QED BY <1>1, <1>2, <1>3, <2>2, <4>1, EngineAssumption
      <3> QED BY <3>1, <3>2, <3>3, WholePart
    <2>4. ((now + 1) - start) \div Minute = q - m
      <3>1. (now + 1) - start \in Int /\ q - m \in Int
        BY <1>1, <1>2
      <3>3. (now + 1) - start < ((q - m) + 1) * Minute
        BY <1>1, <1>2, <1>3, <2>1, EngineAssumption
      <3> QED BY <2>1, <3>1, <3>3, WholePart
    <2> QED BY <1>1, <1>2, <1>4, <1>6, <2>1, <2>3, <2>4
  <1>5. CASE (now + 1) % Minute # 0
    <2>1. /\ (q - m) * Minute <= now - start
          /\ now - start < ((q - m) + 1) * Minute
          /\ (q - m) * Minute <= (now + 1) - start
          /\ (now + 1) - start < ((q - m) + 1) * Minute
          /\ q - m \in Int /\ now - start \in Int /\ (now + 1) - start \in Int
      BY <1>1, <1>2, <1>3, <1>5, EngineAssumption
    <2>2. (now - start) \div Minute = q - m /\ ((now + 1) - start) \div Minute = q - m
      BY <2>1, WholePart
    <2> QED BY <1>5, <1>6, <2>2
  <1> QED BY <1>4, <1>5, <1>6

(* What a tick makes of a living monster, in terms of the minutes that     *)
(* passed, one or none included.                                           *)
LEMMA TickIsReplay ==
    ASSUME NEW s \in Pet, s.cause = "none", NEW now \in Nat, s.lastTickAt <= now, NEW d,
           NEW e, e = (now - s.lastTickAt) \div Minute
    PROVE  /\ e \in Nat
           /\ Tick(s, now, d) = Ticked(Replayed(s, s.lastTickAt, AtMost(e, MAX_TICK_MINUTES), d),
                                       s.lastTickAt + e * Minute)
  <1>1. s.lastTickAt \in Nat
    BY DEF Pet
  <1>2. e \in Nat
    BY <1>1, EngineAssumption
  <1>3. CASE e = 0
    <2>1. AtMost(e, MAX_TICK_MINUTES) = 0 /\ s.lastTickAt + e * Minute = s.lastTickAt
      BY <1>1, <1>3, EggFacts, EngineAssumption DEF AtMost
    <2>2. Replayed(s, s.lastTickAt, 0, d) = s /\ Ticked(s, s.lastTickAt) = s
      BY <1>2, ReplayUnfolds, TickedTwice
    <2>3. Tick(s, now, d) = s
      BY <1>3 DEF Tick
    <2> QED BY <1>2, <2>1, <2>2, <2>3
  <1>4. CASE e > 0
    <2>1. ~(IsDead(s) \/ e <= 0)
      BY <1>2, <1>4 DEF IsDead
    <2> QED BY <1>2, <2>1 DEF Tick, Ticked
  <1> QED BY <1>2, <1>3, <1>4

(* The monster a request finds, when a new minute is complete. *)
LEMMA TickOneMore ==
    ASSUME NEW s, HasLived(s, s.lastTickAt \div Minute), s.lastTickAt % Minute = 0,
           s.cause = "none", NEW d \in Drains,
           NEW now \in Nat, s.lastTickAt <= now, (now + 1) % Minute = 0,
           NEW t, t = Tick(s, now, d), NEW u, u = Tick(s, now + 1, d)
    PROVE  /\ t.cause = "none" => u = Ticked(Step(t, now + 1, d), now + 1)
           /\ t.cause # "none" => AtRest(u) = AtRest(t)
  <1> DEFINE start == s.lastTickAt
             m == start \div Minute
             e == (now - start) \div Minute
             n == AtMost(e, MAX_TICK_MINUTES)
             r == Replayed(s, start, n, d)
  <1>1. s \in Pet /\ start \in Nat /\ m \in Nat /\ start = m * Minute
    <2>1. s \in Pet /\ start \in Nat
      BY DEF HasLived, IsSound, Pet
    <2> QED BY <2>1, WholeMinutes
  <1>2. ((now + 1) - start) \div Minute = e + 1 /\ e \in Nat /\ start + (e + 1) * Minute = now + 1
    BY <1>1, MinuteCompletes
  <1>3. t = Ticked(r, start + e * Minute)
    BY <1>1, TickIsReplay
  <1>4. u = Ticked(Replayed(s, start, AtMost(e + 1, MAX_TICK_MINUTES), d), now + 1)
    <2>1. now + 1 \in Nat /\ start <= now + 1
      BY <1>1
    <2>2. Tick(s, now + 1, d) = Ticked(Replayed(s, start, AtMost(e + 1, MAX_TICK_MINUTES), d),
                                       start + (e + 1) * Minute)
      BY <1>1, <1>2, <2>1, TickIsReplay
    <2> QED BY <1>2, <2>2
  <1>5. HasLived(r, m + e) /\ r \in Pet
    <2>1. HasLived(s, m) /\ n = AtMost(e, MAX_TICK_MINUTES) /\ r = Replayed(s, start, n, d)
      OBVIOUS
    <2> HIDE DEF m, e, n, r
    <2>2. HasLived(r, m + e)
      BY <1>1, <1>2, <2>1, CappedReplayCounts
    <2> QED BY <2>2 DEF HasLived, IsSound
  <1>6. e < MAX_TICK_MINUTES =>
          Replayed(s, start, AtMost(e + 1, MAX_TICK_MINUTES), d) = MinuteOf(r, now + 1, d)
    <2> SUFFICES ASSUME e < MAX_TICK_MINUTES
                 PROVE  Replayed(s, start, AtMost(e + 1, MAX_TICK_MINUTES), d)
                          = MinuteOf(r, now + 1, d)
      OBVIOUS
    <2>1. AtMost(e + 1, MAX_TICK_MINUTES) = e + 1 /\ n = e
      BY <1>2, EggFacts DEF AtMost
    <2>2. Replayed(s, start, e + 1, d)
            = MinuteOf(Replayed(s, start, e, d), start + (e + 1) * Minute, d)
      BY <1>2, ReplayUnfolds
    <2> QED BY <1>2, <2>1, <2>2
  <1>7. e >= MAX_TICK_MINUTES =>
          /\ AtMost(e + 1, MAX_TICK_MINUTES) = n
          /\ r.cause # "none"
    <2> SUFFICES ASSUME e >= MAX_TICK_MINUTES
                 PROVE  AtMost(e + 1, MAX_TICK_MINUTES) = n /\ r.cause # "none"
      OBVIOUS
    <2>1. AtMost(e + 1, MAX_TICK_MINUTES) = n
      BY <1>2, EggFacts DEF AtMost
    <2>2. m + e \in Nat /\ m + e >= MAX_TICK_MINUTES
      BY <1>1, <1>2, EggFacts
    <2> HIDE DEF m, e, n, r
    <2> QED BY <1>5, <2>1, <2>2, NobodyLivesSoLong
  <1>8. n \in Nat /\ e * Minute \in Nat /\ start + e * Minute \in Nat /\ now + 1 \in Nat
    <2>1. e * Minute \in Nat
      BY <1>2, MinutesAreWhole
    <2> QED BY <1>1, <1>2, <2>1, EggFacts DEF AtMost
  <1> HIDE DEF n, r, e, m, start
  <1>9. t.cause = r.cause
    BY <1>3, <1>5, TickedFields
  <1>10. CASE r.cause = "none"
    <2>1. Replayed(s, start, AtMost(e + 1, MAX_TICK_MINUTES), d) = Step(r, now + 1, d)
      BY <1>2, <1>6, <1>7, <1>10, EggFacts DEF MinuteOf, IsDead
    <2>2. Step(t, now + 1, d) = Ticked(Step(r, now + 1, d), start + e * Minute)
      <3>1. IsSound(r)
        BY <1>5 DEF HasLived
      <3> QED BY <1>3, <1>8, <1>10, <3>1, StepIgnoresTick
    <2>3. Step(r, now + 1, d) \in Pet
      BY <1>5, <1>8, <1>10, StepIsSound DEF HasLived, IsSound
    <2>4. u = Ticked(Step(t, now + 1, d), now + 1)
      BY <1>4, <2>1, <2>2, <2>3, TickedTwice
    <2> QED BY <1>9, <1>10, <2>4
  <1>11. CASE r.cause # "none"
    <2>1. Replayed(s, start, AtMost(e + 1, MAX_TICK_MINUTES), d) = r
      <3>1. CASE e < MAX_TICK_MINUTES
        BY <1>6, <1>11, <3>1 DEF MinuteOf, IsDead
      <3>2. CASE e >= MAX_TICK_MINUTES
        BY <1>7, <3>2 DEF r
      <3> QED BY <1>2, <3>1, <3>2, EggFacts
    <2>2. AtRest(u) = AtRest(r) /\ AtRest(t) = AtRest(r)
      BY <1>3, <1>4, <1>5, <1>11, <2>1, TickedTwice
    <2> QED BY <1>9, <1>11, <2>2
  <1> QED BY <1>10, <1>11

LEMMA TickNoMore ==
    ASSUME NEW s \in Pet, s.lastTickAt % Minute = 0, NEW d,
           NEW now \in Nat, s.lastTickAt <= now, (now + 1) % Minute # 0
    PROVE  Tick(s, now + 1, d) = Tick(s, now, d)
  <1>1. s.lastTickAt \in Nat
    BY DEF Pet
  <1>2. ((now + 1) - s.lastTickAt) \div Minute = (now - s.lastTickAt) \div Minute
    BY <1>1, MinuteCompletes
  <1> QED BY <1>2 DEF Tick

(* Nothing is left to replay after a tick. *)
LEMMA TickIsUpToDate ==
    ASSUME NEW s, HasLived(s, s.lastTickAt \div Minute), s.lastTickAt % Minute = 0,
           NEW now \in Nat, s.lastTickAt <= now, NEW d \in Drains,
           NEW t, t.lastTickAt = Tick(s, now, d).lastTickAt, s.cause = "none"
    PROVE  Tick(t, now, d) = t
  <1> DEFINE start == s.lastTickAt
             e == (now - start) \div Minute
             r == Replayed(s, start, AtMost(e, MAX_TICK_MINUTES), d)
             m == start \div Minute
             n == AtMost(e, MAX_TICK_MINUTES)
  <1>1. s \in Pet /\ start \in Nat /\ m \in Nat
    <2>1. s \in Pet /\ start \in Nat
      BY DEF HasLived, IsSound, Pet
    <2> QED BY <2>1, WholeMinutes
  <1>2. e \in Nat /\ Tick(s, now, d) = Ticked(r, start + e * Minute)
    BY <1>1, TickIsReplay
  <1>3. r \in Pet
    <2>1. HasLived(s, m) /\ n = AtMost(e, MAX_TICK_MINUTES) /\ r = Replayed(s, start, n, d)
      OBVIOUS
    <2> HIDE DEF m, e, n, r
    <2>2. HasLived(r, m + e)
      BY <1>1, <1>2, <2>1, CappedReplayCounts
    <2> QED BY <2>2 DEF HasLived, IsSound
  <1>4. t.lastTickAt = start + e * Minute
    BY <1>2, <1>3, TickedFields
  <1>5. now - start \in Int /\ e * Minute <= now - start /\ now - start < (e + 1) * Minute
    BY <1>1, MinutesPassed
  <1>6. (e + 1) * Minute = e * Minute + Minute /\ e * Minute \in Nat
    BY <1>2, EngineAssumption
  <1> HIDE DEF e, start, r, m, n
  <1>7. (now - t.lastTickAt) \div Minute = 0
    <2>1. now - t.lastTickAt \in Int /\ 0 * Minute <= now - t.lastTickAt
          /\ now - t.lastTickAt < (0 + 1) * Minute
      BY <1>1, <1>4, <1>5, <1>6, EngineAssumption
    <2> QED BY <2>1, WholePart
  <1> QED BY <1>7 DEF Tick

LEMMA DeadAreNotTicked ==
    ASSUME NEW s, s.cause # "none", NEW now, NEW d
    PROVE  Tick(s, now, d) = s
  BY DEF Tick, IsDead

(* What MonsterLife makes of a monster is the same whichever variable      *)
(* holds it.                                                               *)
LEMMA RealTimeOps ==
    /\ RealTime!NewEgg(0) = NewEgg(0)
    /\ \A s : RealTime!IsDead(s) = IsDead(s) /\ RealTime!AtRest(s) = AtRest(s)
  BY DEF RealTime!NewEgg, NewEgg, RealTime!IsDead, IsDead, RealTime!AtRest, AtRest

LEMMA RealTimeMinute ==
    ASSUME NEW s, NEW d, NEW online, NEW at
    PROVE  RealTime!Lived(s, online, d, at) = Lived(s, online, d, at)
  <1>1. RealTime!Away(s) = Away(s) /\ RealTime!IsExploring(s) = IsExploring(s)
    BY DEF RealTime!Away, Away, RealTime!IsExploring, IsExploring
  <1>2. \A a, b : RealTime!AtMost(a, b) = AtMost(a, b)
    BY DEF RealTime!AtMost, AtMost
  <1>3. RealTime!Fullness(s, d) = Fullness(s, d) /\ RealTime!Strength(s) = Strength(s)
    BY <1>1 DEF RealTime!Fullness, Fullness, RealTime!Strength, Strength,
                RealTime!AtLeast0, AtLeast0
  <1>4. RealTime!PoopMinutes(s) = PoopMinutes(s) /\ RealTime!IsPooping(s, d) = IsPooping(s, d)
    BY <1>1 DEF RealTime!PoopMinutes, PoopMinutes, RealTime!IsPooping, IsPooping
  <1>5. RealTime!Poops(s, d) = Poops(s, d)
    BY <1>2, <1>4 DEF RealTime!Poops, Poops
  <1>6. /\ RealTime!HungryMinutes(s, d) = HungryMinutes(s, d)
        /\ RealTime!Starves(s, d) = Starves(s, d)
    BY <1>3 DEF RealTime!HungryMinutes, HungryMinutes, RealTime!Starves, Starves
  <1>7. RealTime!FallsSick(s, d) = FallsSick(s, d) /\ RealTime!IsSick(s, d) = IsSick(s, d)
    BY <1>5, <1>6 DEF RealTime!FallsSick, FallsSick, RealTime!IsSick, IsSick
  <1>8. RealTime!WeakMinutes(s, d) = WeakMinutes(s, d)
    BY <1>3, <1>6 DEF RealTime!WeakMinutes, WeakMinutes
  <1>9. RealTime!SickMinutes(s, d) = SickMinutes(s, d)
    BY <1>6, <1>7 DEF RealTime!SickMinutes, SickMinutes
  <1>10. \A n : RealTime!Mistake(n) = Mistake(n)
    BY DEF RealTime!Mistake, Mistake,
           RealTime!IsNeglectMistakeMinute, IsNeglectMistakeMinute
  <1>11. RealTime!Mistakes(s, d) = Mistakes(s, d)
    BY <1>6, <1>8, <1>10 DEF RealTime!Mistakes, Mistakes
  <1>12. RealTime!DeathCause(s, d) = DeathCause(s, d)
    BY <1>6, <1>7, <1>9 DEF RealTime!DeathCause, DeathCause
  <1>13. RealTime!IsUnwell(s, d) = IsUnwell(s, d) /\ RealTime!IsOut(s, d) = IsOut(s, d)
    BY <1>1, <1>3, <1>7, <1>12 DEF RealTime!IsUnwell, IsUnwell, RealTime!IsOut, IsOut
  <1>14. RealTime!Explored(s, d) = Explored(s, d)
    BY <1>13 DEF RealTime!Explored, Explored
  <1>15. RealTime!Returns(s, d) = Returns(s, d)
    BY <1>13, <1>14 DEF RealTime!Returns, Returns
  <1> QED BY <1>2, <1>3, <1>4, <1>5, <1>6, <1>7, <1>8, <1>9, <1>11, <1>12, <1>14, <1>15
          DEF RealTime!Lived, Lived

LEMMA RealTimeStep ==
    ASSUME NEW s, NEW at, NEW d
    PROVE  RealTime!Step(s, at, d) = Step(s, at, d)
  <1>1. /\ RealTime!IsOnlineAt(s, at) = IsOnlineAt(s, at)
        /\ \A t : RealTime!IsEgg(t) = IsEgg(t) /\ RealTime!IsDead(t) = IsDead(t)
    BY DEF RealTime!IsOnlineAt, IsOnlineAt, RealTime!IsEgg, IsEgg, RealTime!IsDead, IsDead
  <1>2. \A n : RealTime!IsStageTimeUp(s, n) = IsStageTimeUp(s, n)
    BY DEF RealTime!IsStageTimeUp, IsStageTimeUp
  <1>3. \A t : RealTime!RulesMet(t) = RulesMet(t)
    BY DEF RealTime!RulesMet, RulesMet, RealTime!IsEvolutionRuleMet, IsEvolutionRuleMet
  <1>4. \A t : RealTime!NextForm(t) = NextForm(t)
    BY <1>3 DEF RealTime!NextForm, NextForm
  <1>5. \A t : RealTime!Evolved(t) = Evolved(t)
    BY <1>1, <1>4 DEF RealTime!Evolved, Evolved
  <1>6. \A o : RealTime!Lived(s, o, d, at) = Lived(s, o, d, at)
    BY RealTimeMinute
  <1> QED BY <1>1, <1>2, <1>3, <1>5, <1>6 DEF RealTime!Step, Step

LEMMA RealTimeActs ==
    ASSUME NEW s, NEW now, Act(s, now), found' = pet'
    PROVE  RealTime!Act(s, now)
  <1>1. /\ RealTime!IsGrown(s) = IsGrown(s)
        /\ \A n, limit : RealTime!AtMost(n, limit) = AtMost(n, limit)
    BY DEF RealTime!IsGrown, IsGrown, RealTime!IsDead, IsDead, RealTime!IsEgg, IsEgg,
           RealTime!AtMost, AtMost
  <1>2. \A n : RealTime!Fed(s, n) = Fed(s, n) /\ RealTime!Strengthened(s, n) = Strengthened(s, n)
    BY <1>1 DEF RealTime!Fed, Fed, RealTime!Strengthened, Strengthened
  <1>3. \A n, m : RealTime!IsReady(n, now, m) = IsReady(n, now, m)
    BY DEF RealTime!IsReady, IsReady
  <1>4. \A n : RealTime!CanAdventure(s, n) = CanAdventure(s, n)
    BY <1>1 DEF RealTime!CanAdventure, CanAdventure
  <1>5. CASE Look(s)
    BY <1>5 DEF RealTime!Act, RealTime!Look, Look
  <1>6. CASE Feed(s) \/ PremiumMeat(s)
    BY <1>1, <1>2, <1>6 DEF RealTime!Act, RealTime!Feed, Feed, RealTime!PremiumMeat, PremiumMeat
  <1>7. CASE Vitamin(s) \/ Protein(s)
    BY <1>1, <1>2, <1>7 DEF RealTime!Act, RealTime!Vitamin, Vitamin, RealTime!Protein, Protein
  <1>8. CASE Train(s, now)
    BY <1>1, <1>2, <1>3, <1>8 DEF RealTime!Act, RealTime!Train, Train
  <1>9. CASE Clean(s) \/ Medicine(s)
    BY <1>1, <1>9 DEF RealTime!Act, RealTime!Clean, Clean, RealTime!Medicine, Medicine
  <1>10. CASE Battle(s) \/ Skip(s)
    BY <1>1, <1>4, <1>10 DEF RealTime!Act, RealTime!Battle, Battle, RealTime!Skip, Skip,
                             RealTime!AtLeast0, AtLeast0
  <1>11. CASE Explore(s) \/ Claim(s)
    BY <1>1, <1>11 DEF RealTime!Act, RealTime!Explore, Explore, RealTime!Claim, Claim
  <1>12. CASE TrainingManual(s) \/ RefillStamina(s)
    BY <1>1, <1>12 DEF RealTime!Act, RealTime!TrainingManual, TrainingManual,
                       RealTime!RefillStamina, RefillStamina
  <1>13. CASE Minigame(s, now)
    BY <1>1, <1>3, <1>13 DEF RealTime!Act, RealTime!Minigame, Minigame
  <1> QED BY <1>5, <1>6, <1>7, <1>8, <1>9, <1>10, <1>11, <1>12, <1>13 DEF Act

---------------------------------------------------------------------------
(* Requests are prompt and rates constant: without these two the monster a *)
(* request finds may differ from one that lived in real time.              *)
Steady == MAX_LAG = 0 /\ \A d, e \in Drains : d = e

FoundNow == found = AtRest(Tick(pet, clock, drain))

LEMMA PassIsTime ==
    ASSUME KInv, FoundNow, Pass, FoundNow'
    PROVE  RealTime!TimePasses
  <1> DEFINE t == Tick(pet, clock, drain)
             u == Tick(pet, clock + 1, drain)
  <1>1. /\ pet' = pet /\ drain' = drain /\ clock' = clock + 1 /\ clock < MAX_CLOCK
        /\ clock \in Nat /\ drain \in Drains
        /\ HasLived(pet, pet.lastTickAt \div Minute) /\ pet.lastTickAt <= clock
        /\ pet.lastTickAt % Minute = 0 /\ pet \in Pet
    BY KeepingAssumption DEF Pass, KInv, HasLived, IsSound
  <1>2. found = AtRest(t) /\ found' = AtRest(u)
    BY <1>1 DEF FoundNow
  <1>3. /\ \A s : RealTime!IsDead(s) = IsDead(s) /\ RealTime!AtRest(s) = AtRest(s)
        /\ RealTime!Step(found, clock', drain) = Step(found, clock', drain)
    BY RealTimeOps, RealTimeStep
  <1> DEFINE next == AtRest([Step(found, clock', drain) EXCEPT !.lastTickAt = clock'])
  <1>4. SUFFICES found' = IF clock' % Minute = 0 /\ ~IsDead(found) THEN next ELSE found
    BY <1>1, <1>3 DEF RealTime!TimePasses
  <1>5. IsDead(found) <=> t.cause # "none"
    BY <1>2 DEF AtRest, IsDead
  <1>6. CASE pet.cause # "none"
    <2>1. t = pet /\ u = pet
      BY <1>6, DeadAreNotTicked
    <2> QED BY <1>2, <1>5, <1>6, <2>1
  <1>7. CASE pet.cause = "none" /\ clock' % Minute # 0
    <2>1. (clock + 1) % Minute # 0
      BY <1>1, <1>7
    <2>2. u = t
      BY <1>1, <2>1, TickNoMore
    <2> QED BY <1>2, <1>7, <2>2
  <1>8. CASE pet.cause = "none" /\ clock' % Minute = 0
    <2>1. (clock + 1) % Minute = 0
      BY <1>1, <1>8
    <2> HIDE DEF t, u
    <2>2. /\ t.cause = "none" => u = Ticked(Step(t, clock + 1, drain), clock + 1)
          /\ t.cause # "none" => AtRest(u) = AtRest(t)
      BY <1>1, <1>8, <2>1, TickOneMore DEF t, u
    <2>3. CASE t.cause = "none"
      <3>1. found = t
        BY <1>2, <2>3 DEF AtRest, IsDead
      <3>2. u = [Step(found, clock', drain) EXCEPT !.lastTickAt = clock']
        BY <1>1, <2>2, <2>3, <3>1 DEF Ticked
      <3> QED BY <1>2, <1>5, <1>8, <2>3, <3>2
    <2>4. CASE t.cause # "none"
      BY <1>2, <1>5, <2>2, <2>4
    <2> QED BY <2>3, <2>4
  <1> QED BY <1>6, <1>7, <1>8

LEMMA RequestIsOwners ==
    ASSUME Steady, KInv, FoundNow, Request, FoundNow'
    PROVE  RealTime!OwnerActs \/ UNCHANGED <<found, clock, drain>>
  <1> DEFINE t == Tick(pet, clock, drain)
             s == [t EXCEPT !.lastSeenAt = clock]
  <1>1. /\ drain' = drain /\ clock' = clock /\ clock \in Nat /\ drain \in Drains
        /\ HasLived(pet, pet.lastTickAt \div Minute) /\ pet.lastTickAt <= clock
        /\ pet.lastTickAt % Minute = 0 /\ pet.cause = "none"
    BY KeepingAssumption DEF Request, KInv, IsDead
  <1>2. Act(s, clock)
    <2>1. PICK lag \in 0..MAX_LAG : lag <= clock /\ Act(Loaded(clock - lag), clock - lag)
      BY DEF Request
    <2>2. clock - lag = clock
      BY <1>1, <2>1 DEF Steady
    <2>3. Loaded(clock) = s
      BY DEF Loaded
    <2> QED BY <2>1, <2>2, <2>3
  <1>3. found = AtRest(t) /\ found' = AtRest(Tick(pet', clock, drain))
    BY <1>1 DEF FoundNow
  <1>4. t \in Pet
    <2>1. clock \in Int
      BY <1>1
    <2>2. HasLived(t, t.lastTickAt \div Minute)
      BY <1>1, <2>1, TickCounts
    <2> QED BY <2>2 DEF HasLived, IsSound
  <1> DEFINE x == Tick(pet', clock, drain)
  <1>5. (pet'.lastTickAt = t.lastTickAt) => x = pet'
    BY <1>1, TickIsUpToDate
  <1> HIDE DEF t
  <1>6. /\ s \in Pet /\ s.lastTickAt = t.lastTickAt /\ s.cause = t.cause
    BY <1>1, <1>4 DEF Pet
  <1>7. t.cause # "none" => AtRest(s) = AtRest(t)
    BY <1>4 DEF AtRest, IsDead, Pet
  <1> HIDE DEF s, x
  <1>8. /\ pet'.lastTickAt = s.lastTickAt /\ pet'.cause = s.cause
        /\ IsDead(s) => pet' = s
    BY <1>2, <1>6, ActKeepsTime
  <1>9. found' = AtRest(pet')
    BY <1>3, <1>5, <1>6, <1>8 DEF x
  <1>10. CASE t.cause = "none"
    <2>1. found = t /\ found' = pet' /\ ~IsDead(found)
      BY <1>3, <1>6, <1>8, <1>9, <1>10 DEF AtRest, IsDead
    <2>2. RealTime!Act(s, clock)
      BY <1>2, <2>1, RealTimeActs
    <2>3. s = [found EXCEPT !.lastSeenAt = clock]
      BY <2>1 DEF s
    <2>4. ~RealTime!IsDead(found)
      BY <2>1, RealTimeOps
    <2> QED BY <1>1, <2>2, <2>3, <2>4 DEF RealTime!OwnerActs
  <1>11. CASE t.cause # "none"
    <2>1. found' = found
      BY <1>3, <1>6, <1>7, <1>8, <1>9, <1>11 DEF IsDead
    <2> QED BY <1>1, <2>1
  <1> QED BY <1>10, <1>11

(* Every step of the keeping is one of living in real time, or changes     *)
(* nothing of what a request would find.                                   *)
LEMMA TimeNextIsLifes ==
    ASSUME Steady, KInv, FoundNow, [TimeNext]_timeVars
    PROVE  KInv' /\ FoundNow' /\ [RealTime!LifeNext]_RealTime!lifeVars
  <1>1. KInv'
    BY NextKeepsKInv DEF TimeNext, timeVars
  <1>2. CASE UNCHANGED timeVars
    BY <1>1, <1>2 DEF timeVars, vars, FoundNow, RealTime!lifeVars
  <1>3. CASE TimeNext
    <2>1. FoundNow'
      BY <1>3 DEF TimeNext, FoundNow
    <2>2. CASE Pass
      BY <1>1, <2>1, <2>2, PassIsTime DEF RealTime!LifeNext
    <2>3. CASE Request
      BY <1>1, <2>1, <2>3, RequestIsOwners DEF RealTime!LifeNext, RealTime!lifeVars
    <2>4. CASE Allocate
      <3>1. pet' = pet /\ clock' = clock /\ drain' \in Drains /\ drain \in Drains
        BY <2>4 DEF Allocate, KInv
      <3>2. drain' = drain
        BY <3>1 DEF Steady
      <3>3. found' = found
        BY <2>1, <3>1, <3>2 DEF FoundNow
      <3> QED BY <1>1, <2>1, <3>1, <3>2, <3>3 DEF RealTime!lifeVars
    <2> QED BY <1>3, <2>2, <2>3, <2>4 DEF TimeNext, Next
  <1> QED BY <1>2, <1>3

(* A tick replays on demand what would have happened in real time: with    *)
(* prompt requests and constant rates, what each request finds and leaves  *)
(* is what a monster that lived through every minute would show            *)
(* (simulation.ts:267-268, monster.service.ts lockAndTickLiving).          *)
THEOREM KeepingImplementsLife ==
    ASSUME Steady
    PROVE  TimeSpec => LivesInRealTime
  <1>1. TimeInit => KInv /\ FoundNow /\ RealTime!Birth
    <2> SUFFICES ASSUME TimeInit PROVE KInv /\ FoundNow /\ RealTime!Birth
      OBVIOUS
    <2>1. Init /\ found = pet /\ pet = NewEgg(0) /\ clock = 0 /\ drain \in Drains
      BY DEF TimeInit, Init
    <2>2. KInv
      BY <2>1, InitKInv
    <2>3. pet.lastTickAt = 0 /\ pet.cause = "none" /\ 0 \div Minute = 0
      BY <2>1, EngineAssumption DEF NewEgg
    <2>4. Tick(pet, clock, drain) = pet
      BY <2>1, <2>3 DEF Tick
    <2>5. FoundNow
      BY <2>1, <2>3, <2>4 DEF FoundNow, AtRest, IsDead
    <2>6. RealTime!Birth
      BY <2>1, RealTimeOps DEF RealTime!Birth
    <2> QED BY <2>2, <2>5, <2>6
  <1>2. KInv /\ FoundNow /\ [TimeNext]_timeVars
          => KInv' /\ FoundNow' /\ [RealTime!LifeNext]_RealTime!lifeVars
    BY TimeNextIsLifes
  <1> QED BY <1>1, <1>2, PTL DEF TimeSpec, LivesInRealTime, RealTime!Life
=============================================================================
