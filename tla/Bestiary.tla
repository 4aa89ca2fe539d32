------------------------------ MODULE Bestiary ------------------------------
(* The tables of creatures: the player's species and how they evolve        *)
(* (src/src/modules/monster/core/species-data.ts), the skill each of them   *)
(* teaches (arena/arena-data.ts), and everyone there is to fight: the       *)
(* adventure stages, which two tables describe (adventure-data.ts and       *)
(* arena-data.ts), the raid and world bosses and the rivals of the arena.   *)
(* With them, the rules of what a monster may carry into a fight and whom   *)
(* it may fight (arena/arena-fighter.ts, boss/world-boss-data.ts).          *)
(*                                                                         *)
(* A species is <<line, form>>, a fused one <<line, line, "fused">>; a      *)
(* skill keeps what decides who may carry it.                              *)
EXTENDS Integers, Sequences, FiniteSets
LOCAL INSTANCE TLC

NATURAL_LINES == {"flame", "tide", "leaf", "earth", "lightning"}
SPIRITUAL_LINES == {"holy", "dark", "shadow"}
Lines == NATURAL_LINES \cup SPIRITUAL_LINES
isSameGroup(a, b) == (a \in SPIRITUAL_LINES) = (b \in SPIRITUAL_LINES)

(* The place of each stage in the order of growth *)
STAGE_ORDER ==
    [egg |-> 0, baby_1 |-> 1, baby_2 |-> 2, adult |-> 3, perfect |-> 4, ultimate |-> 5, fused |-> 6]
isStageAtLeast(stage, minimum) == STAGE_ORDER[stage] >= STAGE_ORDER[minimum]

(* The forms of one line, youngest first, with the stage of each *)
Forms ==
    [egg |-> "egg", baby1 |-> "baby_1", baby2 |-> "baby_2",
     adultGood |-> "adult", adultPoor |-> "adult", adultAlt |-> "adult",
     perfectGood |-> "perfect", perfectPoor |-> "perfect", perfectAlt |-> "perfect",
     ultimate |-> "ultimate", ultimateAlt |-> "ultimate"]

(* Where a form may lead; which of them the care decides (MonsterEngine) *)
toPerfect == {"perfectAlt", "perfectGood", "perfectPoor"}
Evolutions ==
    [egg |-> {"baby1"}, baby1 |-> {"baby2"}, baby2 |-> {"adultAlt", "adultGood", "adultPoor"},
     adultGood |-> toPerfect, adultPoor |-> toPerfect, adultAlt |-> toPerfect,
     perfectGood |-> {"ultimate"}, perfectPoor |-> {}, perfectAlt |-> {"ultimateAlt", "ultimate"},
     ultimate |-> {}, ultimateAlt |-> {}]

lineSpecies == Lines \X DOMAIN Forms

(* One fused form for each pair of lines of a group; their order does not   *)
(* matter, so the id is that of the sorted pair.                            *)
Alphabetical == <<"dark", "earth", "flame", "holy", "leaf", "lightning", "shadow", "tide">>
fusedSpeciesId(a, b) ==
    CHOOSE id \in {<<a, b, "fused">>, <<b, a, "fused">>} :
        \E i, j \in DOMAIN Alphabetical : i <= j /\ Alphabetical[i] = id[1] /\ Alphabetical[j] = id[2]
FUSED_FORMS == {fusedSpeciesId(pair[1], pair[2]) : pair \in {p \in Lines \X Lines : isSameGroup(p[1], p[2])}}

SPECIES == lineSpecies \cup FUSED_FORMS
StageOf(id) == IF Len(id) = 3 THEN id[3] ELSE Forms[id[2]]

---------------------------------------------------------------------------
(* What a player's monsters teach, in the order of the catalogue. *)

Skill(id, el, src, slot) == [id |-> id, el |-> el, src |-> src, slot |-> slot]

Taught ==
    <<"adultGood", "adultPoor", "adultAlt", "perfectGood", "perfectPoor", "perfectAlt", "ultimate", "ultimateAlt">>
LineSkills(line, ids, passives) ==
    [i \in DOMAIN ids |->
        Skill(ids[i], line, <<line, Taught[i]>>, IF ids[i] \in passives THEN "passive" ELSE "active")]

FlameSkills == LineSkills("flame",
    <<"flame_tail", "flame_smoke", "flame_slash", "flame_claw", "flame_lava", "flame_breath", "flame_sun", "flame_phoenix">>,
    {"flame_phoenix"})
TideSkills == LineSkills("tide",
    <<"tide_sword", "tide_jelly", "tide_fang", "tide_armor", "tide_ink", "tide_whirl", "tide_trident", "tide_eternal">>,
    {"tide_jelly"})
LeafSkills == LineSkills("leaf",
    <<"leaf_antler", "leaf_spore", "leaf_fang", "leaf_claw", "leaf_root", "leaf_trunk", "leaf_wrath", "leaf_ent">>,
    {"leaf_ent"})
EarthSkills == LineSkills("earth",
    <<"earth_shell", "earth_crawl", "earth_horn", "earth_paw", "earth_boulder", "earth_quill", "earth_quake", "earth_crystal">>,
    {"earth_boulder"})
LightningSkills == LineSkills("lightning",
    <<"ltn_wing", "ltn_cat", "ltn_claw", "ltn_hoof", "ltn_roar", "ltn_tail", "ltn_bolt", "ltn_vajra">>,
    {"ltn_cat"})
HolySkills == LineSkills("holy",
    <<"holy_wing", "holy_lull", "holy_blade", "holy_arrow", "holy_bell", "holy_seraph", "holy_sun", "holy_judge">>,
    {"holy_seraph"})
DarkSkills == LineSkills("dark",
    <<"dark_web", "dark_bite", "dark_fang", "dark_eye", "dark_undead", "dark_wrath", "dark_end", "dark_curse">>,
    {"dark_undead"})
ShadowSkills == LineSkills("shadow",
    <<"shd_kunai", "shd_flee", "shd_arrow", "shd_snake", "shd_mist", "shd_sting", "shd_end", "shd_void">>,
    {"shd_sting", "shd_void"})

(* A second baby teaches a neutral skill, a first one a dodge. *)
NeutralSkills ==
    LET of == [flame |-> "n_rally", tide |-> "n_breath", leaf |-> "n_whip", earth |-> "n_guard",
               lightning |-> "n_tackle", holy |-> "n_hawk", dark |-> "n_chomp", shadow |-> "n_rock"]
    IN {Skill(of[l], "neutral", <<l, "baby2">>, "active") : l \in Lines}
DodgeSkills ==
    LET of == [leaf |-> "dg_step", flame |-> "dg_flip", tide |-> "dg_veil", earth |-> "dg_parry",
               lightning |-> "dg_blink", holy |-> "dg_flash", dark |-> "dg_counter", shadow |-> "dg_vanish"]
    IN {Skill(of[l], "neutral", <<l, "baby1">>, "dodge") : l \in Lines}

SkillsOfLine ==
    [flame |-> FlameSkills, tide |-> TideSkills, leaf |-> LeafSkills, earth |-> EarthSkills,
     lightning |-> LightningSkills, holy |-> HolySkills, dark |-> DarkSkills, shadow |-> ShadowSkills]
ARENA_SKILLS ==
    UNION {{SkillsOfLine[l][i] : i \in DOMAIN SkillsOfLine[l]} : l \in Lines} \cup NeutralSkills \cup DodgeSkills

(* What only enemies use, area by area, and the world bosses' third skill *)
EnemySkill(id, el) == Skill(id, el, <<"enemy">>, "active")
MeadowSkills ==
    {EnemySkill("e_web", "leaf"), EnemySkill("e_pinch", "tide"), EnemySkill("e_firewing", "flame"),
     EnemySkill("e_stomp", "leaf"), EnemySkill("e_carrot", "leaf")}
CoastSkills ==
    {EnemySkill("e_swoop", "tide"), EnemySkill("e_hotsting", "flame"), EnemySkill("e_shellram", "tide"),
     EnemySkill("e_mistbite", "tide"), EnemySkill("e_whirlpool", "tide")}
VolcanoSkills ==
    {EnemySkill("e_lavacoil", "flame"), EnemySkill("e_rockcharge", "leaf"), EnemySkill("e_stormclaw", "leaf"),
     EnemySkill("e_volcano", "flame"), EnemySkill("e_dragontail", "flame")}
CavernSkills ==
    {EnemySkill("e_oregore", "earth"), EnemySkill("e_shockwing", "lightning"), EnemySkill("e_orebite", "earth"),
     EnemySkill("e_crystalburst", "earth"), EnemySkill("e_crystalshell", "earth")}
StormSkills ==
    {EnemySkill("e_sparktail", "lightning"), EnemySkill("e_cliffram", "earth"), EnemySkill("e_thunderdive", "lightning"),
     EnemySkill("e_plumes", "lightning"), EnemySkill("e_fan", "lightning")}
QuakeOf ==
    [lightning |-> "wb_quake_lightning", flame |-> "wb_quake_flame", tide |-> "wb_quake_tide",
     earth |-> "wb_quake_earth", holy |-> "wb_quake_holy", dark |-> "wb_quake_dark", shadow |-> "wb_quake_shadow"]
EnemySkills == UNION {MeadowSkills, CoastSkills, VolcanoSkills, CavernSkills, StormSkills}
Quakes == {EnemySkill(QuakeOf[l], l) : l \in DOMAIN QuakeOf}
ARENA_ENEMY_SKILLS == EnemySkills \cup Quakes

Catalogue == ARENA_SKILLS \cup ARENA_ENEMY_SKILLS
SkillIds == {s.id : s \in Catalogue}
ARENA_SKILL_BY_ID == [id \in SkillIds |-> CHOOSE s \in Catalogue : s.id = id]

---------------------------------------------------------------------------
(* Everyone there is to fight. *)

(* The adventure as its screens show it, area by area *)
Stage(id, element, isBoss) == [id |-> id, element |-> element, isBoss |-> isBoss]
MeadowStages ==
    <<Stage("meadow_1", "leaf", FALSE), Stage("meadow_2", "tide", FALSE),
      Stage("meadow_3", "flame", FALSE), Stage("meadow_boss", "leaf", TRUE)>>
CoastStages ==
    <<Stage("coast_1", "tide", FALSE), Stage("coast_2", "flame", FALSE),
      Stage("coast_3", "tide", FALSE), Stage("coast_boss", "tide", TRUE)>>
VolcanoStages ==
    <<Stage("volcano_1", "flame", FALSE), Stage("volcano_2", "leaf", FALSE),
      Stage("volcano_3", "leaf", FALSE), Stage("volcano_boss", "flame", TRUE)>>
CavernStages ==
    <<Stage("cavern_1", "earth", FALSE), Stage("cavern_2", "lightning", FALSE),
      Stage("cavern_3", "earth", FALSE), Stage("cavern_boss", "earth", TRUE)>>
StormStages ==
    <<Stage("storm_1", "lightning", FALSE), Stage("storm_2", "earth", FALSE),
      Stage("storm_3", "lightning", FALSE), Stage("storm_boss", "lightning", TRUE)>>
ADVENTURE_AREAS == <<MeadowStages, CoastStages, VolcanoStages, CavernStages, StormStages>>
AdventureStages == UNION {{ADVENTURE_AREAS[a][i] : i \in 1..4} : a \in DOMAIN ADVENTURE_AREAS}

(* and as its fights are fought *)
ArenaStage(el, skills, boss) == [el |-> el, skills |-> skills, boss |-> boss]
MeadowFoes ==
    [meadow_1 |-> ArenaStage("leaf", <<"e_web">>, FALSE), meadow_2 |-> ArenaStage("tide", <<"e_pinch">>, FALSE),
     meadow_3 |-> ArenaStage("flame", <<"e_firewing">>, FALSE),
     meadow_boss |-> ArenaStage("leaf", <<"e_stomp", "e_carrot">>, TRUE)]
CoastFoes ==
    [coast_1 |-> ArenaStage("tide", <<"e_swoop">>, FALSE), coast_2 |-> ArenaStage("flame", <<"e_hotsting">>, FALSE),
     coast_3 |-> ArenaStage("tide", <<"e_shellram">>, FALSE),
     coast_boss |-> ArenaStage("tide", <<"e_mistbite", "e_whirlpool">>, TRUE)]
VolcanoFoes ==
    [volcano_1 |-> ArenaStage("flame", <<"e_lavacoil">>, FALSE),
     volcano_2 |-> ArenaStage("leaf", <<"e_rockcharge">>, FALSE),
     volcano_3 |-> ArenaStage("leaf", <<"e_stormclaw">>, FALSE),
     volcano_boss |-> ArenaStage("flame", <<"e_volcano", "e_dragontail">>, TRUE)]
CavernFoes ==
    [cavern_1 |-> ArenaStage("earth", <<"e_oregore">>, FALSE),
     cavern_2 |-> ArenaStage("lightning", <<"e_shockwing">>, FALSE),
     cavern_3 |-> ArenaStage("earth", <<"e_orebite">>, FALSE),
     cavern_boss |-> ArenaStage("earth", <<"e_crystalburst", "e_crystalshell">>, TRUE)]
StormFoes ==
    [storm_1 |-> ArenaStage("lightning", <<"e_sparktail">>, FALSE),
     storm_2 |-> ArenaStage("earth", <<"e_cliffram">>, FALSE),
     storm_3 |-> ArenaStage("lightning", <<"e_thunderdive">>, FALSE),
     storm_boss |-> ArenaStage("lightning", <<"e_plumes", "e_fan">>, TRUE)]
ARENA_STAGES == MeadowFoes @@ CoastFoes @@ VolcanoFoes @@ CavernFoes @@ StormFoes

RAID_BOSSES ==
    [lava_king |-> ArenaStage("flame", <<"e_lavacoil", "e_volcano">>, TRUE),
     deep_dweller |-> ArenaStage("tide", <<"e_whirlpool", "e_mistbite">>, TRUE),
     ancient_flora |-> ArenaStage("leaf", <<"e_stomp", "e_stormclaw">>, TRUE),
     radiant_seraph |-> ArenaStage("holy", <<"e_fan", "e_plumes">>, TRUE),
     void_sovereign |-> ArenaStage("dark", <<"e_dragontail", "e_orebite">>, TRUE),
     nameless_phantom |-> ArenaStage("shadow", <<"e_sparktail", "e_mistbite">>, TRUE)]
RAID_DIFFICULTIES == [normal |-> "adult", hard |-> "perfect", nightmare |-> "ultimate"]

WORLD_BOSS_ROTATION ==
    <<[id |-> "storm_golem", el |-> "lightning", skills |-> <<"e_sparktail", "e_thunderdive", "wb_quake_lightning">>, dodge |-> "none"],
      [id |-> "flame_dragon", el |-> "flame", skills |-> <<"e_volcano", "e_dragontail", "wb_quake_flame">>, dodge |-> "none"],
      [id |-> "tide_tortoise", el |-> "tide", skills |-> <<"e_whirlpool", "e_shellram", "wb_quake_tide">>, dodge |-> "none"],
      [id |-> "ancient_tree", el |-> "earth", skills |-> <<"e_crystalburst", "e_rockcharge", "wb_quake_earth">>, dodge |-> "none"],
      [id |-> "radiant_angel", el |-> "holy", skills |-> <<"e_fan", "e_plumes", "wb_quake_holy">>, dodge |-> "none"],
      [id |-> "night_lord", el |-> "dark", skills |-> <<"e_orebite", "e_cliffram", "wb_quake_dark">>, dodge |-> "none"],
      [id |-> "shadow_king", el |-> "shadow", skills |-> <<"e_stormclaw", "e_mistbite", "wb_quake_shadow">>, dodge |-> "dg_vanish"]>>

(* Three rivals for each form that may fight in the arena *)
PVP_STAGES == {"adult", "perfect", "ultimate"}
NPC_TIERS == <<"leaf", "tide", "flame">>

---------------------------------------------------------------------------
(* What a monster may carry, what is left of the picks stored for it, and   *)
(* its opponents (also arena-data.ts and world-boss-data.ts).               *)

None == "none"
EMPTY_LOADOUT == [s1 |-> None, s2 |-> None, dodge |-> None]

SKILLED_STAGES == {"adult", "perfect", "ultimate", "fused"}
hasArenaSkills(stage) == stage \in SKILLED_STAGES

arenaElementsOf(p) == IF StageOf(p.id) = "fused" THEN {p.id[1], p.id[2]} ELSE {p.line}

INNATE_BY_SPECIES ==
    [s \in {k.src : k \in {c \in ARENA_SKILLS : c.slot # "dodge" /\ c.src[2] # "baby2"}} |->
        (CHOOSE k \in ARENA_SKILLS : k.src = s).id]

arenaInnateOf(p) ==
    LET src == IF StageOf(p.id) = "fused" THEN <<p.line, "ultimate">> ELSE p.id IN
    IF hasArenaSkills(StageOf(p.id)) /\ src \in DOMAIN INNATE_BY_SPECIES THEN INNATE_BY_SPECIES[src] ELSE None

isUnlocked(id, seen) == id \in SkillIds /\ ARENA_SKILL_BY_ID[id].src \in seen

(* Its own element or neutral, never its innate twice, and one passive in   *)
(* the whole loadout, the innate included.                                  *)
HoldsPassive(ids) == \E id \in ids \cap SkillIds : ARENA_SKILL_BY_ID[id].slot = "passive"

canEquipUncounted(p, skill, others) ==
    /\ skill.src # <<"enemy">>
    /\ \/ skill.slot = "dodge"
       \/ /\ skill.el \in {"neutral"} \cup arenaElementsOf(p)
          /\ skill.id # arenaInnateOf(p)
          /\ (skill.slot = "passive" => ~HoldsPassive({arenaInnateOf(p)}))

canEquipArenaSkill(p, skill, others) ==
    /\ skill.src # <<"enemy">>
    /\ \/ skill.slot = "dodge"
       \/ /\ skill.el \in {"neutral"} \cup arenaElementsOf(p)
          /\ skill.id # arenaInnateOf(p)
          /\ (skill.slot = "passive" => ~HoldsPassive({arenaInnateOf(p)} \cup others))

Fits(p, id, slot, others, seen) ==
    /\ isUnlocked(id, seen)
    /\ (slot = "dodge") = (ARENA_SKILL_BY_ID[id].slot = "dodge")
    /\ canEquipArenaSkill(p, ARENA_SKILL_BY_ID[id], others)

(* Drops whatever is no longer legal. *)
cleanArenaLoadout(p, loadout, seen) ==
    LET ok(id, slot, others) == IF Fits(p, id, slot, others, seen) THEN id ELSE None
        s1 == ok(loadout.s1, "skill", {})
    IN IF ~hasArenaSkills(StageOf(p.id)) THEN EMPTY_LOADOUT
       ELSE [s1 |-> s1,
             s2 |-> IF loadout.s2 # s1 THEN ok(loadout.s2, "skill", {s1} \ {None}) ELSE None,
             dodge |-> ok(loadout.dodge, "dodge", {})]

IsPick(id) == id # None
toArenaFighter(p, loadout) ==
    [from |-> p, element |-> p.line,
     skills |-> SelectSeq(<<arenaInnateOf(p), loadout.s1, loadout.s2>>, IsPick),
     dodge |-> IF hasArenaSkills(StageOf(p.id)) THEN loadout.dodge ELSE None]

---------------------------------------------------------------------------
(* The opponents. *)

Foe(element, skills, dodge, boss) == [element |-> element, skills |-> skills, dodge |-> dodge, boss |-> boss]

IsActive(skill) == skill.slot = "active"
lineSkillIds(line) ==
    LET active == SelectSeq(SkillsOfLine[line], IsActive) IN <<active[1].id, active[2].id>>

arenaEnemyOf(id) == Foe(ARENA_STAGES[id].el, ARENA_STAGES[id].skills, None, ARENA_STAGES[id].boss)
arenaBossSpec(b) == Foe(b.el, b.skills, None, TRUE)
getWorldBossArena(b) == Foe(b.el, b.skills, b.dodge, TRUE)
getNpcArena(tier) == Foe(NPC_TIERS[tier], lineSkillIds(NPC_TIERS[tier]), "dg_step", FALSE)
plainDummy(element) == Foe(element, <<>>, None, FALSE)
asDummyOf(boss) == [boss EXCEPT !.skills = <<>>, !.dodge = None]

(* A dummy stands in for nobody, for a raid boss or for a world boss. *)
WorldBosses == {WORLD_BOSS_ROTATION[i] : i \in DOMAIN WORLD_BOSS_ROTATION}
buildDummy(preset) ==
    IF preset \in DOMAIN RAID_BOSSES THEN asDummyOf(arenaBossSpec(RAID_BOSSES[preset]))
    ELSE IF preset \in {b.id : b \in WorldBosses}
    THEN asDummyOf(getWorldBossArena(CHOOSE b \in WorldBosses : b.id = preset))
    ELSE plainDummy("flame")
Presets == {"plain"} \cup (DOMAIN RAID_BOSSES) \cup {b.id : b \in WorldBosses}

(* The one of the week: the rotation starts over after the last. *)
getWorldBossOfWeek(index) ==
    LET n == Len(WORLD_BOSS_ROTATION) IN WORLD_BOSS_ROTATION[1 + (((index % n) + n) % n)]
Weeks == -1..7

findArenaStage(id) == id \in DOMAIN ARENA_STAGES

(* The dummy and an adventure stage take anyone that has hatched, a raid    *)
(* and the world boss ask for a form, a rival is one of three forms.        *)
MIN_STAGE == "adult"
MayFight(p, f) ==
    LET stage == StageOf(p.id) IN
    /\ stage # "egg"
    /\ CASE f[1] = "stage" -> findArenaStage(f[2])
         [] f[1] = "raid" -> isStageAtLeast(stage, RAID_DIFFICULTIES[f[3]])
         [] f[1] = "world" -> isStageAtLeast(stage, MIN_STAGE)
         [] f[1] = "rival" -> stage \in PVP_STAGES
         [] OTHER -> TRUE

Fights ==
    {<<"stage", s.id>> : s \in AdventureStages}
    \cup ({"raid"} \X (DOMAIN RAID_BOSSES) \X (DOMAIN RAID_DIFFICULTIES))
    \cup {<<"rival", tier>> : tier \in DOMAIN NPC_TIERS}
    \cup {<<"world", w>> : w \in Weeks} \cup {<<"dummy", p>> : p \in Presets}

FoeOf(f) ==
    CASE f[1] = "stage" -> arenaEnemyOf(f[2])
      [] f[1] = "raid" -> arenaBossSpec(RAID_BOSSES[f[2]])
      [] f[1] = "rival" -> getNpcArena(f[2])
      [] f[1] = "world" -> getWorldBossArena(getWorldBossOfWeek(f[2]))
      [] f[1] = "dummy" -> buildDummy(f[2])

=============================================================================
