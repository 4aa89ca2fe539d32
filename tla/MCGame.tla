------------------------------- MODULE MCGame -------------------------------
(* A small instance of each part of Game.                                   *)
EXTENDS Game, MCEquipment

CONSTANTS f12, f13, f23, n1, n2, n3,    \* FriendGraph
          win, weekly, feed, login,     \* Quest
          npc                           \* Pvp

---------------------------------------------------------------------------
(* Three strangers who ask, answer and part, and three friends who greet,  *)
(* give and rent.                                                          *)

MCUsers == 1..6
Relation(kind, u, v) == [kind |-> kind, user |-> u, friend |-> v]

(* Two strangers who ask each other at once and again, and part. *)
Crossing ==
    r1 :> Relation("request", 4, 5) @@ r2 :> Relation("request", 5, 4)
      @@ r3 :> Relation("request", 4, 5) @@ r4 :> Relation("remove", 4, 5)

(* The same with an answer: an acceptance, or a refusal. *)
Answering ==
    {r1 :> Relation("request", 4, 5) @@ r2 :> Relation("request", 5, 4) @@ r3 :> Relation("remove", 5, 4)
       @@ r4 :> Relation(answer, 4, 5) : answer \in {"accept", "decline"}}

(* A player whose friend list is full, until they part with a friend. *)
Crowded ==
    r1 :> Relation("request", 1, 4) @@ r2 :> Relation("request", 4, 1)
      @@ r3 :> Relation("accept", 1, 4) @@ r4 :> Relation("remove", 1, 2)

(* A player who is asked by two, with room for one request. *)
Courted ==
    r1 :> Relation("request", 4, 6) @@ r2 :> Relation("request", 5, 6) @@ r3 :> Relation("accept", 6, 4)

(* A day with one friend. *)
Greeting ==
    r1 :> Relation("greet", 1, 2) @@ r2 :> Relation("greet", 1, 2) @@ r3 :> Relation("rent", 2, 1)
      @@ r4 :> Relation("remove", 1, 2)

(* Two gifts of one player, and one to them. *)
Giving == r1 :> Relation("gift", 1, 2) @@ r2 :> Relation("gift", 1, 3) @@ r3 :> Relation("gift", 3, 1)

(* A gift while the friend rents a monster, and one after. *)
Renting == r1 :> Relation("gift", 1, 2) @@ r2 :> Relation("rent", 2, 1) @@ r3 :> Relation("gift", 1, 2)

(* Gifts in a ring. *)
InARing == r1 :> Relation("gift", 1, 2) @@ r2 :> Relation("gift", 2, 3) @@ r3 :> Relation("gift", 3, 1)

Founding == f12 :> {1, 2} @@ f13 :> {1, 3} @@ f23 :> {2, 3}
OneItem == [u \in MCUsers |-> 1]

MCRelations == {f12, f13, f23, n1, n2, n3}
MCFriendPlans == Answering \cup {Crossing, Crowded, Courted, Greeting, Giving, Renting, InARing}

---------------------------------------------------------------------------
(* The last day of a week and the first of the next, with quests half done  *)
(* and a login streak with a gap.                                           *)

Counts(q, discovers) == [kind |-> "act", quest |-> q, discovers |-> discovers, pays |-> q = win]
Asks(kind, q) == [kind |-> kind, quest |-> q, discovers |-> FALSE, pays |-> TRUE]
At(n, b) == [progress |-> n, claimed |-> b]

MCRows ==
    <<win, <<"day", 6>> >> :> At(1, FALSE) @@ <<weekly, <<"week", 0>> >> :> At(1, FALSE)
      @@ <<login, <<"day", 3>> >> :> At(1, TRUE) @@ <<login, <<"day", 5>> >> :> At(1, TRUE)

MCQuestPlans ==
    {r1 :> Counts(win, FALSE) @@ r2 :> Asks("claim", win) @@ r3 :> Asks("claim", weekly),
     r1 :> Counts(win, TRUE) @@ r2 :> Counts(win, FALSE) @@ r3 :> Asks("claim", win),
     r1 :> Counts(win, FALSE) @@ r2 :> Asks("claim", win) @@ r3 :> Asks("claim", win),
     r1 :> Counts(win, TRUE) @@ r2 :> Counts(feed, FALSE) @@ r3 :> Asks("claim", feed),
     r1 :> Asks("login", login) @@ r2 :> Asks("login", login) @@ r3 :> Asks("login", login)}

MCWeekly == win :> weekly
MCTarget == win :> 2 @@ weekly :> 2 @@ feed :> 1

---------------------------------------------------------------------------
(* Three stages of which one is cleared, a raid boss of two difficulties,   *)
(* tokens for one piece and stamina for three fights.                       *)

Runs(kind, at, runs) == [kind |-> kind, at |-> at, runs |-> runs]

MCStagePlans ==
    {r1 :> Runs("battle", 2, 1) @@ r2 :> Runs("battle", 2, 1) @@ r3 :> Runs("skip", 2, 2),
     r1 :> Runs("battle", 2, 1) @@ r2 :> Runs("battle", 3, 1) @@ r3 :> Runs("raid", 1, 1),
     r1 :> Runs("raid", 1, 1) @@ r2 :> Runs("raid", 1, 1) @@ r3 :> Runs("exchange", 1, 1),
     r1 :> Runs("skip", 1, 3) @@ r2 :> Runs("raid", 1, 1) @@ r3 :> Runs("exchange", 1, 1),
     r1 :> Runs("raid", 1, 1) @@ r2 :> Runs("raid", 2, 1) @@ r3 :> Runs("exchange", 1, 1),
     r1 :> Runs("raid", 1, 1) @@ r2 :> Runs("exchange", 1, 1) @@ r3 :> Runs("exchange", 1, 1)}

MCExchangeCost == <<2, 5>>
MCOpeningClears == <<1, 0, 0>>
MCOpeningRaids == <<0, 0>>

---------------------------------------------------------------------------
(* Three players near the bottom of the ladder and a season of one day.     *)

Challenge(kind, u, v, discovers) ==
    [kind |-> kind, user |-> u, rival |-> v, discovers |-> discovers, season |-> 0]
Battle(u, v) == Challenge("battle", u, v, FALSE)
Claims(u) == Challenge("claim", u, npc, FALSE)
Rated(n, w) == [rating |-> n, wins |-> w, losses |-> 0, claimed |-> FALSE]

MCPvpPlans ==
    {r1 :> Battle(1, 2) @@ r2 :> Battle(2, 1),
     r1 :> Battle(1, npc) @@ r2 :> Battle(1, npc) @@ r3 :> Battle(1, npc),
     r1 :> Battle(1, 2) @@ r2 :> Battle(1, 2),
     r1 :> Challenge("battle", 1, 2, TRUE) @@ r2 :> Claims(1) @@ r3 :> Claims(1),
     r1 :> Battle(2, 1) @@ r2 :> Claims(1) @@ r3 :> Claims(3),
     r1 :> Challenge("defend", 3, npc, FALSE) @@ r2 :> Challenge("defend", 3, npc, TRUE) @@ r3 :> Battle(1, 3)}

MCRatings == <<1, 0>> :> Rated(1010, 2) @@ <<2, 0>> :> Rated(1000, 2) @@ <<3, 0>> :> Rated(4, 0)

MCPlayers == {1, 2, 3}
MCNpcs == npc :> 1100
MCDefended == <<0, 0, Never>>
MCTiers == <<1, 3>>

---------------------------------------------------------------------------
(* A trainer with an empty tree, or with a lane of one arm, its mastery and *)
(* the first two nodes of an ascendancy.                                    *)

Data == INSTANCE PassiveData

Spine == {Data!Ring(Data!RingOf(0, 0))} \cup {Data!Lane(0, 0, k) : k \in 0..8}
Beside == {Data!Ring(Data!RingOf(0, 1))} \cup {Data!Lane(0, 1, k) : k \in 0..8}
Pick == Data!Mastery(0, 0)
Path(p, k) == Data!Ascend(p, k)

MCTrees ==
    {Data!EmptyTree,
     [Data!EmptyTree EXCEPT !.nodes = Spine \cup {Pick}, !.refunded = 9, !.picks = Pick :> 1,
                            !.ascendancy = {Path(1, 0), Path(1, 1)}]}

MCProgress ==
    {[dexSpecies |-> 6, raidFirstClears |-> 0, nightmareClears |-> 1, adventureClears |-> 0,
      totalWins |-> 199, worldBossDefeats |-> n, pvpSeasonRanks |-> <<2, 11>>] : n \in {1, 2}}

On(kind, node) == [kind |-> kind, node |-> node, option |-> 0, draft |-> Data!EmptyTree]
Chooses(o) == [kind |-> "pickMastery", node |-> Pick, option |-> o, draft |-> Data!EmptyTree]
Saves(nodes, picks, ascendancy) ==
    [kind |-> "save", node |-> Pick, option |-> 0,
     draft |-> [Data!EmptyTree EXCEPT !.nodes = nodes, !.picks = picks, !.ascendancy = ascendancy]]

MCTreePlans ==
    {r1 :> On("deallocate", Pick) @@ r2 :> On("deallocateBranch", Data!Lane(0, 0, 6)) @@ r3 :> On("respec", Pick),
     r1 :> On("deallocate", Data!Lane(0, 0, 2)) @@ r2 :> On("deallocate", Pick)
       @@ r3 :> On("deallocate", Data!Lane(0, 0, 8)),
     r1 :> On("allocate", Data!Ring(0)) @@ r2 :> On("allocate", Data!Ring(1))
       @@ r3 :> On("allocateAscendancy", Path(2, 0)),
     r1 :> On("allocateAscendancy", Path(1, 2)) @@ r2 :> On("allocateAscendancy", Path(1, 0))
       @@ r3 :> On("resetAscendancy", Pick),
     r1 :> Saves(Spine, <<>>, {}) @@ r2 :> Chooses(2) @@ r3 :> On("resetAscendancy", Pick),
     r1 :> Saves(Spine \cup {Pick}, Pick :> 2, {Path(1, 0)}) @@ r2 :> Chooses(0)
       @@ r3 :> On("allocate", Data!Lane(0, 1, 8)),
     r1 :> Saves(Beside \cup {Data!Lane(0, 2, 1)}, <<>>, {Path(2, 0)}) @@ r2 :> On("allocate", Data!Ring(1))
       @@ r3 :> On("deallocateBranch", Pick),
     r1 :> Saves(Beside \cup {Pick}, Pick :> 1, {Path(2, 0)}) @@ r2 :> Chooses(1)
       @@ r3 :> On("resetAscendancy", Pick)}

---------------------------------------------------------------------------
(* Duels that bring the arena's mechanisms together.                        *)

NoDodge ==
    [cd |-> 0, parry |-> 0, onDodge |-> [cleanse |-> FALSE, vanish |-> 0, blind |-> 0, counter |-> FALSE]]
NoPassive ==
    [startShield |-> 0, firstStrike |-> TRUE, rebirth |-> 0, lastStand |-> 0, thorns |-> 0,
     lifesteal |-> 0, onBasic |-> <<>>, doubleStrike |-> FALSE, retort |-> <<>>, shieldEvery |-> 0, regen |-> 0]
Skill ==
    [kind |-> "melee", hits |-> 1, cd |-> 9, wind |-> 3, fx |-> <<>>, heal |-> 0, shield |-> 0,
     cleanse |-> FALSE, cleanseOnly |-> {}, lifesteal |-> 0, delay |-> 0]
Inflicts(st, dur) == [st |-> st, dur |-> dur, ch |-> 100, self |-> FALSE]
GainsItself(st, dur) == [Inflicts(st, dur) EXCEPT !.self = TRUE]
Home == [team |-> 0, hp |-> 3, damage |-> {2}, res |-> 0, skills |-> <<>>, dodge |-> NoDodge, passive |-> NoPassive]
Guest == [Home EXCEPT !.team = 1]
Weak == [Guest EXCEPT !.damage = {1}]

(* Thorns, lifesteal and a burst against a rebirth. *)
Brawl ==
    <<[Home EXCEPT !.passive.lifesteal = 50, !.damage = {1, 3}, !.skills = <<[Skill EXCEPT !.kind = "burst", !.wind = 1]>>],
      [Guest EXCEPT !.passive.rebirth = 1, !.passive.thorns = 50, !.passive.startShield = 1]>>

(* A stun that every basic attack may bring, striking twice, and every hit  *)
(* of a combo.                                                             *)
Stun == <<[Inflicts("stun", 4) EXCEPT !.ch = 30]>>
Control ==
    <<[Home EXCEPT !.damage = {1}, !.passive.onBasic = Stun, !.passive.doubleStrike = TRUE,
                   !.skills = <<[Skill EXCEPT !.hits = 3, !.wind = 1, !.fx = Stun]>>],
      [Weak EXCEPT !.hp = 5]>>

(* A burning shot, from one who can shed blindness, against a dodge that    *)
(* counters and blinds.                                                     *)
Kite ==
    <<[Home EXCEPT !.hp = 2, !.skills = <<[Skill EXCEPT !.kind = "shot", !.wind = 2, !.fx = <<Inflicts("burn", 5)>>],
                                          [Skill EXCEPT !.kind = "self", !.wind = 1, !.cleanseOnly = {"blind"}]>>],
      [Weak EXCEPT !.hp = 2, !.dodge = [NoDodge EXCEPT !.cd = 5, !.onDodge.counter = TRUE, !.onDodge.blind = 6]]>>

(* A cursing charge against a parry, a retort and a last stand. *)
Parry ==
    <<[Home EXCEPT !.hp = 2, !.skills = <<[Skill EXCEPT !.kind = "charge", !.wind = 1, !.fx = <<Inflicts("curse", 4)>>]>>],
      [Weak EXCEPT !.hp = 2, !.dodge = [NoDodge EXCEPT !.cd = 5, !.parry = 50, !.onDodge.vanish = 3],
                   !.passive.retort = <<Inflicts("static", 4)>>, !.passive.lastStand = 1]>>

(* A rooting zone against a fighter that heals, shields and cleanses itself. *)
Zone ==
    <<[Home EXCEPT !.hp = 2, !.skills = <<[Skill EXCEPT !.kind = "zone", !.wind = 1, !.delay = 3, !.fx = <<Inflicts("root", 4)>>]>>],
      [Weak EXCEPT !.hp = 2, !.skills = <<[Skill EXCEPT !.kind = "self", !.wind = 2, !.heal = 1, !.shield = 1,
                                              !.cleanse = TRUE, !.fx = <<GainsItself("regen", 4)>>]>>,
                   !.dodge = [NoDodge EXCEPT !.cd = 5, !.onDodge.vanish = 2, !.onDodge.cleanse = TRUE]]>>

MCDuels == {Brawl, Control, Kite, Parry, Zone}

(* A duel, and two members against a boss. *)
NoEffects ==
    [shield |-> 0, regen |-> 0, double |-> FALSE, lifesteal |-> 0, thorns |-> 0,
     firstStrike |-> FALSE, burnTurns |-> 0, evasion |-> FALSE]
Member == [hp |-> 6, spd |-> 1, damage |-> 1, effects |-> NoEffects]

MCBattles ==
    {[duel |-> TRUE,
      fighters |-> <<[Member EXCEPT !.effects.lifesteal = 50, !.effects.double = TRUE, !.effects.burnTurns = 2],
                     [Member EXCEPT !.effects.thorns = 50, !.effects.shield = 1]>>],
     [duel |-> FALSE,
      fighters |-> <<[Member EXCEPT !.hp = 4, !.effects.thorns = 50, !.effects.burnTurns = 2],
                     [Member EXCEPT !.hp = 3, !.spd = 2, !.effects.evasion = TRUE, !.effects.double = TRUE],
                     [Member EXCEPT !.hp = 8, !.spd = 2, !.effects.regen = 1, !.effects.firstStrike = TRUE]>>]}

(* Two pets of one line, merged with either side of the chart. *)
MCLines == {"flame"}
MCPartners == {"earth", "dark"}
MCOthers == {<<"earth", "perfectPoor">>}
MCPicks == {"none", "flame_phoenix", "earth_boulder", "n_rally", "dg_flip"}
MCDodgePicks == {"dg_flip"}
=============================================================================
