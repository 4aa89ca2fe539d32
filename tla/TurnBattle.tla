----------------------------- MODULE TurnBattle -----------------------------
(* The turn-based fights: one against one                                  *)
(* (src/src/modules/monster/battle/battle-engine.ts), kept for the replay  *)
(* of stored fights, and a team against one boss (team-battle.ts).         *)
(*                                                                         *)
(* Both engines give every fighter still standing a turn each round: it    *)
(* burns, it regenerates, it strikes, and it may strike again.  The dice   *)
(* are choices here; every fight is a line-up of members and a boss, and   *)
(* a duel is one whose members are one, where a tie in speed is drawn.     *)
EXTENDS Integers, Sequences, FiniteSets, FiniteSetsExt, SequencesExt, Functions

CONSTANTS
    Battles,                \* the line-ups: [duel, fighters], the last of which is the boss
    MAX_ROUNDS, SKILL_EVERY_ROUNDS

VARIABLES battle, round, order, stage, actor, foe, side, damageByMember, over, told

vars == <<battle, round, order, stage, actor, foe, side, damageByMember, over, told>>

Least(a, b) == IF a < b THEN a ELSE b
Most(a, b) == IF a > b THEN a ELSE b
Share(n, pct) == Most(1, (n * pct) \div 100)

All == DOMAIN battle.fighters
Boss == Len(battle.fighters)
Members == All \ {Boss}
Fighter(f) == battle.fighters[f]
Effects(f) == battle.fighters[f].effects

(* What a fighter brings; percentages, turns and speed may be anything. *)
IsFighter(x) ==
    /\ x.hp \in Nat \ {0} /\ x.damage \in Nat
    /\ x.effects.shield \in Nat /\ x.effects.regen \in Nat /\ x.effects.burnTurns \in Int
    /\ x.effects.lifesteal \in Int /\ x.effects.thorns \in Int

RoundsAssumption ==
    \A b \in Battles :
        /\ Len(b.fighters) \in Nat \ {0, 1} /\ DOMAIN b.fighters = 1..Len(b.fighters)
        /\ \A f \in DOMAIN b.fighters : IsFighter(b.fighters[f])

makeCombatant(fighter) == [hp |-> fighter.hp, shield |-> fighter.effects.shield, burn |-> <<>>]

standing(s) == {f \in All : s[f].hp > 0}
isOver(s) == s[Boss].hp = 0 \/ \A m \in Members : s[m].hp = 0

Begin(b) ==
    /\ battle = b /\ round = 1
    /\ side = [f \in DOMAIN b.fighters |-> makeCombatant(b.fighters[f])]
    /\ damageByMember = [f \in 1..(Len(b.fighters) - 1) |-> 0]
    /\ told = [f \in DOMAIN b.fighters |-> b.fighters[f].hp]

Init ==
    /\ \E b \in Battles : Begin(b)
    /\ order = <<>> /\ stage = "round" /\ actor = 0 /\ foe = 0
    /\ over = FALSE

(* Who acts before whom: first strike, then speed; on a tie a team goes    *)
(* before its boss and a duel tosses for it.                               *)
Swift(f) == IF Effects(f).firstStrike THEN 1 ELSE 0
Before(f, g) ==
    \/ Swift(f) > Swift(g)
    \/ Swift(f) = Swift(g) /\ Fighter(f).spd > Fighter(g).spd
Tied(f, g) == ~Before(f, g) /\ ~Before(g, f)

Orders(fs) ==
    {o \in SetToSeqs(fs) : \A i, j \in DOMAIN o : i < j =>
        Before(o[i], o[j]) \/ (Tied(o[i], o[j]) /\ (battle.duel \/ o[i] < o[j]))}

NextRound ==
    /\ stage = "round" /\ ~over
    /\ order' \in Orders(standing(side))
    /\ stage' = "turn"
    /\ UNCHANGED <<battle, round, actor, foe, side, damageByMember, over, told>>

isSkill == round % SKILL_EVERY_ROUNDS = 0

(* What the events of this step tell of the fighters' HP *)
Tell(s, fs) == told' = [f \in All |-> IF f \in fs THEN s[f].hp ELSE told[f]]

(* The fight ends, or the next of the round acts, or the round is over. *)
EndTurn(s) ==
    /\ over' = (isOver(s) \/ (Len(order) = 1 /\ round = MAX_ROUNDS))
    /\ order' = Tail(order)
    /\ IF over' \/ Len(order) > 1 THEN stage' = "turn" /\ UNCHANGED round
       ELSE stage' = "round" /\ round' = round + 1

(* The start of a turn: the fire, then the healing. *)
Burnt(s, f) ==
    IF s[f].burn = <<>> THEN s
    ELSE LET b == s[f].burn[1] IN
         [s EXCEPT ![f].hp = Most(0, @ - b.damage),
                   ![f].burn = IF b.turns <= 1 THEN <<>> ELSE <<[b EXCEPT !.turns = @ - 1]>>]

Mended(s, f) ==
    IF s[f].hp = 0 THEN s ELSE [s EXCEPT ![f].hp = Least(Fighter(f).hp, @ + Effects(f).regen)]

(* Credit for HP the boss lost goes to the member responsible. *)
Credit(m, n) == [damageByMember EXCEPT ![m] = @ + n]

StartTurn ==
    /\ stage = "turn" /\ ~over /\ side[Head(order)].hp > 0
    /\ LET f == Head(order)
           burnt == Burnt(side, f)
           lost == side[f].hp - burnt[f].hp
           mended == Mended(burnt, f)
       IN /\ actor' = f
          /\ side' = mended
          /\ Tell(mended, {f})
          /\ damageByMember' = IF f = Boss /\ lost > 0 THEN Credit(side[f].burn[1].source, lost) ELSE damageByMember
          /\ IF burnt[f].hp = 0 THEN EndTurn(mended) /\ UNCHANGED foe
             ELSE /\ foe' \in IF f = Boss THEN Members \cap standing(mended) ELSE {Boss}
                  /\ stage' = "strike" /\ UNCHANGED <<order, round, over>>
    /\ UNCHANGED battle

(* A fighter that fell before its turn came is passed over. *)
Skip ==
    /\ stage = "turn" /\ ~over /\ side[Head(order)].hp = 0
    /\ EndTurn(side)
    /\ UNCHANGED <<battle, actor, foe, side, damageByMember, told>>

(* One hit of "damage" (0 when it was dodged): shield, HP, lifesteal (of the *)
(* whole blow in a duel, of the HP it took in a team's fight), thorns.       *)
Exchange(s, a, d, damage) ==
    LET absorbed == Least(s[d].shield, damage)
        lost == Least(s[d].hp, damage - absorbed)
        drained == IF battle.duel THEN damage - absorbed ELSE lost
        struck == [s EXCEPT ![d].shield = @ - absorbed, ![d].hp = @ - lost]
        healed == IF Effects(a).lifesteal > 0 /\ drained > 0
                  THEN Least(Fighter(a).hp - s[a].hp, Share(drained, Effects(a).lifesteal)) ELSE 0
        reflected == IF Effects(d).thorns > 0 /\ damage > 0 /\ struck[d].hp > 0
                     THEN Share(damage, Effects(d).thorns) ELSE 0
    IN [s |-> [struck EXCEPT ![a].hp = Most(0, @ + healed - reflected)],
        lost |-> lost, healed |-> healed, back |-> Least(s[a].hp + healed, reflected)]

(* Whose HP the event of a hit tells: actorHp is there when it changed. *)
ShownUnlessReflected(hit, a, d) == {d} \cup (IF hit.healed > 0 THEN {a} ELSE {})
Shown(hit, a, d) == {d} \cup (IF hit.healed > 0 \/ hit.back > 0 THEN {a} ELSE {})

Credited(hit, a, d) ==
    IF a # Boss THEN Credit(a, hit.lost)
    ELSE IF hit.back > 0 THEN Credit(d, hit.back)
    ELSE damageByMember

Rolls(f, g) ==
    (IF Effects(g).evasion THEN {0} ELSE {})
    \cup {Fighter(f).damage, Fighter(f).damage + 1}
Power(n, skill) == IF skill THEN 2 * n ELSE n

(* The stage's hit, and what becomes of the fight after it *)
Land(hit) ==
    /\ damageByMember' = Credited(hit, actor, foe)
    /\ Tell(hit.s, Shown(hit, actor, foe))

Lit(s) ==
    IF isSkill /\ Effects(actor).burnTurns > 0 /\ s[foe].hp > 0
    THEN [s EXCEPT ![foe].burn = <<[turns |-> Effects(actor).burnTurns, damage |-> 1, source |-> actor]>>]
    ELSE s

Strike ==
    /\ stage = "strike"
    /\ \E n \in Rolls(actor, foe) :
          LET hit == Exchange(side, actor, foe, Power(n, isSkill))
              falls == isOver(hit.s) \/ hit.s[actor].hp = 0
          IN /\ Land(hit)
             /\ side' = IF falls THEN hit.s ELSE Lit(hit.s)
             /\ \/ EndTurn(side')
                \/ /\ ~falls /\ Effects(actor).double
                   /\ stage' = "double" /\ UNCHANGED <<order, round, over>>
    /\ UNCHANGED <<battle, actor, foe>>

(* The extra hit: always a basic one, and it never chains. *)
StrikeAgain ==
    /\ stage = "double"
    /\ \E n \in Rolls(actor, foe) :
          LET hit == Exchange(side, actor, foe, n) IN
          Land(hit) /\ side' = hit.s /\ EndTurn(hit.s)
    /\ UNCHANGED <<battle, actor, foe>>

Ended == over /\ UNCHANGED vars

Next == NextRound \/ StartTurn \/ Skip \/ Strike \/ StrikeAgain \/ Ended

TurnBattle == Init /\ [][Next]_vars

---------------------------------------------------------------------------

TypeOK ==
    /\ round \in 1..(MAX_ROUNDS + 1) /\ stage \in {"round", "turn", "strike", "double"}
    /\ \A f \in All : side[f].hp \in 0..Fighter(f).hp /\ side[f].shield \in Nat

(* A boss with regeneration or lifesteal (team-battle.ts:121, :201).        *)
BossHeals == Effects(Boss).regen > 0 \/ Effects(Boss).lifesteal > 0

(* Whatever burns, reflects or overkills, no HP the boss has lost by the    *)
(* end goes without a member to whom it is credited, and none is credited   *)
(* twice: for a boss that cannot heal the members' totals are exactly the   *)
(* damage dealt, the HP it has less than at the start.  team-battle.ts:25   *)
(* and :132 promise that sum of every boss; of one that heals it is false,  *)
(* for damageDealt is read off its last HP (:73) while the members keep the *)
(* credit for what it healed since, so there their sum may be more.         *)
DamageAddsUp ==
    LET damageDealt == Fighter(Boss).hp - side[Boss].hp
        credited == SumFunction(damageByMember)
    IN credited >= damageDealt /\ (~BossHeals => credited = damageDealt)

(* The server decides the fight and the client only replays its events: the *)
(* HP a client reads from them is the HP of the fight, for both sides, at   *)
(* every event.                                                             *)
EventsTellTheHp == \A f \in All : told[f] = side[f].hp

=============================================================================
