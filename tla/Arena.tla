------------------------------- MODULE Arena -------------------------------
(* One fight of the real-time arena                                        *)
(* (src/src/modules/monster/arena/arena-engine).                           *)
(*                                                                         *)
(* Every tick each living fighter takes a turn in a shuffled order, then   *)
(* the projectiles fly, the zones land and the verdict is looked at.  The  *)
(* places of the fighters and the rolls of the dice are choices here; the  *)
(* clocks, the statuses and the books of every blow are the engine's.      *)
(* What a blow sets off (a counter, a retort, a look at the HP left) waits *)
(* in "todo", the calls the engine has still to return from.               *)
EXTENDS Integers, Sequences, FiniteSets, FiniteSetsExt, SequencesExt, Functions

CONSTANTS
    Fights,        \* the line-ups: sequences of fighter specs
    TICK, ARENA_MAX_TICKS, BASIC_CD, BASIC_WIND, SKILL_DELAY_TICKS,
    DASH_TICKS, HITSTUN, FLINCH_EVERY, CHARGE_TICKS, SHOT_LIFE,
    CC_WINDOW, LAST_STAND_BELOW, NoFighter

VARIABLES specs, fighters, tick, toAct, me, step, left, todo, shots, zones, winner

fight == <<specs, tick, toAct, me, step, left, shots, zones, winner>>
vars == <<fight, fighters, todo>>

---------------------------------------------------------------------------

HardControl == {"stun", "root", "silence"}
Debuffs == HardControl \cup {"burn", "poison", "curse", "blind", "static"}
ccSteps == <<100, 50, 0>>
POISON_MAX_STACKS == 3

Fighters == DOMAIN specs
Spec(f) == specs[f]
Passive(f) == specs[f].passive
Lower(a, b) == IF a < b THEN a ELSE b
Upper(a, b) == IF a > b THEN a ELSE b
Percent(n, pct) == (n * pct) \div 100
Down(n) == Upper(n - 1, 0)

alive(fs, f) == fs[f].hp > 0
has(x, st) == st \in DOMAIN x.st
Foes(f) == {o \in Fighters : specs[o].team # specs[f].team}
enemiesOf(fs, f) == {o \in Foes(f) : alive(fs, o)}
NoEvade == [how |-> "none"]

(* The k-th of a set of numbers, and a sequence cut down to some places *)
Nth(S, k) == CHOOSE i \in S : Cardinality({j \in S : j < i}) = k - 1
Those(s, which) == [k \in 1..Cardinality(which) |-> s[Nth(which, k)]]

(* The last two fields only remember: the HP a rebirth gave, and when hard  *)
(* control was landed on the fighter, and until when.                       *)
makeFighter(spec) ==
    [hp |-> spec.hp, shield |-> spec.passive.startShield, shieldT |-> 0,
     act |-> "move", actT |-> 0, kind |-> 0,
     basicCd |-> IF spec.passive.firstStrike THEN 0 ELSE 1,
     cds |-> [i \in DOMAIN spec.skills |-> IF spec.passive.firstStrike THEN 0 ELSE i],
     dodgeCd |-> 0, gcd |-> 0, vanish |-> 0, seized |-> FALSE, chargeHit |-> FALSE,
     evade |-> NoEvade, st |-> <<>>, ccCount |-> 0, ccUntil |-> 0, flinchReady |-> 0,
     rebirthUsed |-> FALSE, lastStandUsed |-> FALSE, target |-> NoFighter,
     dealt |-> 0, taken |-> 0, healed |-> 0, revived |-> 0, controls |-> <<>>]

(* What the tables of species, skills and passives hold *)
IsEffects(effects) ==
    /\ Len(effects) \in Nat /\ DOMAIN effects = 1..Len(effects)
    /\ \A i \in DOMAIN effects : effects[i].dur \in Nat
IsSkill(sk) ==
    /\ sk.kind \in {"melee", "burst", "shot", "zone", "charge", "self"}
    /\ {sk.hits, sk.wind, sk.delay, sk.heal, sk.shield, sk.lifesteal} \subseteq Nat
    /\ IsEffects(sk.fx)
IsSpec(spec) ==
    /\ {spec.hp, spec.passive.startShield, spec.passive.rebirth, spec.passive.lastStand, spec.passive.thorns,
        spec.passive.lifesteal, spec.passive.regen, spec.dodge.onDodge.blind} \subseteq Nat
    /\ spec.damage \subseteq Nat /\ spec.res \in Int /\ spec.dodge.parry \in Int
    /\ DOMAIN spec.skills = 1..Len(spec.skills) /\ \A i \in DOMAIN spec.skills : IsSkill(spec.skills[i])
    /\ IsEffects(spec.passive.onBasic) /\ IsEffects(spec.passive.retort)
Parameters ==
    /\ {CC_WINDOW, TICK, SHOT_LIFE} \subseteq Nat
    /\ \A s \in Fights : /\ Len(s) \in Nat /\ DOMAIN s = 1..Len(s)
                         /\ \A f \in DOMAIN s : IsSpec(s[f])

Init ==
    /\ specs \in Fights
    /\ fighters = [f \in DOMAIN specs |-> makeFighter(specs[f])]
    /\ tick = 1 /\ toAct = DOMAIN specs
    /\ me = NoFighter /\ step = "turns" /\ left = {}
    /\ todo = <<>> /\ shots = <<>> /\ zones = <<>> /\ winner = -1

---------------------------------------------------------------------------
(* Statuses                                                                *)

(* A bug: healing is not held to the HP that is missing. *)
healPast(x, f, amount) ==
    LET got == IF has(x, "curse") THEN amount \div 2 ELSE amount
    IN [x EXCEPT !.hp = Lower(Spec(f).hp, @ + got), !.healed = @ + got]

heal(x, f, amount) ==
    LET got == Lower(Spec(f).hp - x.hp, IF has(x, "curse") THEN amount \div 2 ELSE amount)
    IN [x EXCEPT !.hp = @ + got, !.healed = @ + got]

giveShield(x, amount, dur) ==
    [x EXCEPT !.shield = Upper(@, IF has(x, "curse") THEN amount \div 2 ELSE amount),
              !.shieldT = Upper(@, dur)]

(* Only a full cleanse frees a stunned fighter. *)
cleanse(x, only) ==
    [x EXCEPT !.st = Restrict(@, DOMAIN @ \ (Debuffs \cap only)),
              !.actT = IF x.act = "stun" /\ only = Debuffs THEN 0 ELSE @]

Was(x, st) == IF has(x, st) THEN x.st[st] ELSE [t |-> 0, stacks |-> 0, next |-> tick + TICK]

Put(x, st, dur, src) ==
    LET was == Was(x, st)
        entry == [t |-> Upper(was.t, dur), next |-> was.next, src |-> src,
                  stacks |-> IF st = "poison" THEN Lower(POISON_MAX_STACKS, was.stacks + 1) ELSE 1]
        put == [x EXCEPT !.st = [k \in DOMAIN x.st \cup {st} |-> IF k = st THEN entry ELSE x.st[k]]]
    IN IF st = "stun" THEN [put EXCEPT !.act = "stun", !.actT = dur, !.evade = NoEvade] ELSE put

(* A bug: the window runs from the first control only. *)
ControlStepOnce(x) == IF tick < x.ccUntil THEN 1 ELSE 0

(* How many hard controls in a row this one would be *)
ControlStep(x) == IF tick < x.ccUntil THEN x.ccCount + 1 ELSE 0

Resisted(f, fx, src) ==
    IF fx.st \in Debuffs /\ src \in Foes(f) THEN Percent(fx.dur, 100 - Spec(f).res) ELSE fx.dur

(* How long status "fx" from "src" lasts on f; 0 when hard control is shrugged off *)
StatusTime(x, f, fx, src) ==
    IF fx.st \notin HardControl THEN Resisted(f, fx, src)
    ELSE IF has(x, "immune") THEN 0
    ELSE Percent(Resisted(f, fx, src), ccSteps[Lower(ControlStep(x), 2) + 1])

addStatus(x, f, fx, src) ==
    LET dur == StatusTime(x, f, fx, src) IN
    IF x.hp = 0 \/ fx.dur = 0 THEN x
    ELSE IF fx.st \notin HardControl THEN Put(x, fx.st, dur, src)
    ELSE IF has(x, "immune") THEN x
    ELSE IF dur = 0 THEN [x EXCEPT !.ccCount = ControlStep(x)]
    ELSE [Put(x, fx.st, dur, src) EXCEPT !.ccCount = ControlStep(x), !.ccUntil = tick + dur + CC_WINDOW,
                                         !.controls = Append(@, [at |-> tick, until |-> tick + dur])]

(* One after the other, those of "effects" that are in "which" *)
addAll(x, f, effects, which, src) ==
    LET upTo[i \in 0..Len(effects)] ==
          IF i = 0 THEN x
          ELSE IF i \in which THEN addStatus(upTo[i - 1], f, effects[i], src) ELSE upTo[i - 1]
    IN upTo[Len(effects)]

checkLowHp(x, f) ==
    IF x.hp = 0 /\ Passive(f).rebirth > 0 /\ ~x.rebirthUsed
    THEN cleanse([x EXCEPT !.rebirthUsed = TRUE, !.hp = Passive(f).rebirth,
                          !.revived = @ + Passive(f).rebirth], Debuffs)
    ELSE IF x.hp > 0 /\ Passive(f).lastStand > 0 /\ ~x.lastStandUsed /\ x.hp * 100 < Spec(f).hp * LAST_STAND_BELOW
    THEN [giveShield(cleanse([x EXCEPT !.lastStandUsed = TRUE], Debuffs), Passive(f).lastStand, 6 * TICK)
            EXCEPT !.st = [k \in DOMAIN @ \cup {"immune"} |->
                             IF k = "immune" THEN [t |-> 2 * TICK, stacks |-> 1, next |-> 0, src |-> f] ELSE @[k]]]
    ELSE IF x.hp = 0 THEN [x EXCEPT !.act = "move"]
    ELSE x

Look(fs, f) == [fs EXCEPT ![f] = checkLowHp(@, f)]

---------------------------------------------------------------------------
(* Dodging                                                                 *)

canDash(x) ==
    /\ x.hp > 0 /\ ~has(x, "stun") /\ ~x.seized
    /\ x.act \in {"move", "stun"} \/ (x.act = "wind" /\ x.kind = 0)

(* The ways planDodge may go: a dodge that is ready is always rolled, its  *)
(* chance is neither 0 nor 100, and its cooldown starts either way.        *)
planDodge(fs, d, a, how, land) ==
    LET dodge == Spec(d).dodge
        tried == [fs EXCEPT ![d].dodgeCd = dodge.cd]
        plan == [how |-> IF dodge.parry > 0 THEN "parry" ELSE how, from |-> a, active |-> dodge.parry > 0,
                 used |-> FALSE, dash |-> land - 2, until |-> IF how = "timed" THEN land + 2 ELSE tick + 70]
    IN IF dodge.cd = 0 \/ fs[d].dodgeCd > 0 \/ ~canDash(fs[d]) THEN {fs}
       ELSE {tried, [tried EXCEPT ![d].evade = plan]}

Blow(a, d, sk, melee, retort) ==
    [op |-> "hit", by |-> a, at |-> d, sk |-> sk, melee |-> melee, retort |-> retort]
(* A counter or a retort hits like the basic attack, without its effects. *)
COUNTER == -1

(* The effects of a dodge, and the counter that follows it if the attacker is near *)
afterDodge(fs, d, a) ==
    LET on == Spec(d).dodge.onDodge
        own == IF on.cleanse THEN cleanse(fs[d], Debuffs) ELSE fs[d]
        moved == [fs EXCEPT ![d] = [own EXCEPT !.vanish = Upper(@, on.vanish)]]
    IN IF on.blind > 0 THEN [moved EXCEPT ![a] = addStatus(@, a, [st |-> "blind", dur |-> on.blind], d)] ELSE moved

Counters(fs, d, a) ==
    IF Spec(d).dodge.onDodge.counter /\ alive(fs, a)
    THEN {<<>>, <<Blow(d, a, COUNTER, FALSE, TRUE)>>} ELSE {<<>>}

(* A dash taken against a known attack: it counts now. *)
Dashed(fs, d, window) ==
    LET x == fs[d]
        done == [x.evade EXCEPT !.active = TRUE, !.used = TRUE, !.how = "done",
                                !.until = IF window > 0 THEN tick + window ELSE @]
    IN [fs EXCEPT ![d] = [x EXCEPT !.act = "dodge", !.actT = DASH_TICKS, !.evade = done,
                                   !.kind = IF x.act = "wind" THEN 0 ELSE x.kind]]

(* dashNow: a pair of the fighters after it and what is still to be done *)
dashNow(fs, d, window) ==
    IF ~canDash(fs[d]) THEN {<<[fs EXCEPT ![d].evade = NoEvade], <<>>>>}
    ELSE LET after == afterDodge(Dashed(fs, d, window), d, fs[d].evade.from)
         IN {<<after, more>> : more \in Counters(after, d, fs[d].evade.from)}

---------------------------------------------------------------------------
(* The calls still to return from                                          *)

Now == Head(todo)
Calling(op) == todo # <<>> /\ Now.op = op
Return(more) == todo' = more \o Tail(todo)
Call(more) == todo' = more
Same == UNCHANGED fight

Evading(d, a) ==
    \/ fighters[d].vanish > 0
    \/ /\ fighters[d].evade.how # "none"
       /\ fighters[d].evade.active /\ fighters[d].evade.from = a /\ tick <= fighters[d].evade.until

Parrying(d, a) ==
    /\ Evading(d, a) /\ fighters[d].vanish = 0
    /\ fighters[d].evade.how = "parry"

(* A hit on nobody, or by nobody: the fallen neither strike nor are struck. *)
StrikeInVain ==
    /\ Calling("hit")
    /\ ~alive(fighters, Now.by) \/ ~alive(fighters, Now.at)
    /\ Return(<<>>) /\ Same /\ UNCHANGED fighters

StrikeDodged ==
    /\ Calling("hit") /\ alive(fighters, Now.by) /\ alive(fighters, Now.at)
    /\ Evading(Now.at, Now.by) /\ ~Parrying(Now.at, Now.by)
    /\ LET d == Now.at IN
       IF fighters[d].evade.how # "none" /\ ~fighters[d].evade.used
       THEN LET after == afterDodge([fighters EXCEPT ![d].evade.used = TRUE], d, Now.by) IN
            /\ fighters' = after
            /\ \E more \in Counters(after, d, Now.by) : Return(more)
       ELSE Return(<<>>) /\ UNCHANGED fighters
    /\ Same

StrikeBlind ==
    /\ Calling("hit") /\ alive(fighters, Now.by) /\ alive(fighters, Now.at)
    /\ Evading(Now.at, Now.by) => Parrying(Now.at, Now.by)
    /\ has(fighters[Now.by], "blind")
    /\ Return(<<>>) /\ Same /\ UNCHANGED fighters

(* The status effects a blow may bring *)
Brought(a, sk) ==
    IF sk = 0 THEN Passive(a).onBasic ELSE IF sk = COUNTER THEN <<>> ELSE Spec(a).skills[sk].fx

(* Which of them land on the other: certain ones do, the others may. *)
Rolled(effects) ==
    LET against == {i \in DOMAIN effects : ~effects[i].self} IN
    {which \in SUBSET against : \A i \in against : effects[i].ch >= 100 => i \in which}

Lifesteal(a, sk) ==
    IF sk = 0 THEN Passive(a).lifesteal ELSE IF sk = COUNTER THEN 0 ELSE Spec(a).skills[sk].lifesteal

(* A blow of "dmg" that reaches d: the shield, the HP, the lifesteal, the  *)
(* thorns and the flinch.                                                  *)
Absorbed(fs, d, dmg) == Lower(fs[d].shield, dmg)
Lost(fs, d, dmg) == Lower(fs[d].hp, dmg - Absorbed(fs, d, dmg))

Struck(fs, a, d, absorbed, lost) ==
    [fs EXCEPT ![d].shield = @ - absorbed, ![d].hp = @ - lost, ![d].taken = @ + lost, ![a].dealt = @ + lost]
Fed(fs, a, sk, lost) ==
    IF Lifesteal(a, sk) > 0 /\ lost > 0
    THEN [fs EXCEPT ![a] = heal(@, a, Upper(1, Percent(lost, Lifesteal(a, sk))))] ELSE fs
Pricked(fs, a, d, lost) ==
    LET back == Lower(fs[a].hp, Upper(1, Percent(lost, Passive(d).thorns)))
    IN [fs EXCEPT ![a].hp = @ - back, ![a].taken = @ + back, ![d].dealt = @ + back]
Flinched(x) ==
    IF x.act = "move" /\ x.hp > 0 /\ tick >= x.flinchReady
    THEN [x EXCEPT !.flinchReady = tick + FLINCH_EVERY, !.act = "stun", !.actT = HITSTUN] ELSE x

Wounded(fs, a, d, sk, dmg, retort) ==
    LET lost == Lost(fs, d, dmg)
        fed == Fed(Struck(fs, a, d, Absorbed(fs, d, dmg), lost), a, sk, lost)
        pricked == IF Passive(d).thorns > 0 /\ lost > 0 /\ ~retort THEN Pricked(fed, a, d, lost) ELSE fed
    IN [pricked EXCEPT ![d] = Flinched(@)]

StrikeLands ==
    /\ Calling("hit") /\ alive(fighters, Now.by) /\ alive(fighters, Now.at)
    /\ Evading(Now.at, Now.by) => Parrying(Now.at, Now.by)
    /\ LET a == Now.by  d == Now.at  parried == Parrying(d, a) IN
       \E power \in Spec(a).damage, which \in Rolled(Brought(a, Now.sk)), near \in BOOLEAN :
          LET dmg == IF parried THEN Upper(1, Percent(power, 100 - Spec(d).dodge.parry)) ELSE power
              noted == IF parried THEN [fighters EXCEPT ![d].evade.used = TRUE] ELSE fighters
              hurt == Wounded(noted, a, d, Now.sk, dmg, Now.retort)
              retorts == Now.melee /\ Passive(d).retort # <<>> /\ alive(hurt, a) /\ near /\ ~Now.retort
          IN /\ fighters' = [hurt EXCEPT ![d] = addAll(@, d, Brought(a, Now.sk), which, a)]
             /\ Return((IF retorts THEN <<Blow(d, a, COUNTER, FALSE, TRUE), [op |-> "retort", by |-> d, at |-> a]>>
                        ELSE <<>>) \o <<[op |-> "look", at |-> d], [op |-> "look", at |-> a]>>)
    /\ Same

(* The status of a retort lands, even when the one who retorts has fallen. *)
RetortLands ==
    /\ Calling("retort")
    /\ LET effects == Passive(Now.by).retort IN
       \E which \in Rolled(effects) :
          fighters' = [fighters EXCEPT ![Now.at] = addAll(@, Now.at, effects, which, Now.by)]
    /\ Return(<<>>) /\ Same

LookAtHp ==
    /\ Calling("look")
    /\ fighters' = Look(fighters, Now.at)
    /\ Return(<<>>) /\ Same

(* An attack that is seen coming at a place, by those near it *)
SeeComing ==
    /\ Calling("see")
    /\ fighters' \in planDodge(fighters, Now.at, Now.by, "timed", Now.land)
    /\ Return(<<>>) /\ Same
Seen(near, a, land) ==
    [i \in 1..Cardinality(near) |-> [op |-> "see", by |-> a, at |-> Nth(near, i), land |-> land]]

---------------------------------------------------------------------------
(* A turn                                                                  *)

BeginTurn ==
    /\ step = "turns" /\ me = NoFighter /\ todo = <<>>
    /\ \E f \in toAct :
          LET x == fighters[f] IN
          /\ toAct' = toAct \ {f}
          /\ IF x.hp = 0 THEN UNCHANGED <<me, left, fighters>>
             ELSE /\ me' = f /\ left' = DOMAIN x.st
                  /\ fighters' = [fighters EXCEPT ![f] =
                       [x EXCEPT !.basicCd = Down(@), !.cds = [i \in DOMAIN @ |-> Down(@[i])],
                                 !.dodgeCd = Down(@), !.gcd = Down(@), !.vanish = Down(@),
                                 !.shieldT = Down(@), !.shield = IF x.shieldT = 1 THEN 0 ELSE @]]
    /\ UNCHANGED <<specs, tick, step, todo, shots, zones, winner>>

(* One second of a status: burn and poison bite, regeneration heals. *)
Bitten(fs, f, st) ==
    LET s == fs[f].st[st]
        lost == Lower(fs[f].hp, s.stacks)
        timed == [fs EXCEPT ![f].st[st].next = tick + TICK]
        hurt == [timed EXCEPT ![f].hp = @ - lost, ![f].taken = @ + lost]
    IN IF tick < s.next \/ st \notin {"burn", "poison", "regen"} THEN fs
       ELSE IF st = "regen" THEN [timed EXCEPT ![f] = heal(@, f, 1)]
       ELSE Look([hurt EXCEPT ![s.src].dealt = @ + lost], f)

CountDown(x, st) ==
    IF ~has(x, st) THEN x
    ELSE IF x.st[st].t <= 1 THEN [x EXCEPT !.st = Restrict(@, DOMAIN @ \ {st})]
    ELSE [x EXCEPT !.st[st].t = @ - 1]

CountStatus ==
    /\ step = "turns" /\ me # NoFighter /\ todo = <<>>
    /\ \E st \in left :
          LET bitten == IF has(fighters[me], st) THEN Bitten(fighters, me, st) ELSE fighters
              over == ~alive(bitten, me)
          IN /\ fighters' = IF over THEN bitten ELSE [bitten EXCEPT ![me] = CountDown(@, st)]
             /\ left' = IF over THEN {} ELSE left \ {st}
             /\ me' = IF over THEN NoFighter ELSE me
    /\ UNCHANGED <<specs, tick, toAct, step, todo, shots, zones, winner>>

(* The shield that comes back, the healing of every second *)
Refreshed(x, f) ==
    LET p == Passive(f)
        shielded == IF p.shieldEvery > 0 /\ tick % p.shieldEvery = 0 THEN giveShield(x, 1, p.shieldEvery) ELSE x
    IN IF p.regen > 0 /\ tick % TICK = f % TICK THEN heal(shielded, f, p.regen) ELSE shielded

Targets(fs, f) == {o \in enemiesOf(fs, f) : fs[o].vanish = 0}

Wear(x) == IF x.actT <= 1 THEN [x EXCEPT !.act = "move", !.actT = 0] ELSE [x EXCEPT !.actT = @ - 1]

(* The fighter looks for a target and dodges what it saw coming. *)
LookAround ==
    /\ step = "turns" /\ me # NoFighter /\ left = {} /\ todo = <<>>
    /\ LET fs == [fighters EXCEPT ![me] = Refreshed(@, me)]
           ev == fs[me].evade
       IN IF Targets(fs, me) = {}
          THEN /\ fighters' = [fs EXCEPT ![me] =
                    [(IF @.act \in {"dodge", "stun", "charge"} THEN Wear(@) ELSE @) EXCEPT !.target = NoFighter]]
               /\ me' = NoFighter /\ UNCHANGED <<todo, step>>
          ELSE \E o \in Targets(fs, me) :
               LET aimed == [fs EXCEPT ![me].target = o] IN
               /\ step' = "act" /\ me' = me
               /\ IF ev.how # "none" /\ tick > ev.until
                  THEN fighters' = [aimed EXCEPT ![me].evade = NoEvade] /\ UNCHANGED todo
                  ELSE IF ev.how = "timed" /\ ev.dash = tick
                  THEN \E done \in dashNow(aimed, me, 0) : fighters' = done[1] /\ Call(done[2])
                  ELSE \/ fighters' = aimed /\ UNCHANGED todo
                       \/ /\ ev.how = "charge" /\ aimed[ev.from].act = "charge"
                          /\ \E done \in dashNow(aimed, me, 8) : fighters' = done[1] /\ Call(done[2])
    /\ UNCHANGED <<specs, tick, toAct, left, shots, zones, winner>>

Acting(act) == step = "act" /\ todo = <<>> /\ fighters[me].act = act
EndTurn == step' = "turns" /\ me' = NoFighter
Hits(a, d, sk, n) == [i \in 1..n |-> Blow(a, d, sk, TRUE, FALSE)]
Around(a, near, sk) == [i \in 1..Cardinality(near) |-> Blow(a, Nth(near, i), sk, FALSE, FALSE)]

(* What a skill does to its user *)
OnSelf(x, f, sk) ==
    LET effects == addAll(x, f, sk.fx, {i \in DOMAIN sk.fx : sk.fx[i].self}, f)
        healthy == heal(effects, f, sk.heal)
        safe == IF sk.shield > 0 THEN giveShield(healthy, sk.shield, 4 * TICK) ELSE healthy
        clean == IF sk.cleanse THEN cleanse(safe, Debuffs) ELSE safe
    IN cleanse(clean, sk.cleanseOnly)

BASIC == [kind |-> "melee", hits |-> 1, cd |-> 0, wind |-> BASIC_WIND, fx |-> <<>>, heal |-> 0,
          shield |-> 0, cleanse |-> FALSE, cleanseOnly |-> {}, lifesteal |-> 0]
SkillOf(f, k) == IF k = 0 THEN BASIC ELSE Spec(f).skills[k]

WindUp ==
    /\ Acting("wind") /\ fighters[me].actT > 1
    /\ fighters' = [fighters EXCEPT ![me].actT = @ - 1]
    /\ EndTurn /\ UNCHANGED <<specs, tick, toAct, left, todo, shots, zones, winner>>

(* The blow leaves: on the target, on all around, as a shot, a zone or a charge. *)
release ==
    /\ Acting("wind") /\ fighters[me].actT <= 1
    /\ LET k == fighters[me].kind
           sk == SkillOf(me, k)
           o == fighters[me].target
           fs == [fighters EXCEPT ![me] = OnSelf([@ EXCEPT !.act = "move", !.actT = 0], me, sk)]
       IN \/ /\ sk.kind = "self" \/ ~alive(fs, o)
             /\ fighters' = fs /\ UNCHANGED <<todo, shots, zones>>
          \/ /\ sk.kind = "melee" /\ alive(fs, o)
             /\ \E n \in {0, sk.hits} \cup (IF k = 0 /\ Passive(me).doubleStrike THEN {2} ELSE {}) :
                   Call(Hits(me, o, k, n))
             /\ fighters' = fs /\ UNCHANGED <<shots, zones>>
          \/ /\ sk.kind = "burst" /\ alive(fs, o)
             /\ \E near \in SUBSET enemiesOf(fs, me) :
                   Call(Around(me, near, k))
             /\ fighters' = fs /\ UNCHANGED <<shots, zones>>
          \/ /\ sk.kind = "shot" /\ alive(fs, o)
             /\ fighters' \in planDodge(fs, o, me, "shot", 0)
             /\ shots' = shots \o [i \in 1..sk.hits |-> [owner |-> me, aim |-> o, life |-> SHOT_LIFE, sk |-> k]]
             /\ UNCHANGED <<todo, zones>>
          \/ /\ sk.kind = "zone" /\ alive(fs, o)
             /\ fighters' = fs
             /\ \E near \in SUBSET enemiesOf(fs, me) : Call(Seen(near \cup {o}, me, tick + sk.delay))
             /\ zones' = Append(zones, [owner |-> me, t |-> sk.delay, sk |-> k])
             /\ UNCHANGED shots
          \/ /\ sk.kind = "charge" /\ alive(fs, o)
             /\ LET away == [fs EXCEPT ![me] = [@ EXCEPT !.act = "charge", !.actT = CHARGE_TICKS, !.chargeHit = FALSE]] IN
                \E planned \in planDodge(away, o, me, "charge", 0) :
                   fighters' = IF planned[o].evade.how # "none" /\ planned[o].evade.from = me
                               THEN [planned EXCEPT ![o].evade.until = tick + CHARGE_TICKS + 2] ELSE planned
             /\ UNCHANGED <<todo, shots, zones>>
    /\ EndTurn /\ UNCHANGED <<specs, tick, toAct, left, winner>>

(* A charge hits the first enemy it reaches, once; what the hit set off is *)
(* over before its clock is looked at.                                     *)
ChargeReaches ==
    /\ Acting("charge") /\ ~fighters[me].chargeHit
    /\ \E o \in enemiesOf(fighters, me) : Call(<<Blow(me, o, fighters[me].kind, TRUE, FALSE)>>)
    /\ fighters' = [fighters EXCEPT ![me].chargeHit = TRUE]
    /\ step' = "charged"
    /\ UNCHANGED <<specs, tick, toAct, me, left, shots, zones, winner>>

ChargeOn ==
    /\ Acting("charge") \/ (step = "charged" /\ todo = <<>>)
    /\ fighters' = [fighters EXCEPT ![me] = Wear(@)]
    /\ EndTurn /\ UNCHANGED <<specs, tick, toAct, left, todo, shots, zones, winner>>

(* A dash or a stun runs its time. *)
Held ==
    /\ Acting("dodge") \/ Acting("stun")
    /\ fighters' = [fighters EXCEPT ![me] = [Wear(fighters[me]) EXCEPT !.seized = @ /\ fighters[me].actT > 1]]
    /\ EndTurn /\ UNCHANGED <<specs, tick, toAct, left, todo, shots, zones, winner>>

Ready(x, i) == x.cds[i] = 0 /\ x.gcd = 0 /\ ~has(x, "silence")

(* A self skill is used when there is something to heal, shed or put on. *)
Wanted(x, f, sk) ==
    sk.kind = "self" =>
        \/ sk.heal > 0 /\ x.hp * 4 < Spec(f).hp * 3
        \/ sk.cleanse /\ DOMAIN x.st \cap Debuffs # {}
        \/ DOMAIN x.st \cap sk.cleanseOnly # {}
        \/ sk.shield > 0 /\ x.shield = 0
        \/ \E i \in DOMAIN sk.fx : sk.fx[i].self /\ ~has(x, sk.fx[i].st)

(* Static: a chance to seize up whenever an action starts *)
Seize ==
    /\ Acting("move") /\ has(fighters[me], "static")
    /\ fighters[me].basicCd = 0 \/ \E i \in DOMAIN Spec(me).skills :
          Ready(fighters[me], i) /\ Wanted(fighters[me], me, Spec(me).skills[i])
    /\ fighters' = [fighters EXCEPT ![me] = [@ EXCEPT !.act = "stun", !.actT = 1, !.seized = TRUE]]
    /\ EndTurn /\ UNCHANGED <<specs, tick, toAct, left, todo, shots, zones, winner>>

Cast ==
    /\ Acting("move")
    /\ \E i \in DOMAIN Spec(me).skills :
          LET sk == Spec(me).skills[i]
              delay == IF sk.kind = "self" THEN SKILL_DELAY_TICKS \div 2 ELSE SKILL_DELAY_TICKS
              fs == [fighters EXCEPT ![me] = [@ EXCEPT !.act = "wind", !.actT = sk.wind, !.kind = i,
                                                      !.cds[i] = sk.cd, !.gcd = sk.wind + delay]]
          IN /\ Ready(fighters[me], i) /\ Wanted(fighters[me], me, sk)
             /\ fighters' = fs
             /\ \E near \in SUBSET enemiesOf(fs, me) :
                   Call(Seen(CASE sk.kind = "melee" -> {fs[me].target} [] sk.kind = "burst" -> near [] OTHER -> {},
                             me, tick + sk.wind))
    /\ EndTurn /\ UNCHANGED <<specs, tick, toAct, left, shots, zones, winner>>

BasicAttack ==
    /\ Acting("move") /\ fighters[me].basicCd = 0
    /\ LET fs == [fighters EXCEPT ![me] = [@ EXCEPT !.act = "wind", !.actT = BASIC_WIND, !.kind = 0,
                                                   !.basicCd = BASIC_CD]]
       IN fighters' \in planDodge(fs, fs[me].target, me, "timed", tick + BASIC_WIND)
    /\ EndTurn /\ UNCHANGED <<specs, tick, toAct, left, todo, shots, zones, winner>>

(* It walks: out of a marked zone, to its target or around it. *)
Walk ==
    /\ Acting("move")
    /\ EndTurn /\ UNCHANGED <<specs, tick, toAct, left, fighters, todo, shots, zones, winner>>

---------------------------------------------------------------------------
(* After the turns                                                         *)

(* Projectiles fly one after the other, and marked zones count down. *)
Fly ==
    /\ step = "turns" /\ me = NoFighter /\ todo = <<>> /\ toAct = {}
    /\ step' = "flown"
    /\ LET flying == Those(shots, {i \in DOMAIN shots : shots[i].life > 0}) IN
       /\ shots' = [i \in DOMAIN flying |-> [flying[i] EXCEPT !.life = @ - 1]]
       /\ todo' = [i \in DOMAIN flying |-> [op |-> "shot", shot |-> i]]
    /\ UNCHANGED <<specs, fighters, tick, toAct, me, left, zones, winner>>

(* The one it was aimed at may dash when it comes near. *)
ShotNears ==
    /\ Calling("shot")
    /\ LET s == shots[Now.shot]  ev == fighters[s.aim].evade  strike == <<[op |-> "strike", shot |-> Now.shot]>> IN
       \/ fighters' = fighters /\ Return(strike)
       \/ /\ ev.how = "shot" /\ ev.from = s.owner
          /\ \E done \in dashNow(fighters, s.aim, 10) : fighters' = done[1] /\ Return(done[2] \o strike)
    /\ Same

(* It strikes an enemy and is gone, leaves the arena, or flies on. *)
ShotStrikes ==
    /\ Calling("strike")
    /\ LET s == shots[Now.shot] IN
       \/ Return(<<>>) /\ UNCHANGED shots
       \/ /\ shots' = [shots EXCEPT ![Now.shot].life = 0]
          /\ \/ Return(<<>>)
             \/ \E o \in enemiesOf(fighters, s.owner) : Return(<<Blow(s.owner, o, s.sk, FALSE, FALSE)>>)
    /\ UNCHANGED <<specs, tick, toAct, me, step, left, zones, winner, fighters>>

ZonesLand ==
    /\ step = "flown" /\ todo = <<>>
    /\ step' = "landed"
    /\ LET due == Those(zones, {i \in DOMAIN zones : zones[i].t = 1})
           marked == Those(zones, {i \in DOMAIN zones : zones[i].t > 1})
       IN /\ todo' = [i \in DOMAIN due |-> [op |-> "zone", by |-> due[i].owner, sk |-> due[i].sk]]
          /\ zones' = [i \in DOMAIN marked |-> [marked[i] EXCEPT !.t = @ - 1]]
    /\ UNCHANGED <<specs, fighters, tick, toAct, me, left, shots, winner>>

ZoneStrikes ==
    /\ Calling("zone")
    /\ \E near \in SUBSET enemiesOf(fighters, Now.by) : Return(Around(Now.by, near, Now.sk))
    /\ Same /\ UNCHANGED fighters

Standing(team) == \E f \in Fighters : specs[f].team = team /\ alive(fighters, f)
HpOf(team) == FoldFunctionOnSet(LAMBDA x, n : x.hp + n, 0, fighters, {f \in Fighters : specs[f].team = team})
MaxHpOf(team) == FoldFunctionOnSet(LAMBDA x, n : x.hp + n, 0, specs, {f \in Fighters : specs[f].team = team})

Verdict ==
    /\ step = "landed" /\ todo = <<>> /\ winner = -1
    /\ IF ~Standing(0) \/ ~Standing(1)
       THEN winner' = (IF Standing(0) THEN 0 ELSE 1) /\ UNCHANGED <<tick, toAct, step>>
       ELSE IF tick = ARENA_MAX_TICKS
       THEN /\ winner' = IF HpOf(0) * MaxHpOf(1) >= HpOf(1) * MaxHpOf(0) THEN 0 ELSE 1
            /\ UNCHANGED <<tick, toAct, step>>
       ELSE tick' = tick + 1 /\ toAct' = Fighters /\ step' = "turns" /\ UNCHANGED winner
    /\ UNCHANGED <<specs, fighters, me, left, todo, shots, zones>>

Finished == winner # -1 /\ UNCHANGED vars

Next ==
    \/ StrikeInVain \/ StrikeDodged \/ StrikeBlind \/ StrikeLands \/ RetortLands \/ LookAtHp \/ SeeComing
    \/ BeginTurn \/ CountStatus \/ LookAround
    \/ WindUp \/ release \/ ChargeReaches \/ ChargeOn \/ Held \/ Seize \/ Cast \/ BasicAttack \/ Walk
    \/ Fly \/ ShotNears \/ ShotStrikes \/ ZonesLand \/ ZoneStrikes \/ Verdict \/ Finished

Arena == Init /\ [][Next]_vars

---------------------------------------------------------------------------

TypeOK ==
    /\ tick \in 1..ARENA_MAX_TICKS /\ winner \in {-1, 0, 1}
    /\ \A f \in Fighters :
          /\ fighters[f].hp \in 0..Spec(f).hp
          /\ {fighters[f].shield, fighters[f].dealt, fighters[f].taken, fighters[f].healed} \subseteq Nat
          /\ fighters[f].act \in {"move", "wind", "dodge", "stun", "charge"}

Sum(field) == SumFunction([f \in Fighters |-> fighters[f][field]])

(* Whatever shields, thorns, lifesteal, burning, healing and rebirths come *)
(* together, a fighter's HP is what it began with, minus what was taken,    *)
(* plus what was healed and what its rebirth gave, and every point taken    *)
(* was dealt by somebody: the damage a week's boss or a dummy is credited   *)
(* with is HP that was really lost.                                         *)
HpIsAccounted ==
    /\ \A f \in Fighters :
          fighters[f].hp = Spec(f).hp - fighters[f].taken + fighters[f].healed + fighters[f].revived
    /\ Sum("dealt") = Sum("taken")

(* Diminishing returns: two hard controls in a row leave the fighter free   *)
(* of a third until a whole window has passed after the second one ended.   *)
ControlWearsOff ==
    \A f \in Fighters : LET all == fighters[f].controls IN \A i \in 1..(Len(all) - 2) :
        LET first == all[i]  second == all[i + 1]  third == all[i + 2] IN
        \/ second.at >= first.until + CC_WINDOW
        \/ third.at >= second.until + CC_WINDOW

=============================================================================
