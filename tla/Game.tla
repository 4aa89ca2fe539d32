-------------------------------- MODULE Game --------------------------------
(***************************************************************************)
(* The whole game around the monsters: Play, and the parts of one player    *)
(* alone, PassiveTree, Arena, TurnBattle and Loadout.  A behaviour is about *)
(* one of them, as in Play.                                                 *)
(***************************************************************************)
EXTENDS Play

CONSTANTS
    PASSIVE_BRANCH_REFUND_CAP, TreePlans,                      \* PassiveTree
    OpeningTrees, OpeningProgress, OpeningGems,
    Duels, TICK, ARENA_MAX_TICKS, BASIC_CD, BASIC_WIND,        \* Arena
    SKILL_DELAY_TICKS, DASH_TICKS, HITSTUN, FLINCH_EVERY, CHARGE_TICKS, SHOT_LIFE, CC_WINDOW,
    LAST_STAND_BELOW, NoFighter,
    Battles, MAX_ROUNDS, SKILL_EVERY_ROUNDS,                   \* TurnBattle
    MyLines, Partners, Others, Picks, DodgePicks, MAX_PETS     \* Loadout

VARIABLES
    mine, earned, cost, wallet, row, gems, progress,
    taken, restarts, paidRepicks, capped, elsewhere,
    specs, fighters, tick, toAct, me, left, todo, shots, zones, winner,
    battle, round, order, stage, actor, foe, side, damageByMember, over, told,
    pet, dex, slots, kept, made, pets

ofTree == <<mine, earned, cost, wallet, row, gems, progress,
            taken, restarts, paidRepicks, capped, elsewhere>>
ofArena == <<specs, fighters, tick, toAct, me, left, todo, shots, zones, winner>>
ofBattles == <<battle, round, order, stage, actor, foe, side, damageByMember, over, told>>
ofLoadout == <<pet, dex, slots, kept, made, pets>>
ofFights == <<ofArena, ofBattles, ofLoadout>>
gameVars == <<playVars, ofTree, ofFights>>

---------------------------------------------------------------------------

Tree == INSTANCE PassiveTree WITH Plans <- TreePlans
Duel == INSTANCE Arena WITH Fights <- Duels
Rounds == INSTANCE TurnBattle
Skills == INSTANCE Loadout

ASSUME TreeParameters == Tree!TreeAssumption
ASSUME DuelParameters == Duel!Parameters
ASSUME RoundsParameters == Rounds!RoundsAssumption

---------------------------------------------------------------------------

NoTree == mine = Idle /\ earned = Idle /\ cost = Idle /\ wallet = Idle /\ row = Idle /\ gems = Idle
          /\ progress = Idle /\ taken = Idle /\ restarts = Idle /\ paidRepicks = Idle /\ capped = Idle
          /\ elsewhere = Idle
NoArena == specs = Idle /\ fighters = Idle /\ tick = Idle /\ toAct = Idle /\ me = Idle /\ left = Idle
           /\ todo = Idle /\ shots = Idle /\ zones = Idle /\ winner = Idle
NoBattles == battle = Idle /\ round = Idle /\ order = Idle /\ stage = Idle /\ actor = Idle /\ foe = Idle
             /\ side = Idle /\ damageByMember = Idle /\ over = Idle /\ told = Idle
NoLoadout == pet = Idle /\ dex = Idle /\ slots = Idle /\ kept = Idle /\ made = Idle /\ pets = Idle
NoFights == NoArena /\ NoBattles /\ NoLoadout

GameInit ==
    \/ PlayInit /\ NoTree /\ NoFights
    \/ /\ live = "tree" /\ Tree!Init
       /\ step = Idle /\ seen = Idle /\ now = Idle /\ began = Idle /\ fresh = Idle /\ day = Idle
       /\ paid = Idle /\ bag = Idle /\ log = Idle /\ clock = Idle
       /\ NoGoods /\ NoFriends /\ NoQuests /\ NoStages /\ NoPvp /\ NoFights
    \/ /\ live = "arena" /\ Duel!Init
       /\ plan = Idle /\ pc = Idle /\ holder = Idle /\ seen = Idle /\ now = Idle /\ began = Idle
       /\ fresh = Idle /\ day = Idle /\ paid = Idle /\ bag = Idle /\ log = Idle /\ clock = Idle
       /\ NoGoods /\ NoFriends /\ NoQuests /\ NoStages /\ NoPvp /\ NoTree /\ NoBattles /\ NoLoadout
    \/ /\ live \in {"battles", "loadout"}
       /\ IF live = "battles" THEN Rounds!Init /\ NoLoadout ELSE Skills!Init /\ NoBattles
       /\ plan = Idle /\ pc = Idle /\ holder = Idle /\ step = Idle /\ seen = Idle /\ now = Idle /\ began = Idle
       /\ fresh = Idle /\ day = Idle /\ paid = Idle /\ bag = Idle /\ log = Idle /\ clock = Idle
       /\ NoGoods /\ NoFriends /\ NoQuests /\ NoStages /\ NoPvp /\ NoTree /\ NoArena

GameShared == PlayNext /\ UNCHANGED <<ofTree, ofFights>>
GameTree ==
    /\ live = "tree" /\ Tree!Next
    /\ UNCHANGED <<live, step, seen, now, began, fresh, day, paid, bag, log, clock,
                   ofGoods, ofFriends, ofQuests, ofStages, ofPvp, ofFights>>
GameArena ==
    /\ live = "arena" /\ Duel!Next
    /\ UNCHANGED <<live, plan, pc, holder, seen, now, began, fresh, day, paid, bag, log, clock,
                   ofGoods, ofFriends, ofQuests, ofStages, ofPvp, ofTree, ofBattles, ofLoadout>>
GameBattles ==
    /\ live = "battles" /\ Rounds!Next
    /\ UNCHANGED <<live, ofRequests, ofGoods, ofFriends, ofQuests, ofStages, ofPvp, ofTree, ofArena, ofLoadout>>
GameLoadout ==
    /\ live = "loadout" /\ Skills!Next
    /\ UNCHANGED <<live, ofRequests, ofGoods, ofFriends, ofQuests, ofStages, ofPvp, ofTree, ofArena, ofBattles>>

GameNext == GameShared \/ GameTree \/ GameArena \/ GameBattles \/ GameLoadout

Game == GameInit /\ [][GameNext]_gameVars

---------------------------------------------------------------------------
(* Every component's state is of its type. *)
TypesOK ==
    /\ PlayTypesOK
    /\ live = "tree" => Tree!TypeOK
    /\ live = "arena" => Duel!TypeOK
    /\ live = "battles" => Rounds!TypeOK
    /\ live = "loadout" => Skills!TypeOK

(* The nodes owned stay joined to the hub and paid for with points earned   *)
(* (passive-data.ts isValidAllocation, validatePassiveDraft).               *)
TreeStaysConnected == live = "tree" => Tree!TreeStaysConnected

(* Points taken back cost the same however they are spread over requests    *)
(* (passive.service.ts:144).                                                *)
RefundsArePaid == live = "tree" => Tree!RefundsArePaid

(* The HP of a fighter is what it began with, less what was dealt, plus     *)
(* what was healed and reborn (arena-engine/damage.ts).                     *)
HpIsAccounted == live = "arena" => Duel!HpIsAccounted

(* Two hard controls in a row are followed by a window without a third      *)
(* (arena-engine/status.ts).                                                *)
ControlWearsOff == live = "arena" => Duel!ControlWearsOff

(* The members are credited with the HP the boss dropped - with more only   *)
(* when it heals - and a client that replays the events sees the HP of the  *)
(* fight (battle-engine.ts, team-battle.ts).                                *)
RoundsAddUp == live = "battles" => Rounds!DamageAddsUp /\ Rounds!EventsTellTheHp

(* A fighter carries only what it may, also after it evolved or merged;     *)
(* what a player was allowed to pick is what the pet fights with; and every *)
(* fight on offer has a foe in the arena's tables (arena-fighter.ts         *)
(* cleanArenaLoadout, skill.service.ts setLoadout, arena-data.ts).          *)
LoadoutsAreLegal ==
    live = "loadout" => Skills!FightersAreLegal /\ Skills!AcceptedPicksStay /\ Skills!FoesAreReady
=============================================================================
