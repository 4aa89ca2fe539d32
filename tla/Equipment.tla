----------------------------- MODULE Equipment -----------------------------
(***************************************************************************)
(* The goods of one player: pieces of equipment, materials, coins, the     *)
(* craft queue (src/src/modules/monster/equipment, inventory, the trips of *)
(* adventure/expedition.service) and whatever else brings a piece: the     *)
(* fights, rewards and exchanges of boss/ and adventure.service.           *)
(*                                                                         *)
(* A request is a READ COMMITTED transaction.  Its statements before the   *)
(* last are reads without a lock and row locks, each with the condition    *)
(* that the code tests there; Steps(r) lists them in the code's order.     *)
(* Rows stay locked until the end, where everything it writes is committed;*)
(* until then only the request itself sees the pieces it has inserted.     *)
(***************************************************************************)
EXTENDS Integers, Sequences, FiniteSets, FiniteSetsExt

CONSTANTS
    Requests, Plans,        \* the requests that may come together, and what each asks for
    Pieces, Slot, Original, \* ids of pieces (in id order), their slots, those there at the start
    Pets, CanWear,          \* CanWear[pet]: the pieces it is old enough for (canEquip)
    Coins, Materials, Items,
    Needs,                  \* how many of a material one use takes
    RefineTiers,            \* sequence of [material, maxLevel], lowest first
    OnFail, Rate,           \* of an attempt to reach a level, from 1 on; Rate in percent
    MAX_ENHANCE_LEVEL, PITY_PER_FAIL, PITY_MAX,
    DISMANTLE_STONES, DISMANTLE_STONE_LEVEL_STEP,
    EQUIPMENT_CAPACITY, EQUIPMENT_BOX_PRICE, SHOP_PRICE, REFINE_COIN, ENHANCE_COIN, COSTUME_PRICE,
    EXPEDITION_COIN, REWARD_COIN, CRAFT_COIN, CRAFT_MINUTES, CRAFT_PITY_AFTER_FAILS, CRAFT_SKIP_COIN_MULTIPLIER,
    InitialJobs, MAX_CLOCK, \* the craft in the queue at the start; bound on the clock
    NoPet, NoRequest

Kinds == {"box", "shop", "exchange", "costume", "start", "skip", "claim", "enhance", "refine",
          "keep", "discard", "dismantle", "equip", "unequip", "explore", "collect", "use",
          "raid", "hunt", "reward"}   \* a fight in the adventure or a skip; a world boss reward

VARIABLES
    plan,     \* the plan of this behaviour
    pos,      \* how many steps each request has done; NotBegun, Committed or RolledBack
    now,      \* the clock it read before its transaction
    tier,     \* of refine(): the stone it chose
    inserted, \* the pieces it has inserted
    holder,   \* who holds each row
    piece,    \* the rows of equipment_items
    away,     \* the pets on an expedition
    coin, bag,
    owned,    \* what is had once: the costume, the reward of the week
    job, pity, claims,   \* the craft in the queue; failures in a row; what each claim gave
    log,      \* what the equipment and enhance logs tell of the ends of pieces and their changes
    clock

requestVars == <<plan, pos, now, tier, inserted>>
goods == <<piece, away, coin, bag, owned, job, pity, claims, log>>
vars == <<requestVars, holder, goods, clock>>

NotBegun == -1
Committed == -2
RolledBack == -3

Kind(r) == plan[r].kind
Named(r) == plan[r].pieces
ThePiece(r) == CHOOSE p \in Named(r) : TRUE
Pet(r) == plan[r].pet
Token(r) == plan[r].token   \* of the boss: raid bosses and world bosses have one each
Gains(r) == plan[r].gains   \* the other materials that it pays, in order
(* enhance: useProtect; start: useCatalyst; equip: move; reward: with a piece; else a discovery *)
Flag(r) == plan[r].flag

Roster == <<"roster">>
Wallet == <<"wallet">>
Job == <<"job">>
Pity == <<"pity">>
Damage == <<"damage">>
Row(p) == <<"piece", p>>
Item(m) == <<"item", m>>
NoRow == <<"none">>
Rows == {Roster, Wallet, Job, Pity, Damage} \cup {Row(p) : p \in Pieces} \cup {Item(m) : m \in Materials}

Piece == [from : {"none", "start", "box", "exchange", "craft", "raid", "battle", "world_boss"},
          end : {"none", "dismantled", "broken"},
          level : 0..MAX_ENHANCE_LEVEL, pity : Nat, rolled : Nat, pending : BOOLEAN,
          wearer : Pets \cup {NoPet}]

Unborn == [from |-> "none", end |-> "none", level |-> 0, pity |-> 0, rolled |-> 0,
           pending |-> FALSE, wearer |-> NoPet]

JobRow == [active : BOOLEAN, catalyst : BOOLEAN, finishAt : Nat]
NoJob == [active |-> FALSE, catalyst |-> FALSE, finishAt |-> 0]

PlannedRequest == [kind : Kinds, pieces : SUBSET Pieces, pet : Pets \cup {NoPet}, flag : BOOLEAN,
                   token : Materials, gains : Seq(Materials), runs : Nat]

(* The endpoints that are about one piece *)
OfOnePiece == {"enhance", "refine", "keep", "discard", "equip", "unequip"}

(* Those that a pet of the player is named in. *)
OfOnePet == {"equip", "unequip", "explore", "collect"}

GoodsAssumption ==
    /\ IsFiniteSet(Requests) /\ NoRequest \notin Requests
    /\ IsFiniteSet(Pieces) /\ Pieces \subseteq Nat /\ NoPet \notin Pets
    /\ EQUIPMENT_CAPACITY \in Nat /\ CRAFT_PITY_AFTER_FAILS \in Nat
    /\ \A p \in Plans : /\ DOMAIN p \subseteq Requests
                       /\ \A r \in DOMAIN p :
                             /\ p[r] \in PlannedRequest
                             /\ p[r].kind \in OfOnePiece => \E q \in Pieces : p[r].pieces = {q}
                             /\ p[r].kind \in OfOnePet => p[r].pet \in Pets
    /\ DOMAIN Original \subseteq Pieces /\ Cardinality(DOMAIN Original) <= EQUIPMENT_CAPACITY
    /\ \A p \in DOMAIN Original : Original[p].wearer \in Pets \cup {NoPet} /\ Original[p].level \in Nat
    /\ \A j \in InitialJobs : j \in JobRow /\ (j.active \/ j = NoJob)

LogEntry == [by : Requests, piece : Pieces, what : {"dismantled", "enhanced", "broken"}]

TypeOK ==
    /\ plan \in Plans
    /\ pos \in [Requests -> Int]
    /\ now \in [Requests -> 0..MAX_CLOCK]
    /\ tier \in [Requests -> 1..Len(RefineTiers)]
    /\ inserted \in [Requests -> SUBSET Pieces]
    /\ holder \in [Rows -> Requests \cup {NoRequest}]
    /\ piece \in [Pieces -> Piece]
    /\ away \subseteq Pets
    /\ coin \in Nat
    /\ bag \in [Materials -> Nat]
    /\ owned \subseteq {"costume", "reward"}
    /\ job \in JobRow
    /\ pity \in 0..CRAFT_PITY_AFTER_FAILS
    /\ claims \in Seq({"plain", "base", "upgraded"})
    /\ log \subseteq LogEntry
    /\ clock \in 0..MAX_CLOCK

IsHere(p) == piece[p].from # "none" /\ piece[p].end = "none"
Here == {p \in Pieces : IsHere(p)}
WornBy(pet) == {p \in Here : piece[p].wearer = pet}

Init ==
    /\ plan \in Plans
    /\ pos = [r \in Requests |-> NotBegun]
    /\ now = [r \in Requests |-> 0]
    /\ tier = [r \in Requests |-> 1]
    /\ inserted = [r \in Requests |-> {}]
    /\ holder = [x \in Rows |-> NoRequest]
    /\ piece = [p \in Pieces |-> IF p \in DOMAIN Original
                                 THEN [Unborn EXCEPT !.from = "start", !.wearer = Original[p].wearer,
                                                     !.level = Original[p].level]
                                 ELSE Unborn]
    /\ away = {}
    /\ coin = Coins
    /\ bag = Items
    /\ owned = {}
    /\ job \in InitialJobs
    /\ pity = 0
    /\ claims = <<>>
    /\ log = {}
    /\ clock = 0

Elapse ==
    /\ clock < MAX_CLOCK
    /\ clock' = clock + 1
    /\ UNCHANGED <<requestVars, holder, goods>>

---------------------------------------------------------------------------
(* What each request reads and locks, in order                             *)

(* The piece its pet wears in the slot of the piece it names. *)
InSlot(r) == {p \in WornBy(Pet(r)) : Slot[p] = Slot[ThePiece(r)]}

(* equip() frees the slot; nothing to free if the piece is already there. *)
SlotRow(r) ==
    IF InSlot(r) \subseteq (IF Kind(r) = "equip" THEN Named(r) ELSE {})
    THEN NoRow ELSE Row(CHOOSE p \in InSlot(r) : TRUE)

Read(what) == <<what, NoRow>>
Lock(row) == <<"lock", row>>

(* The recipe's materials in order, the catalyst last. *)
RecipeNeeds(r) == IF Flag(r) THEN <<"essence", "catalyst">> ELSE <<"essence">>

LocksOf(names) == [i \in DOMAIN names |-> Lock(Item(names[i]))]

InIdOrder(S) == [i \in 1..Cardinality(S) |-> CHOOSE p \in S :
                    Cardinality({q \in S : q < p}) = i - 1]

LockRows(S) == [i \in 1..Cardinality(S) |-> Lock(Row(InIdOrder(S)[i]))]

(* The refine stone a piece turns into. *)
RefineStone(p) ==
    RefineTiers[IF piece[p].level <= RefineTiers[1].maxLevel THEN 1 ELSE 2].material

GainRows(S) ==
    << <<"gain", Item("stone")>> >>
      \o [i \in 1..Cardinality(S) |-> <<"gain", Item(RefineStone(InIdOrder(S)[i]))>>]

(* The tick of the living monsters, which may pay a gem for a new species. *)
TickLiving(r) ==
    IF Flag(r) /\ Kind(r) # "equip" THEN <<Lock(Roster), Lock(Wallet)>> ELSE <<Lock(Roster)>>

GainsOf(names) == [i \in DOMAIN names |-> <<"gain", Item(names[i])>>]

(* grantItem counts the pieces again and inserts one.  A request that       *)
(* charges for it fails when the bag is full; one that awards it goes on    *)
(* without; and the dice of a fight may drop none.                          *)
Grant == <<"grant", NoRow>>
Award == <<"award", NoRow>>
Drop == <<"drop", NoRow>>

(* The boss's token comes first. *)
Prizes(r) == <<Lock(Wallet), <<"gain", Item(Token(r))>> >> \o GainsOf(Gains(r))

StepsOf(r) ==
    CASE Kind(r) = "box"       -> <<Read("room"), Lock(Wallet), Grant>>
      [] Kind(r) = "shop"      -> <<Lock(Wallet), Lock(Item("meat"))>>
      [] Kind(r) = "exchange"  -> <<Read("room"), Lock(Item(Token(r))), Grant>>
      [] Kind(r) = "raid"      -> TickLiving(r) \o <<Read("room")>> \o Prizes(r) \o <<Award>>
      [] Kind(r) = "hunt"      -> TickLiving(r) \o <<Lock(Wallet)>> \o [i \in 1..plan[r].runs |-> Drop]
                                     \o GainsOf(Gains(r))
      [] Kind(r) = "reward"    -> IF Flag(r)
                                  THEN <<Lock(Damage), Read("room")>> \o Prizes(r) \o <<Award>>
                                  ELSE <<Lock(Damage)>> \o Prizes(r)
      [] Kind(r) = "costume"   -> <<Read("unowned"), Lock(Wallet), Read("unowned")>>
      [] Kind(r) = "start"     -> <<Read("idle"), Read("afford"), Lock(Wallet)>>
                                     \o LocksOf(RecipeNeeds(r)) \o << <<"idle", Job>> >>
      [] Kind(r) = "skip"      -> <<Lock(Job), Lock(Wallet)>>
      [] Kind(r) = "claim"     -> <<Lock(Job), Read("finished"), Read("room")>>
                                     \o (IF job.catalyst THEN <<Lock(Pity)>> ELSE <<>>)
                                     \o <<Grant>>
      [] Kind(r) = "enhance"   -> <<Lock(Row(ThePiece(r))), Lock(Wallet), Lock(Item("stone"))>>
                                     \o (IF Flag(r) THEN <<Lock(Item("scroll"))>> ELSE <<>>)
      [] Kind(r) = "refine"    -> <<Lock(Row(ThePiece(r))), Read("tier"), Lock(Wallet),
                                    Lock(Item(RefineTiers[tier[r]].material))>>
      [] Kind(r) = "keep"      -> <<Lock(Row(ThePiece(r))), Read("home")>>
      [] Kind(r) = "discard"   -> <<Lock(Row(ThePiece(r)))>>
      [] Kind(r) = "dismantle" -> LockRows(Named(r)) \o <<Read("unworn")>> \o GainRows(Named(r))
      [] Kind(r) = "equip"     -> <<Lock(Roster), Lock(Row(ThePiece(r))), <<"free", SlotRow(r)>> >>
      [] Kind(r) = "unequip"   -> TickLiving(r) \o << <<"free", SlotRow(r)>> >>
      [] Kind(r) = "collect"   -> TickLiving(r) \o <<Lock(Wallet), <<"gain", Item("meat")>> >>
      [] Kind(r) = "use"       -> TickLiving(r) \o <<Lock(Item("meat"))>>
      [] OTHER                 -> TickLiving(r)

IsRunning(r) == pos[r] \notin {NotBegun, Committed, RolledBack}
IsAtEnd(r) == pos[r] = Len(StepsOf(r))
NextStep(r) == StepsOf(r)[pos[r] + 1]

---------------------------------------------------------------------------
(* What the code tests there                                               *)

(* ceil(2 x coin x time left / total time) *)
SkipCoin(r) ==
    LET left == IF job.finishAt - now[r] < CRAFT_MINUTES THEN job.finishAt - now[r] ELSE CRAFT_MINUTES
        due == CRAFT_SKIP_COIN_MULTIPLIER * CRAFT_COIN * left
    IN  IF left <= 0 THEN 0 ELSE (due + CRAFT_MINUTES - 1) \div CRAFT_MINUTES

Price(r) ==
    CASE Kind(r) = "box"     -> EQUIPMENT_BOX_PRICE
      [] Kind(r) = "shop"    -> SHOP_PRICE
      [] Kind(r) = "costume" -> COSTUME_PRICE
      [] Kind(r) = "start"   -> CRAFT_COIN
      [] Kind(r) = "skip"    -> SkipCoin(r)
      [] Kind(r) = "enhance" -> ENHANCE_COIN
      [] Kind(r) = "refine"  -> REFINE_COIN
      [] Kind(r) = "collect" -> -EXPEDITION_COIN
      [] Kind(r) = "hunt"    -> -plan[r].runs * REWARD_COIN
      [] Kind(r) = "reward"  -> -REWARD_COIN
      [] OTHER               -> 0

(* It counts what is committed and what it has inserted itself. *)
HasRoom(r) == Cardinality(Here \cup inserted[r]) < EQUIPMENT_CAPACITY

CanAfford(r) ==
    /\ coin >= CRAFT_COIN
    /\ \A i \in DOMAIN RecipeNeeds(r) : bag[RecipeNeeds(r)[i]] >= Needs[RecipeNeeds(r)[i]]

(* A bug: taking a piece from a pet that is away. *)
CanEquipFromAfar(r, p) ==
    LET wearer == piece[p].wearer IN
    /\ wearer \notin {NoPet, Pet(r)} => Flag(r)
    /\ Pet(r) \notin away
    /\ wearer # Pet(r) => p \in CanWear[Pet(r)]

CanEquip(r, p) ==
    LET wearer == piece[p].wearer IN
    /\ wearer \notin {NoPet, Pet(r)} => Flag(r)
    /\ {Pet(r), wearer} \cap away = {}
    /\ wearer # Pet(r) => p \in CanWear[Pet(r)]

CanProtect(level) == OnFail[level + 1] # "material"

PieceFits(r, p) ==
    /\ IsHere(p)
    /\ Kind(r) = "enhance" => /\ piece[p].level < MAX_ENHANCE_LEVEL
                              /\ Flag(r) => CanProtect(piece[p].level)
    /\ Kind(r) = "refine" => ~piece[p].pending
    /\ Kind(r) \in {"keep", "discard"} => piece[p].pending
    /\ Kind(r) = "equip" => CanEquip(r, p)

RosterFits(r) ==
    /\ Kind(r) \in {"unequip", "explore"} => Pet(r) \notin away
    /\ Kind(r) = "collect" => Pet(r) \in away

(* The stones that cover the piece and of which there is one. *)
Tiers(r) ==
    {i \in DOMAIN RefineTiers : /\ RefineTiers[i].maxLevel >= piece[ThePiece(r)].level
                                /\ bag[RefineTiers[i].material] > 0}

LockFits(r, row) ==
    CASE row[1] = "piece"  -> PieceFits(r, row[2])
      [] row[1] = "item"   -> bag[row[2]] >= Needs[row[2]]
      [] row[1] = "wallet" -> coin >= Price(r)
      [] row[1] = "job"    -> job.active
      [] row[1] = "damage" -> "reward" \notin owned
      [] row[1] = "roster" -> RosterFits(r)
      [] OTHER             -> TRUE

Fits(r, step) ==
    CASE step[1] = "lock"     -> LockFits(r, step[2])
      [] step[1] \in {"room", "grant"} -> HasRoom(r)
      [] step[1] = "unowned"  -> "costume" \notin owned
      [] step[1] = "idle"     -> ~job.active
      [] step[1] = "afford"   -> CanAfford(r)
      [] step[1] = "finished" -> job.finishAt <= now[r]
      [] step[1] = "tier"     -> Tiers(r) # {}
      [] step[1] = "home"     -> piece[ThePiece(r)].wearer \notin away
      [] step[1] = "unworn"   -> \A p \in Named(r) : piece[p].wearer = NoPet
      [] OTHER                -> TRUE

(* A bug this module is checked against: nothing is locked. *)
FreeUnlocked(row, r) == TRUE

Free(row, r) == row # NoRow => holder[row] \in {NoRequest, r}

Begin(r) ==
    /\ pos[r] = NotBegun
    /\ pos' = [pos EXCEPT ![r] = 0]
    /\ now' = [now EXCEPT ![r] = IF Kind(r) \in {"start", "skip", "claim"} THEN clock ELSE 0]
    /\ UNCHANGED <<plan, tier, inserted, holder, goods, clock>>

(* The next id: ids are taken in order, and there are enough of them. *)
Fresh == {p \in Pieces : piece[p] = Unborn} \ UNION {inserted[r] : r \in DOMAIN plan}
NextId == {p \in Fresh : \A q \in Fresh : p <= q}

(* What a statement may insert. *)
Inserts(r, step) ==
    LET one == {{p} : p \in NextId} IN
    CASE step[1] = "grant" -> one
      [] step[1] = "award" -> IF HasRoom(r) THEN one ELSE {{}}
      [] step[1] = "drop"  -> IF HasRoom(r) THEN one \cup {{}} ELSE {{}}
      [] OTHER             -> {{}}

(* One statement: its row, if any, is locked and then tested. *)
Go(r) ==
    /\ IsRunning(r) /\ ~IsAtEnd(r)
    /\ LET step == NextStep(r) IN
       /\ Free(step[2], r)
       /\ Fits(r, step)
       /\ holder' = [x \in Rows |-> IF x = step[2] THEN r ELSE holder[x]]
       /\ tier' = [tier EXCEPT ![r] = IF step[1] = "tier" THEN Min(Tiers(r)) ELSE @]
       /\ \E new \in Inserts(r, step) : inserted' = [inserted EXCEPT ![r] = @ \cup new]
    /\ pos' = [pos EXCEPT ![r] = @ + 1]
    /\ UNCHANGED <<plan, now, goods, clock>>

Release(r) == holder' = [x \in Rows |-> IF holder[x] = r THEN NoRequest ELSE holder[x]]

Undo(r) ==
    /\ pos' = [pos EXCEPT ![r] = RolledBack]
    /\ inserted' = [inserted EXCEPT ![r] = {}]
    /\ Release(r)
    /\ UNCHANGED <<plan, now, tier, goods, clock>>

Refuse(r) ==
    /\ IsRunning(r) /\ ~IsAtEnd(r)
    /\ Free(NextStep(r)[2], r)
    /\ ~Fits(r, NextStep(r))
    /\ Undo(r)

(* The process or its connection dies. *)
Fail(r) == IsRunning(r) /\ Undo(r)

Blocked == {r \in DOMAIN plan : IsRunning(r) /\ ~IsAtEnd(r) /\ ~Free(NextStep(r)[2], r)}

Circles ==
    {D \in SUBSET Blocked : D # {} /\ \A r \in D : holder[NextStep(r)[2]] \in D}

(* The database breaks a circular wait by failing one of its requests. *)
DeadlockVictim(r) == r \in UNION Circles /\ Undo(r)

---------------------------------------------------------------------------
(* What each request commits                                               *)

Ends(r, kinds) ==
    /\ Kind(r) \in kinds
    /\ IsRunning(r) /\ IsAtEnd(r)
    /\ pos' = [pos EXCEPT ![r] = Committed]
    /\ Release(r)
    /\ UNCHANGED <<plan, now, tier, inserted, clock>>

Pay(r) == coin' = coin - Price(r)
Spend(names) == bag' = [m \in Materials |-> IF m \in names THEN bag[m] - Needs[m] ELSE bag[m]]
Add(m, n) == bag' = [bag EXCEPT ![m] = @ + n]

Gain(names) == bag' = [m \in Materials |-> bag[m] + Cardinality({i \in DOMAIN names : names[i] = m})]

(* What grantItem has inserted is there for everybody. *)
Obtain(r, source) ==
    piece' = [p \in Pieces |-> IF p \in inserted[r] THEN [Unborn EXCEPT !.from = source] ELSE piece[p]]

BuyBox(r) ==
    /\ Ends(r, {"box"})
    /\ Pay(r) /\ Obtain(r, "box")
    /\ UNCHANGED <<away, bag, owned, job, pity, claims, log>>

Buy(r) ==
    /\ Ends(r, {"shop"})
    /\ Pay(r) /\ Add("meat", 1)
    /\ UNCHANGED <<piece, away, owned, job, pity, claims, log>>

Exchange(r) ==
    /\ Ends(r, {"exchange"})
    /\ Spend({Token(r)}) /\ Obtain(r, "exchange")
    /\ UNCHANGED <<away, coin, owned, job, pity, claims, log>>

(* A raid that is won; one that is lost changes nothing of this. *)
WinRaid(r) ==
    /\ Ends(r, {"raid"})
    /\ Gain(<<Token(r)>> \o Gains(r)) /\ Obtain(r, "raid")
    /\ UNCHANGED <<away, coin, owned, job, pity, claims, log>>

(* A stage that is won, or skipped several times. *)
WinStage(r) ==
    /\ Ends(r, {"hunt"})
    /\ Pay(r) /\ Gain(Gains(r)) /\ Obtain(r, "battle")
    /\ UNCHANGED <<away, owned, job, pity, claims, log>>

ClaimReward(r) ==
    /\ Ends(r, {"reward"})
    /\ owned' = owned \cup {"reward"}
    /\ Pay(r) /\ Gain(<<Token(r)>> \o Gains(r)) /\ Obtain(r, "world_boss")
    /\ UNCHANGED <<away, job, pity, claims, log>>

BuyCostume(r) ==
    /\ Ends(r, {"costume"})
    /\ Pay(r) /\ owned' = owned \cup {"costume"}
    /\ UNCHANGED <<piece, away, bag, job, pity, claims, log>>

StartCraft(r) ==
    /\ Ends(r, {"start"})
    /\ Pay(r) /\ Spend({RecipeNeeds(r)[i] : i \in DOMAIN RecipeNeeds(r)})
    /\ job' = [active |-> TRUE, catalyst |-> Flag(r), finishAt |-> now[r] + CRAFT_MINUTES]
    /\ UNCHANGED <<piece, away, owned, pity, claims, log>>

SkipCraft(r) ==
    /\ Ends(r, {"skip"})
    /\ Pay(r)
    /\ job' = IF SkipCoin(r) > 0 THEN [job EXCEPT !.finishAt = now[r]] ELSE job
    /\ UNCHANGED <<piece, away, bag, owned, pity, claims, log>>

(* A bug: the guarantee comes one failure late. *)
MayFailOnceMore(fails) == fails <= CRAFT_PITY_AFTER_FAILS

(* rollCraftGrade with a catalyst; the upgrade has some chance at any roll. *)
MayFail(fails) == fails < CRAFT_PITY_AFTER_FAILS

ClaimCraft(r) ==
    /\ Ends(r, {"claim"})
    /\ Obtain(r, "craft")
    /\ job' = NoJob
    /\ \/ /\ ~job.catalyst
          /\ claims' = Append(claims, "plain") /\ UNCHANGED pity
       \/ /\ job.catalyst
          /\ claims' = Append(claims, "upgraded") /\ pity' = 0
       \/ /\ job.catalyst /\ MayFail(pity)
          /\ claims' = Append(claims, "base") /\ pity' = pity + 1
    /\ UNCHANGED <<away, coin, bag, owned, log>>

EffectiveRate(level, fails) ==
    LET bonus == IF fails * PITY_PER_FAIL < PITY_MAX THEN fails * PITY_PER_FAIL ELSE PITY_MAX
        rate == Rate[level + 1] + bonus
    IN  IF rate < 100 THEN rate ELSE 100

(* resolveEnhance: what may become of a piece. *)
Enhanced(w, protect) ==
    LET failed == [w EXCEPT !.pity = @ + 1]
        dropped == [failed EXCEPT !.level = @ - 1]
        broken == [failed EXCEPT !.end = "broken", !.wearer = NoPet]
        mode == OnFail[w.level + 1]
    IN  {[w EXCEPT !.level = @ + 1, !.pity = 0]}
          \cup (IF EffectiveRate(w.level, w.pity) = 100 THEN {}
                ELSE IF mode = "material" \/ protect THEN {failed}
                ELSE IF mode = "drop" THEN {dropped} ELSE {dropped, broken})

(* The scroll is taken before the roll and given back if it was not needed. *)
ScrollUsed(r, before, after) ==
    Flag(r) /\ after.level = before.level /\ OnFail[before.level + 1] # "material"

Enhance(r) ==
    /\ Ends(r, {"enhance"})
    /\ Pay(r)
    /\ LET p == ThePiece(r) IN
       \E after \in Enhanced(piece[p], Flag(r)) :
          /\ piece' = [piece EXCEPT ![p] = after]
          /\ Spend({"stone"} \cup IF ScrollUsed(r, piece[p], after) THEN {"scroll"} ELSE {})
          /\ log' = log \cup {[by |-> r, piece |-> p,
                               what |-> IF after.end = "broken" THEN "broken" ELSE "enhanced"]}
    /\ UNCHANGED <<away, owned, job, pity, claims>>

Refine(r) ==
    /\ Ends(r, {"refine"})
    /\ Pay(r) /\ Spend({RefineTiers[tier[r]].material})
    /\ piece' = [piece EXCEPT ![ThePiece(r)].pending = TRUE]
    /\ UNCHANGED <<away, owned, job, pity, claims, log>>

(* Kept or discarded. *)
ResolveRefine(r) ==
    /\ Ends(r, {"keep", "discard"})
    /\ piece' = [piece EXCEPT ![ThePiece(r)].pending = FALSE,
                              ![ThePiece(r)].rolled = IF Kind(r) = "keep" THEN @ + 1 ELSE @]
    /\ UNCHANGED <<away, coin, bag, owned, job, pity, claims, log>>

(* calcDismantleYield for one piece. *)
Yield(p) == DISMANTLE_STONES + piece[p].level \div DISMANTLE_STONE_LEVEL_STEP

Dismantle(r) ==
    /\ Ends(r, {"dismantle"})
    /\ piece' = [p \in Pieces |-> IF p \in Named(r) THEN [piece[p] EXCEPT !.end = "dismantled"]
                                  ELSE piece[p]]
    /\ bag' = [m \in Materials |->
                  bag[m] + (IF m = "stone" THEN MapThenSumSet(Yield, Named(r)) ELSE 0)
                         + Cardinality({p \in Named(r) : RefineStone(p) = m})]
    /\ log' = log \cup {[by |-> r, piece |-> p, what |-> "dismantled"] : p \in Named(r)}
    /\ UNCHANGED <<away, coin, owned, job, pity, claims>>

Equip(r) ==
    /\ Ends(r, {"equip"})
    /\ piece' = [p \in Pieces |->
                    CASE p \in Named(r) -> [piece[p] EXCEPT !.wearer = Pet(r)]
                      [] p \in InSlot(r) \ Named(r) -> [piece[p] EXCEPT !.wearer = NoPet]
                      [] OTHER -> piece[p]]
    /\ UNCHANGED <<away, coin, bag, owned, job, pity, claims, log>>

Unequip(r) ==
    /\ Ends(r, {"unequip"})
    /\ piece' = [p \in Pieces |-> IF p \in InSlot(r) THEN [piece[p] EXCEPT !.wearer = NoPet]
                                  ELSE piece[p]]
    /\ UNCHANGED <<away, coin, bag, owned, job, pity, claims, log>>

(* start() and claim() of an expedition, which brings something home. *)
Travel(r) ==
    /\ \/ Ends(r, {"explore"}) /\ away' = away \cup {Pet(r)} /\ UNCHANGED bag
       \/ Ends(r, {"collect"}) /\ away' = away \ {Pet(r)} /\ Add("meat", 1)
    /\ Pay(r)
    /\ UNCHANGED <<piece, owned, job, pity, claims, log>>

Use(r) ==
    /\ Ends(r, {"use"})
    /\ Spend({"meat"})
    /\ UNCHANGED <<piece, away, coin, owned, job, pity, claims, log>>

Step(r) ==
    \/ Begin(r) \/ Go(r) \/ Refuse(r) \/ Fail(r) \/ DeadlockVictim(r)
    \/ BuyBox(r) \/ Buy(r) \/ Exchange(r) \/ BuyCostume(r)
    \/ WinRaid(r) \/ WinStage(r) \/ ClaimReward(r)
    \/ StartCraft(r) \/ SkipCraft(r) \/ ClaimCraft(r)
    \/ Enhance(r) \/ Refine(r) \/ ResolveRefine(r) \/ Dismantle(r)
    \/ Equip(r) \/ Unequip(r) \/ Travel(r) \/ Use(r)

Next == Elapse \/ \E r \in DOMAIN plan : Step(r)

Spec == Init /\ [][Next]_vars

---------------------------------------------------------------------------

Gone == {p \in Pieces : piece[p].end # "none"}

(* Whatever runs at once on a piece - a batch that dismantles it, another   *)
(* batch, an attempt to enhance it that may break it, a pet that puts it on *)
(* - it ends once, pays once, and nobody wears it afterwards               *)
(* (dismantleMany "All or nothing", enhance, equip).                        *)
PieceEndsOnce ==
    \A p \in Pieces :
        /\ Cardinality({e \in log : e.piece = p /\ e.what # "enhanced"})
              = Cardinality({p} \cap Gone)
        /\ p \in Gone => piece[p].wearer = NoPet

(* The row that a request has locked when it counts the pieces for the last *)
(* time: two requests of one queue do not meet there.                       *)
Queue(r) ==
    CASE Kind(r) = "exchange" -> Item(Token(r))
      [] Kind(r) = "claim"    -> Job
      [] OTHER                -> Wallet

Bringers == {r \in DOMAIN plan : pos[r] = Committed /\ inserted[r] # {}}

(* The bag is too full only by what requests of different queues brought    *)
(* while they ran beside each other: without what some of them brought, one *)
(* of a queue and none of the last, it is within its capacity (grantItem    *)
(* counts before it inserts, equipment.service.ts:120, but under no lock of *)
(* its own).                                                                *)
OverfullByMeetingOnly ==
    \E met \in SUBSET Bringers :
        /\ \A r, q \in met : r # q => Queue(r) # Queue(q)
        /\ met # {} => \E last \in Bringers : \A r \in met : Queue(r) # Queue(last)
        /\ Cardinality(Here \ UNION {inserted[r] : r \in met}) <= EQUIPMENT_CAPACITY

(* "Adds a piece to the user's bag unless it is full"                       *)
(* (equipment.service.ts:112).                                              *)
BagWithinCapacity == Cardinality(Here) <= EQUIPMENT_CAPACITY

Started == Cardinality({r \in DOMAIN plan : Kind(r) = "start" /\ pos[r] = Committed})

(* The failures since the last upgrade, whatever was crafted without a      *)
(* catalyst in between.                                                     *)
FailuresInARow ==
    Cardinality({i \in DOMAIN claims :
        claims[i] = "base" /\ \A j \in DOMAIN claims : claims[j] = "upgraded" => j < i})

(* Every craft that was paid for is in the queue or gave exactly one piece, *)
(* one is in the queue at most, and the guarantee counts what the player    *)
(* has really failed: "the next Catalyst try always succeeds" after         *)
(* CRAFT_PITY_AFTER_FAILS failures (craft-data.ts:38, craft.service.ts:163).*)
CraftsAddUp ==
    /\ Cardinality({p \in Pieces : piece[p].from = "craft"}) = Len(claims)
    /\ \E begun \in {Cardinality({j}) : j \in InitialJobs \ {NoJob}} \cup {0} :
          begun + Started = Len(claims) + (IF job.active THEN 1 ELSE 0)
    /\ pity = FailuresInARow
    /\ pity <= CRAFT_PITY_AFTER_FAILS

(* What a pet wears while it is away changes only by a piece that breaks:   *)
(* "the expedition could be re-geared for rate" (equipment.service.ts:206). *)
StaysGeared ==
    \A pet \in away \cap away' :
        WornBy(pet)' = WornBy(pet) \ {p \in Pieces : piece'[p].end = "broken"}

(* "Gear can't change while a pet is away" (equipment.service.ts:206): no   *)
(* piece that a pet on an expedition wears becomes another one.             *)
GearFixedWhileAway ==
    [][\A pet \in away \cap away' :
          \A p \in WornBy(pet) :
             /\ piece'[p].wearer = pet
             /\ piece'[p].level = piece[p].level
             /\ piece'[p].rolled = piece[p].rolled]_vars
=============================================================================
