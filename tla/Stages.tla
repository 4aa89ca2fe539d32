------------------------------ MODULE Stages ------------------------------
(* Adventure stages and boss raids of one player: what is cleared, and     *)
(* what a win brings (src/src/modules/monster/adventure/adventure.service, *)
(* adventure-data.ts, boss/raid.service.ts, raid-data.ts).                 *)
(*                                                                         *)
(* A fight is one READ COMMITTED transaction that queues at the player's   *)
(* monsters, reads what is cleared and writes back sums of what it read;   *)
(* an exchange locks nothing but the boss tokens it spends.  Every         *)
(* statement on what others may change is a step.  Who wins, and what is   *)
(* rolled, is not decided here.                                            *)
EXTENDS Integers, Sequences, FiniteSets, Functions

CONSTANTS
    STAGES,                  \* the length of STAGE_ORDER
    DIFFICULTIES,            \* the length of RAID_DIFFICULTIES; one boss is looked at
    EXCHANGE_COST,           \* RAID_EXCHANGE_COST of the grade each difficulty drops
    RAID_BOSS_TOKENS_PER_WIN,
    STAMINA_COST,
    EQUIPMENT_CAPACITY,
    Requests, Plans,
    OpeningClears, OpeningRaids, OpeningTokens, OpeningPieces, OpeningStamina,
    NoRequest

(* Nothing is cleared at the start without what comes before it. *)
Follow(counts) == \A i \in DOMAIN counts : i > 1 /\ counts[i] > 0 => counts[i - 1] > 0

StagesAssumption ==
    /\ STAGES \in Nat /\ DIFFICULTIES \in Nat
    /\ IsFiniteSet(Requests) /\ NoRequest \notin Requests
    /\ \A p \in Plans :
          /\ DOMAIN p \subseteq Requests
          /\ \A r \in DOMAIN p :
                /\ p[r].kind \in {"battle", "skip", "raid", "exchange"}
                /\ p[r].at \in 1..(IF p[r].kind \in {"battle", "skip"} THEN STAGES ELSE DIFFICULTIES)
                /\ p[r].runs \in (IF p[r].kind = "skip" THEN Nat \ {0} ELSE {1})
    /\ OpeningClears \in [1..STAGES -> Nat] /\ OpeningRaids \in [1..DIFFICULTIES -> Nat]
    /\ Follow(OpeningClears) /\ Follow(OpeningRaids)
    /\ EXCHANGE_COST \in [1..DIFFICULTIES -> Nat]
    /\ {RAID_BOSS_TOKENS_PER_WIN, STAMINA_COST, EQUIPMENT_CAPACITY, OpeningTokens, OpeningPieces,
        OpeningStamina} \subseteq Nat

VARIABLES
    plan,
    pc,
    seen,      \* the clear counts that a request has read
    won,       \* how its fight ended
    granted,   \* the pieces it has put into the bag
    monsters, tokenRow,   \* who holds the monsters, and the row of the boss tokens
    stamina,
    clears,    \* adventure_progress: clear_count of each stage, 0 without a row
    raids,     \* raid_progress: clear_count of each difficulty
    tokens, pieces

requestVars == <<plan, pc, seen, won, granted>>
locks == <<monsters, tokenRow>>
tables == <<stamina, clears, raids, tokens, pieces>>
vars == <<requestVars, locks, tables>>

Kind(r) == plan[r].kind
Place(r) == plan[r].at      \* the stage, or the difficulty
Runs(r) == plan[r].runs
Ended == {"committed", "rolledBack"}
Labels == {"idle", "lock", "read", "room", "fight", "spend", "token", "grant", "commit"} \cup Ended

TypeOK ==
    /\ plan \in Plans
    /\ pc \in [Requests -> Labels]
    /\ seen \in [Requests -> [1..0 -> Nat] \cup [1..STAGES -> Nat] \cup [1..DIFFICULTIES -> Nat]]
    /\ won \in [Requests -> BOOLEAN]
    /\ granted \in [Requests -> Nat]
    /\ {monsters, tokenRow} \subseteq Requests \cup {NoRequest}
    /\ stamina \in Nat
    /\ clears \in [1..STAGES -> Nat] /\ raids \in [1..DIFFICULTIES -> Nat]
    /\ tokens \in Nat /\ pieces \in Nat

Init ==
    /\ plan \in Plans
    /\ pc = [r \in Requests |-> "idle"]
    /\ seen = [r \in Requests |-> <<>>]
    /\ won = [r \in Requests |-> FALSE]
    /\ granted = [r \in Requests |-> 0]
    /\ monsters = NoRequest /\ tokenRow = NoRequest
    /\ stamina = OpeningStamina
    /\ clears = OpeningClears /\ raids = OpeningRaids
    /\ tokens = OpeningTokens /\ pieces = OpeningPieces

At(r, label) == r \in DOMAIN plan /\ pc[r] = label
Goto(r, label) == pc' = [pc EXCEPT ![r] = label]
IsOpen(r) == r \in DOMAIN plan /\ pc[r] \notin Ended \cup {"idle", "lock"}

Release(r) ==
    /\ monsters' = IF monsters = r THEN NoRequest ELSE monsters
    /\ tokenRow' = IF tokenRow = r THEN NoRequest ELSE tokenRow

Undo(r) ==
    /\ Goto(r, "rolledBack") /\ Release(r)
    /\ granted' = [granted EXCEPT ![r] = 0]
    /\ UNCHANGED <<plan, seen, won, tables>>

Begin(r) ==
    /\ At(r, "idle")
    /\ Goto(r, IF Kind(r) = "exchange" THEN "read" ELSE "lock")
    /\ UNCHANGED <<plan, seen, won, granted, locks, tables>>

(* A bug: the living monsters are read without their lock. *)
MonstersNeverLocked(r) == TRUE

MonstersFree(r) == monsters = NoRequest

LockMonsters(r) ==
    /\ At(r, "lock") /\ MonstersFree(r)
    /\ monsters' = r
    /\ Goto(r, "read")
    /\ UNCHANGED <<plan, seen, won, granted, tokenRow, tables>>

---------------------------------------------------------------------------
(* Rules                                                                   *)

(* isStageUnlocked, and the clear of the easier difficulty of a raid *)
IsUnlocked(i, counts) == i = 1 \/ counts[i - 1] > 0

Read(r) == IF Kind(r) \in {"battle", "skip"} THEN clears ELSE raids

IsRefused(r, counts) ==
    CASE Kind(r) = "battle" -> ~IsUnlocked(Place(r), counts) \/ stamina < STAMINA_COST
      [] Kind(r) = "skip" -> counts[Place(r)] = 0 \/ stamina < STAMINA_COST * Runs(r)
      [] Kind(r) = "raid" -> ~IsUnlocked(Place(r), counts)
      [] Kind(r) = "exchange" -> counts[Place(r)] = 0

ReadProgress(r) ==
    /\ At(r, "read") /\ ~IsRefused(r, Read(r))
    /\ seen' = [seen EXCEPT ![r] = Read(r)]
    /\ Goto(r, IF Kind(r) \in {"battle", "skip"} THEN "fight" ELSE "room")
    /\ UNCHANGED <<plan, won, granted, locks, tables>>

HasRoom(r) == pieces + granted[r] < EQUIPMENT_CAPACITY

(* "A win always drops a piece, so refuse before fighting rather than lose  *)
(* it afterwards"                                                           *)
CheckBag(r) ==
    /\ At(r, "room") /\ HasRoom(r)
    /\ Goto(r, IF Kind(r) = "raid" THEN "fight" ELSE "spend")
    /\ UNCHANGED <<plan, seen, won, granted, locks, tables>>

(* A skip is won without a fight. *)
Fight(r) ==
    /\ At(r, "fight")
    /\ \E victory \in IF Kind(r) = "skip" THEN {TRUE} ELSE BOOLEAN :
          /\ won' = [won EXCEPT ![r] = victory]
          /\ Goto(r, IF ~victory THEN "commit" ELSE IF Kind(r) = "raid" THEN "token" ELSE "grant")
    /\ UNCHANGED <<plan, seen, granted, locks, tables>>

(* A raid's boss tokens are added by an upsert, which keeps their row. *)
AddTokens(r) ==
    /\ At(r, "token") /\ tokenRow = NoRequest
    /\ tokenRow' = r
    /\ Goto(r, "grant")
    /\ UNCHANGED <<plan, seen, won, granted, monsters, tables>>

HasTokens(r) == tokens >= EXCHANGE_COST[Place(r)]

(* The conditional UPDATE of InventoryService.spend *)
SpendTokens(r) ==
    /\ At(r, "spend") /\ tokenRow = NoRequest /\ HasTokens(r)
    /\ tokenRow' = r
    /\ Goto(r, "grant")
    /\ UNCHANGED <<plan, seen, won, granted, monsters, tables>>

(* One piece of a raid or an exchange; of an adventure, one for each run    *)
(* whose roll drops one.  grantItem gives none when the bag is full.        *)
Grant(r) ==
    /\ At(r, "grant")
    /\ \/ /\ HasRoom(r) /\ granted[r] < Runs(r)
          /\ granted' = [granted EXCEPT ![r] = @ + 1]
          /\ Goto(r, IF granted[r] + 1 = Runs(r) THEN "commit" ELSE "grant")
       \/ /\ Kind(r) # "exchange"
          /\ Kind(r) = "raid" => ~HasRoom(r)
          /\ Goto(r, "commit") /\ UNCHANGED granted
    /\ UNCHANGED <<plan, seen, won, locks, tables>>

IsFirstClear(r) == won[r] /\ seen[r][Place(r)] = 0

(* A win writes the sum of what was read; a defeat writes no count. *)
Counted(r, counts) == IF won[r] THEN [counts EXCEPT ![Place(r)] = seen[r][Place(r)] + Runs(r)] ELSE counts

Ends(r) ==
    /\ Goto(r, "committed") /\ Release(r)
    /\ pieces' = pieces + granted[r]
    /\ granted' = [granted EXCEPT ![r] = 0]
    /\ UNCHANGED <<plan, seen, won>>

CommitFight(r) ==
    /\ At(r, "commit") /\ Kind(r) # "exchange"
    /\ IF Kind(r) = "raid"
       THEN /\ raids' = Counted(r, raids)
            /\ tokens' = tokens + (IF won[r] THEN RAID_BOSS_TOKENS_PER_WIN ELSE 0)
            /\ UNCHANGED <<clears, stamina>>
       ELSE /\ clears' = Counted(r, clears)
            /\ stamina' = stamina - STAMINA_COST * Runs(r)
            /\ UNCHANGED <<raids, tokens>>
    /\ Ends(r)

CommitExchange(r) ==
    /\ At(r, "commit") /\ Kind(r) = "exchange"
    /\ tokens' = tokens - EXCHANGE_COST[Place(r)]
    /\ Ends(r)
    /\ UNCHANGED <<stamina, clears, raids>>

Refuse(r) ==
    /\ \/ At(r, "read") /\ IsRefused(r, Read(r))
       \/ At(r, "room") /\ ~HasRoom(r)
       \/ At(r, "spend") /\ ~HasTokens(r)
       \/ At(r, "grant") /\ Kind(r) = "exchange" /\ ~HasRoom(r)
    /\ Undo(r)

(* A rule refuses the monster, or the process dies. *)
Fail(r) == IsOpen(r) /\ Undo(r)

Step(r) ==
    \/ Begin(r) \/ LockMonsters(r) \/ ReadProgress(r) \/ CheckBag(r) \/ Fight(r)
    \/ AddTokens(r) \/ SpendTokens(r) \/ Grant(r)
    \/ CommitFight(r) \/ CommitExchange(r) \/ Refuse(r)

Next == \E r \in DOMAIN plan : Step(r) \/ Fail(r)

Spec == Init /\ [][Next]_vars

---------------------------------------------------------------------------

Done(kinds) == {r \in DOMAIN plan : Kind(r) \in kinds /\ pc[r] = "committed"}
Wins(kinds, i) == {r \in Done(kinds) : Place(r) = i /\ won[r]}

(* What each request counts, spends and brings *)
RunsWon(kinds, i) == [r \in DOMAIN plan |-> IF r \in Wins(kinds, i) THEN Runs(r) ELSE 0]
StaminaSpent ==
    [r \in DOMAIN plan |-> IF r \in Done({"battle", "skip"}) THEN STAMINA_COST * Runs(r) ELSE 0]
TokensSpent == [r \in DOMAIN plan |-> IF r \in Done({"exchange"}) THEN EXCHANGE_COST[Place(r)] ELSE 0]
TokensWon ==
    [r \in DOMAIN plan |-> IF r \in Done({"raid"}) /\ won[r] THEN RAID_BOSS_TOKENS_PER_WIN ELSE 0]

Explains(kinds, counts, opening) ==
    /\ \A i \in DOMAIN counts :
          /\ counts[i] = opening[i] + SumFunction(RunsWon(kinds, i))
          /\ Cardinality({r \in Wins(kinds, i) : IsFirstClear(r)})
               = IF opening[i] = 0 /\ counts[i] > 0 THEN 1 ELSE 0
    /\ Follow(counts)

(* "The monster row lock also serializes concurrent battles of the same     *)
(* user" (adventure.service.ts:106): with fights, skips and raids at once   *)
(* every win is counted, the bonus of a first clear is paid exactly once,   *)
(* nothing is cleared before what comes before it, and no stamina is spent  *)
(* twice or not at all.                                                     *)
ClearsAddUp ==
    /\ Explains({"battle", "skip"}, clears, OpeningClears)
    /\ Explains({"raid"}, raids, OpeningRaids)
    /\ stamina = OpeningStamina - SumFunction(StaminaSpent)

(* Boss tokens are won and spent by requests that share no lock but their   *)
(* row: they add up, and every piece bought is of a difficulty that has     *)
(* been cleared.                                                            *)
TokensAddUp ==
    /\ tokens >= 0
    /\ tokens + SumFunction(TokensSpent) = OpeningTokens + SumFunction(TokensWon)
    /\ \A r \in Done({"exchange"}) : raids[Place(r)] > 0

=============================================================================
