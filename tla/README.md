# Specifications of the demo-app backend

The backend is a NestJS application over one PostgreSQL database. Its largest part by far is a
virtual-pet game ("monster"); around it are user accounts, voting, a rent calculator, a ledger kept in
a Google sheet and small services. It runs on instances that are started on demand and stopped when
idle, without any scheduled job: every change of state happens inside an HTTP request, several requests
run at once on one or several instances, and only the database orders them. TypeORM transactions run at
PostgreSQL's default level, READ COMMITTED: a statement sees what was committed when it started,
`SELECT ... FOR UPDATE` waits for a row and then works on its latest version, and nothing protects a
count or a sum of rows that were not locked. That is where most of the difficulty of this code is.

Paths below are relative to the repository; `monster/` is `src/modules/monster/`.

## Contents

1. [The system](#the-system)
2. [The modules and the code](#the-modules-and-the-code)
3. [What TLC checks](#what-tlc-checks)
4. [Bounds](#bounds)
5. [Fairness](#fairness)
6. [What is proved](#what-is-proved)
7. [Findings](#findings)
8. [What is not modelled](#what-is-not-modelled)
9. [Plan](#plan)

## The system

| Component | State | Operations | Hard behaviour, and what makes it correct |
|---|---|---|---|
| wallet (`src/modules/wallet`) | one row per user with coins, gems, raid tokens; a log row per change | `lockWallets`, `change`, `getBalance`; always inside a caller's transaction | lost updates, double spending, half of two changes, deadlocks between players; the log explains the balance, no overdraft, no circular wait, all or nothing |
| monster rows (`monster/core/monster.service.ts`) | one row per monster: species, stats, `selectedAt`, `diedAt` and how it ended, expedition, gear | hatch, select, rename, act, minigame, refill, merge, return home; every one first locks and ticks the living monsters | rows locked one by one from a snapshot, in an order other requests change; counts of unlocked rows; monsters that die while a request waits; a fallback on a pet that nobody has locked. No two requests work on one monster; what comes back from the dead, is merged twice or fought too often is only what that fallback lets through |
| monster engine (`monster/core/monster-engine`) | the state of one monster | `step` (one game minute), `tick` (replay), a dozen owner actions | lazily replayed time: late evolution, sickness and death; leftover seconds, capped replays, `now` that runs backwards. Replaying equals living in real time, every death has its cause, a form is decided once |
| expeditions (`monster/adventure/expedition.service.ts`) | area, minutes and return of a monster | start, claim | the monster is fed, soiled, starved while away and must head home the minute it is unwell |
| adventure stages (`adventure.service.ts`) | clears per stage | battle, skip, drops | what is cleared is read under the monster lock and written back as a sum; drops into a bag that is counted without a lock. Clears, stamina and wins add up |
| quests, login streak (`quest.service.ts`) | progress rows per day or week, a row per login | progress, claim, claim login | upserts without a lock, claims that race each other and midnight, a streak read from a bounded look-back. Paid once, for work done, streaks without a gap |
| raid (`monster/boss/raid.service.ts`) | fight log, clears per difficulty, boss tokens | battle, exchange tokens | attempts counted from the log under the monster lock; an exchange locks only the tokens. Tokens add up, pieces only of cleared difficulties |
| world boss (`monster/boss/world-boss.service.ts`) | one row with shared HP; a damage row per player; rentals | attack (with a rented ally), claim, view | parallel attacks on shared HP, four kinds of locks, rental fees with a daily cap, claims that race attacks. Damage adds up, one killer, hits and earnings within limits, one reward each |
| arena, ladder (`monster/arena`) | rating rows per season, battle log, defences; the state of a fight | challenge, defence, season claim; real-time battle engine, Elo, matchmaking | two ratings inserted in the order of the challenge and locked in user-id order, a season claimed once; in a fight, controls, dodges, counters and deaths that set each other off. A rating is what its fights made of it; HP is accounted for; nobody is held for ever |
| turn battle (`monster/battle`) | a fight: HP, shields, burns, order | a duel, a team against a boss | the events must retell the fight to a client that replays them |
| equipment, enhance, craft, costume, shop (`monster/equipment`) | pieces with grade, level, wearer; craft jobs; pity counters | equip, refine and keep, dismantle, buy, enhance, start/skip/claim a craft | bag capacity counted without a lock, wearers that are away, a claim that fails half way. Each piece ends once and is worn by one, each craft gives one piece |
| inventory (`monster/inventory`) | a count per user and item | spend, use | counted down by two requests |
| passives, skills (`monster/passive`) | nodes, picks and ascendancy of one row per user; the loadout of a monster | allocate, refund, respec, save; set a loadout | points counted from what was achieved, refunds that cost more each time, saved drafts; loadouts that outlive what made them legal |
| friends, support (`monster/social`) | friendship rows, gifts, greetings, support unit | request, respond, remove, greet, gift, rent | limits counted without a lock, mutual requests |
| key-value store (`src/modules/kv-store`) | keys with a value and an expiry | get, set, setIfAbsent, incrementWithTtl, delete | expiry is lazy; several instances |
| login, two-factor (`src/modules/auth`) | the user row; locks, used codes, remembered devices in the store | login, verify, enrol, confirm, disable | no transaction: each statement stands alone. A code is redeemed once, a remembered session works |
| tokens (`src/modules/authentication`) | the sessions of a user in the store | sign, refresh, clear, guard | writes in any order against a refresh, a sign-out or a change of password |
| users, permissions (`src/modules/user`, `permission`) | user rows | register, change password, delete | check then insert |
| voting (`src/modules/voting`) | a poll, its options, the ballots | create, edit, close, submit, results | a vote reads the poll, the earlier ballot and writes, each on its own, against edits and closing. The results count every ballot |
| house rent (`src/modules/house-rent`) | a house's months, members and the files attached to either | create, edit, delete a house; overview | an edit is saved as a whole, but a file's row is locked long after it was looked at; two edits may list one file, or a month that the other removes. No file is taken from its record or lost, the shares cover the bills |
| paojiao ledger (`src/modules/paojiao-ledger`) | four tables in a Google sheet that share row numbers; item names in the database | add, edit, delete an entry, a wage, a withdrawal, an item name | rows addressed by number, several API calls per request, a process that dies between two. What was entered stays entered, in order, in its round |
| bill, attachment, deck, health | single rows, files, constants | CRUD | none |

Interactions. Every service that moves money calls `WalletService.change` in its own transaction. Every
service that plays with a monster calls `MonsterService.lockAndTickLiving` or `lockAndTickLatest` first,
so the locks of the monsters come before all others; a tick may itself pay gems (a newly discovered
species) and so lock a wallet. The world boss and the arena lock rows shared by players after their own
monsters. The passives, equipment and potential change how fast a monster's minutes drain it.
The line-by-line list of what is hard to test is in `PROJECT.json` under `hazards`; each entry names the
properties that watch it, or says why none does.

## The modules and the code

| Module | Models | State and actions |
|---|---|---|
| `Wallet` | `wallet.service.ts` | `row` is committed, `draft` what the holder of a row has written, `holder` the row locks. `Begin`, `LockWallet` (`lockWallets`), `ChangeRead` and `ChangeWrite` (the two halves of `change`, between which others run), `NotEnough`, `CallerFails`, `Commit`, `DeadlockVictim`. `Plan[r].before` is how many changes come before `lockWallets` (a tick that pays for a discovery) |
| `Bank` | what the wallets promise | balances that change by a whole request at once, `Pay` or `Refuse` |
| `MonsterRoster` | `monster.service.ts` and the handlers that start with its lock | one player's rows. `Snapshot` and `LockRow` are one `FOR UPDATE` statement, `Act` the tick and the handler (`Hatch`, `Select`, `Merge`, `ReturnHome`, `Fight`, `Equip`, `Unequip`, `Explore`, `Collect`), then `Commit`, `Refuse`, `Fail` or `DeadlockVictim`. `FallBack` is the end of `lockAndTickLatest` when nothing locked lives: the newest row, read without a lock (`unlocked`); `ActUnlocked` works on that copy, `Reload` and `Overwrite` are the `save` that looks at the row once more and then updates the columns in which the copy differs (`dirty`) |
| `MonsterEngine` | `monster-engine/simulation.ts`, `actions.ts` | `Step` is one minute, `Act` the owner's actions on the variable `pet` |
| `MonsterLife` | what the engine promises | the same monster living in real time: `TimePasses` runs each minute when it happens; `OwnerActs`, `OwnerAllocates` |
| `MonsterKeeping` | `tick`, `lockAndTickLiving` | a row nothing touches until `Request` replays its minutes; `now` may be old (`MAX_LAG`); `Allocate` changes the drain behind it; `Pass` is the clock |
| `MonsterTime` | - | `MonsterKeeping` with `found`, the monster a request would find now, and the mapping to `MonsterLife` |
| `WorldBoss` | `world-boss.service.ts` | `boss`, `share` (damage rows), the log, rentals, and a `holder` for every lockable row. An attack is `LockMonster`, `PayDiscovery`, `CountHits`, `LockBoss`, `LockWallet`, `Fight`, `CommitAttack`; a claim `ReadBoss`, `LockShare`, `Assess`, `CommitClaim`; `WeekEnds` |
| `FriendGraph` | `friend.service.ts`, `spend` and `addToBag`, the points of a rental | `rel` the friendship rows, `log` greetings, gifts and rentals, `bag` the items, `holder` the locks (rows, the sender's advisory lock, bag rows). A request to be friends is `Look`, `CountSlots`, `CountWaiting`, then `Meet`, `Insert` or `LoseRace`; an answer `LockPending`, `CountFriends`, `Accept` or `Decline`; `FindToRemove`, `Remove`; a greeting `LockFriendship`, `CountGreets`, `Greet`; a gift `LockSender`, `LockFriendship`, `CountGifts`, `Spend`, `Deliver` |
| `Equipment` | `equipment.service.ts`, `enhance`, `craft`, `costume`, `shop`, `inventory`, an expedition's rows, and every source of a piece: the exchanges of raid and world bosses (a token row each), raids and stages won, skips, the week's reward | `tier`, `inserted`, `piece`, `owned`, `job`, `pity`, `coin`, `bag`. `StepsOf(r)` lists the statements of a request (reads, locks) with their conditions; `Go` does the next one and the last one is the action of its name (`BuyBox`, `Buy`, `Exchange`, `WinRaid`, `WinStage`, `ClaimReward`, `BuyCostume`, `StartCraft`, `SkipCraft`, `ClaimCraft`, `Enhance`, `Refine`, `ResolveRefine`, `Dismantle`, `Equip`, `Unequip`, `Travel`, `Use`) |
| `Quest` | `quest.service.ts`, `quest-data.ts` | `rows` (progress and logins per period), `fresh` (inserted, not committed). `Begin`, `ReadLogins`, `TakeRow`, `SaveEvents`, `WriteQuest`, `Commit`, and `Midnight` |
| `Stages` | `adventure.service.ts`, `raid.service.ts` | `clears`, `raids`, `tokens`, `stamina`, `pieces`. `LockMonsters`, `ReadProgress`, `CheckBag`, `Fight`, `AddTokens`, `Grant`, `CommitFight`; `SpendTokens`, `CommitExchange` |
| `Pvp` | `pvp.service.ts`, `pvp-queries.ts`, `elo.ts`, `pvp-matchmaking.ts`, `pvp-season.ts` | `ratings` by player and season, `battles` the log, `defended`. `RowsOf(r)` is what a request inserts and locks, in order; `TakeNext`, then `Battle`, `Defend` or `ClaimSeason` |
| `PassiveData` | `passive-data.ts` | the tree as `buildNodes` builds it, what may be owned, what it costs (no state) |
| `PassiveTree` | `passive.service.ts` | the trainer's `row`, `gems`, `progress`. `LockRow`, `ReadProgress`, `Pay`, `Write`, `Abort`; `Achieve` and `SpendElsewhere` are the other requests of the player |
| `Bestiary` | `species-data.ts`, the tables of `arena-data.ts`, `adventure-data.ts` and the bosses; `arena-fighter.ts` | species, evolutions, skills and foes; which skills a monster may carry and what `cleanArenaLoadout` leaves (no state) |
| `Loadout` | `skill.service.ts` and who builds a fighter | one pet, its stored `slots`, the fighter `made` of it. `Evolve`, `RaiseAnother`, `Merge`, `setLoadout`, `Fight`, `Freeze`, one request after the other |
| `Arena` | `arena/arena-engine` | `fighters` (with what was dealt, healed, reborn and which controls took hold, remembered for the properties), `shots`, `zones`, `tick`, and `todo`, the calls a blow has set off and that have still to return. One action per thing a turn may do (`WindUp`, `release`, `ChargeReaches`, `Cast`, `BasicAttack`, `Walk`, `SeeComing` for a dodge, ...), per thing a blow may do (`StrikeLands`, `StrikeDodged`, `RetortLands`, ...), `Fly`, `ZonesLand`, `ZoneStrikes`, `Verdict` |
| `TurnBattle` | `battle-engine.ts`, `team-battle.ts` | `side` (the fighters), `order`, `told` (the HP a client sees). `NextRound`, `StartTurn`, `Skip`, `Strike`, `StrikeAgain` |
| `KvRows`, `KvStore` | `kv-store` | the table, as functions over the rows and as actions, beside the map of the tests. `Get`, `Set`, `SetIfAbsent`, `IncrementWithTtl`, `Del`, `DeleteByPrefix`, `DeleteExpired`, `Elapse` |
| `LiveStore` | what the store promises | the live entries only |
| `Login` | `auth.service.ts`, `authentication`, `changePassword` | the `user` row, the `store`, per request where it is (`pc`), what it read (`seen`) and the writes of a `Promise.all` still to come (`todo`). One action per statement |
| `Voting` | `voting.service.ts` | `poll`, `ballots`; `page`, `known` are what a request has read. `Create`, `ReadPoll`, `CheckBallot`, `FindExisting`, `WriteBallot`, `CountVotes`, `DeleteOptions`, `CommitEdit`, `Close` |
| `Ledger` | `paojiao-ledger.service.ts`, `ledger-sheet-parser.ts` | `cells`, `marks`, `wages`, `withdrawals` (the sheet), `items` (the table), `view` what a request has read. One action per API call (`Read`, `WriteEntries`, `Reorder`, `SyncWrite`, ...), and `Fail` between any two |
| `HouseRent` | `house-rent.service.ts`, `house-rent.controller.ts` and the entities | `houses`, `rents` (months), `members`; `files` as committed, `draft` as their `holder` left them. `Open`, `DropFiles`, then `CheckFiles` and `LinkFiles` for each record, `Commit`; `Delete`, `Fail` |
| `Accounts` | - | wallets, `KvStore`, `Login`, `Voting`, `Ledger` and `HouseRent` side by side, for any constants; the properties of the run `accounts` |
| `NatFacts` | - | what the proofs need of naturals and of sums: the least member of a set, `SumFunctionOnSet` when a term changes, and as the number of pairs when its terms are sizes |
| `MCAccounts` | - | the instance of `Accounts` |
| `Play` | - | what players share, `Equipment`, `FriendGraph`, `Quest`, `Stages` and `Pvp`, side by side for any constants, and their properties of the run `game` |
| `Game` | - | `Play` with `PassiveTree`, `Arena`, `TurnBattle` and `Loadout` |
| `MCGame` | - | the instance of `Game` |
| the other `MC...` | - | instances for TLC |
| `..._proofs` | - | theorems, see [What is proved](#what-is-proved) |

In `Accounts`, `Play` and `Game` the variable `live` is chosen in the initial state and says which component
the behaviour is about. The others rest (at `Idle`, or at their initial state where a refinement mapping
has to be defined), so the states of such a run are the sum of its components' and not their product.
Components meet in the modules that model their meeting: the wallet in every module whose requests hold
it, the bag in `Equipment` and `FriendGraph`, the store in `Login` (`KvRows`), the tree in
`MonsterKeeping`, the monsters' rows in `Quest`, `Stages` and `Pvp`, the tables in `Loadout`.

What is abstracted: hearts and stamina are integers (the code uses floats whose drains are multiples of
a unit); weight, potential, names, events' texts and drops are left out. Who wins a fight is a choice
where only the outcome matters (`Stages`, `Pvp`), its damage any value the split accepts (`WorldBoss`);
inside a fight (`Arena`, `TurnBattle`) places and dice are choices and damage is a small number. A minute is `Minute` clock instants so
that a request falls between minutes. How long a monster takes to die is the engine's business: in
`MonsterRoster` any grown monster may die at any tick.

Rows of two players are never locked together by the roster handlers (the world boss does, and has its
own module), so `MonsterRoster` follows one player. The other modules of the game (`WorldBoss`, `Equipment`,
`Stages`, `Quest`, `Pvp`) see these rows as one lock that orders the requests of a player; a request that
falls back on an unlocked pet is in `MonsterRoster` only.

Some definitions carry a second form with a comment "a bug this module is checked against" (a dropped
`FOR UPDATE`, an unsorted lock, an off-by-one). No action uses them; they show that each property
fails when that part of the code is wrong.

## What TLC checks

| Run | Shows |
|---|---|
| `accounts` | wallets, key-value store, logins, a poll, the ledger's sheet and a shared house (830 thousand states). See below |
| `roster` | every pair of handlers on one player's monsters, with deaths and failures, and a look, a fight and a selection that changes the order in which the other two lock, and a merge with a fight that waits behind it and a fight or a farewell that comes after it (130 thousand states): `OneAtATime` (no two requests work on one monster, and where none fell back they queue); `NothingOverspent` (fights beyond the limit of a window, parents and cores that were not paid are only those that the fallback lets through, each counted; what is gone wears nothing); `GoneForGood` (but for a stale copy that the fallback saves); `CapKeptWhenFresh`; and `EveryRequestEnds`, also those that wait in a circle (`DeadlockVictim`) |
| `keeping` | whole lives with expeditions, fights, cures, old `now`s and two drains: `ExplorersAreWell`, `DeathsAreExplained`, `CapNeverBites`, and `LifeMovesOn` (no minute is lost, no clock turned back, a form decided once) (750 thousand states) |
| `time` | every action of the owner: `MonsterKeeping` implements `MonsterLife` (`LivesInRealTime`) and `EveryLifeEnds` (33 thousand states) |
| `boss` | two rentals of one owner and a player with one hit who attacks twice and claims twice, around the fall of the boss and the end of the week; and friends who rent from each other while one claims (380 thousand states): `EveryHitCounts` (damage adds up to the HP lost, hits within the limit), `EarningsWithinCap`, `ClaimsAreFinal` (paid once, and nothing changes what a claim was worked out from once the boss has fallen), `FriendsAreAnswered` |
| `game` | the game around the monsters (620 thousand states). See below |
| `roster_cap`, `roster_fights`, `ledger_edit`, `boss_rental`, `gear_away`, `gear_full` | violations, see Findings |

The components of `accounts`:

- Wallets: rentals in opposite directions, one of which has paid for a discovery first, and a merge.
  `LedgerExplainsBalance`; `NoCircularWait`: a circle needs a request that has paid its caller before
  `lockWallets` and waits for a lower user id; and `BehavesAsBank`: `Wallet` implements `Bank`, and every
  request is answered.
- Key-value store: `ImplementsLiveStore`. The table implements `LiveStore` whenever the expired rows are
  dropped, and the map of the tests gives the same answers.
- Logins: `CodeRedeemedOnce` and `AnsweredSessionsWork`. A session that was answered works until it
  expires, is refreshed or is signed out, whatever writes of other requests come late.
- Voting: `EveryBallotCounts`. What a voter is shown counts each ballot once. A ballot written while an
  edit removes its option (`crossed`) is the exception the code allows, and the property says so.
- Ledger: `BooksAreKept`. Every write changes the books as its request asked, and no other step changes
  them, although requests on four tables cross and one may die between two calls of the API; at rest the
  sheet is in order and its rounds are marked. Two things the code does are named in the property: an
  entry with a blank date cell changes its date with the cell above it, and a withdrawal deleted above a
  blank row doubles later ones.
- Houses, in `BooksAreKept` too: no file turns up at another record than it belonged to, unless two
  requests that list it are under way at once (`crossed`, the exception the code allows); a file that can
  be seen hangs on a month that can be seen, unless the month is saved by somebody who has not noticed
  that it was removed (`stale`); and what the members are asked to pay covers the bills but for rounding.

The components of `game`:

- Equipment: `PiecesAddUp` (each piece ends once and pays once; only requests that count the bag under
  different locks - the wallet, the tokens of one boss, the craft job - and meet overfill it; no pet that is
  away changes its gear by equipping) and `EveryCraftAddsUp`.
- Friends: `FriendsHaveAgreed`, `GiftsAddUp`, `PartedForGood`.
- Quests: `RewardsAreEarned`. Stages and raids: `StagesAddUp`.
- Ladder: `RatingsFollowTheFights`; and for ladder, quests and gifts `CirclesOnlyWhileJoining`, which
  says which requests are able to wait in a circle at all.
- Passive tree: `TreeStaysConnected`, `RefundsArePaid`.
- Fights: `HpIsAccounted` and `ControlWearsOff` of the arena, `RoundsAddUp` of the turn battles,
  `LoadoutsAreLegal` of what is brought into them.

`TypesOK` is the type invariant of all components of its run.

`CHECK_DEADLOCK FALSE` is set everywhere because these systems stop by themselves: when all requests of
the instance have ended, when a fight is over, or when the clock reaches its bound.

## Bounds

- Wallet: two players, two currencies and four requests: three rentals, in both directions, of which one
  has paid its caller before, and one that changes its own wallet twice. Each pair of roles meets on
  common rows, and two changes of which the second cannot be afforded are among them.
- Roster: two starters and two rows that are still to be born, two requests (three where `IsCrowded`
  says so), a cap of three and one fight per window. The second hatch, merge or fight is always one too many, which is where a
  counting mistake shows; behind a merge, the third request is the one that holds the fused pet while the
  second works on it unlocked. `Starters` begin as grown monsters; eggs appear by hatching.
- Monster lives: nine minutes long, in five forms with every kind of evolution rule; every threshold is
  reached within a life, and a life ends before `MAX_CLOCK` (24, in the run `time` 22) instants of half a
  minute, so that a whole life, its death and requests after it are in range. An expedition lasts up to
  three minutes. `MAX_REQUESTS` (3, in the run `time` 2) bounds the
  interventions, `MAX_LAG` (one instant) the age of a request's `now`, `MAX_TICK_MINUTES` is 13 as the
  code's is longer than any life.
- World boss: HP of 3 and damage of 1 or 2 per fighter by choice, one hit per window, a fee of
  2 with a daily cap of 3, so that the second rental is paid in part.
- Friends: three strangers and three friends, a friend list with two places, one waiting request, one
  greeting, gift and item each, two days. `Plans` lists the requests that come together. The second
  greeting, gift or item is always one too many; a request that loses its race once may lose it again.
- Key-value store: two keys, lifetimes of one and two instants, a clock to 2, counters to 2. Each
  operation meets a live row, an expired one and none, and an expiry falls between any two.
- Login: limits of two wrong passwords and two wrong codes, lifetimes of one to three instants, a clock
  to 2 and six plans of up to four requests on one user: logins that share a code or a device, a change
  of password, a refresh or a sign-out against a login, enrolling against disabling.
- Voting: two voters and five plans, one per kind of poll, with up to two edits or a close.
- Ledger: seven rows, sheets of three and five entries with closed and open rounds, days of several rows,
  blank rows between withdrawals, plans of up to three requests on different tables. The code's comment (`paojiao-ledger.service.ts:727`) takes it that one
  person at a time edits a table; requests on one table do not interleave here either.
- Houses: a house of two months and two members, four files, four plans of up to three requests: edits
  that remove, add and swap months, a second house with the same file or the same name, a deletion.
- Equipment: two pets, two pieces and two free places, one in some plans, so that two requests fill the bag and others that
  have counted before overfill it; the tokens of two bosses; a craft ready in the queue at the start, so that another
  is started after it; a craft of two minutes and a pity after one failure; up to three requests of each plan.
- Quests: the last day of a week and the first of the next, and logins with a gap.
- Stages: three stages of which one is cleared, two difficulties of a raid, tokens for one piece.
- Ladder: three players and a computer rival, a season of one day (so requests of two seasons meet), two
  attempts a day and one per rival, each of which some plan exceeds. Ratings near the bottom reach the floor.
- Passive tree: the tree has its real size and shape. It begins empty, or with a lane, its mastery and
  two nodes of an ascendancy; 25 gems are enough for some of the refunds and not for others.
- Arena: five duels, each of which brings some mechanisms together, in 7 ticks, with HP of 2 to 5: enough
  for two blows, a death and a rebirth, and three controls in a row.
- Turn battles: four rounds of a duel and of two members against a boss, with skills every second round.
- Loadouts: one line with its real evolutions and skills, merged with two others; two pets one after the
  other.

None of these numbers is in a theorem: the constants of the proved modules are arbitrary.

## Fairness

`WF(Step(r))` for each request of the wallets in `accounts`, of the friends in `boss` and, once the third
has come, of `roster`: the runtime runs a request on, the database grants a lock once it is free, and
breaks a circular wait by failing one of the requests in it (`DeadlockVictim`). Failures of the process
are never fair. `WF(Pass)` in the run `time`: time passes. Nothing else is assumed; in particular no
request is ever bound to come because of time, so `EveryLifeEnds` says that a monster's life ends by the
clock alone. The other components are checked for safety only.

## What is proved

For all values of the constants that meet the assumptions written next to them:

- `Accounts_proofs`, first of the wallets alone. `WalletTypeOK`, `WalletLedger`, `WalletNoOverdraft` by the invariant
  `TypeOK /\ AccountsSound /\ UnlockedUnwritten /\ ReadIsFresh`: committed and drafted accounts are
  chained and never negative; a wallet nobody holds has no draft; and a request between the two halves
  of `change` still holds the row whose balance it has read. The last is the reason the lock matters:
  without it `seen` could be old and the chain would break. `WalletNoCircularWait` needs a second
  invariant (what a request holds lies below what it has still to lock, unless it paid its caller early) and
  `LocksBothAssumption`: a request that moves money between two players locks both with `lockWallets`, and
  pays nobody but one player, its caller, before that; all others touch one wallet only. So a circle needs a
  request that `LocksBackwards`, which is what the run `boss_rental` shows of the whole attack. `WalletImplementsBank` shows every
  step to be a `Pay`, a `Refuse` or a stutter of `Bank`: a draft is the committed account with the
  changes made so far, so that a commit pays all changes of the request at once and each could be
  afforded, and a request that finds too little could not have been paid.
- `Accounts_proofs`, then of the composition in which the runs check these properties. `AccountsRedeemOnce`:
  a backup code is not redeemed twice within the life of its claim, although it is found unused in a row
  read before and used up by a later write. The invariant is `Typed` (types, and which kind of request
  can be at which label) and `Claimed` (while the claim of whoever redeemed a code last has not ended, it
  is in the store). `AccountsSessionsWork`: a session that was answered works until it expires, is refreshed or
  is signed out. Its invariant `Sessions` says where a request can be that has a session, that
  whoever is about to delete a token is known to end its session (`IsEnding`), and that each half of a
  session that has not ended is stored (`AccessKept`, `RefreshKept`), but for the access token that a
  refresh which keeps its session is replacing (`Hole`). `AccountsImplementLiveStore`: with `Kv!TypeOK`, `SameWhileLive` (table and map hold the same
  live entries) and `FakeAnswersAlike`, every statement is a step of `LiveStore` on the live entries; no
  statement looks at an expired row, so that dropping these is a stutter. `AccountsKeepWallets`: the
  wallet's theorems hold in the composition. `AccountsCountEveryBallot`: what a voter is shown
  counts each ballot once, unless an edit took options from under it. The invariant `VotingInv` says that a
  voter past its read has read the poll's kind and limit and that a checked ballot fits the options it read
  (`VoterOK`), and that a ballot no edit has crossed names options the poll still has and that no edit
  is past its count while there is one (`BallotsOK`). That the points then
  add up is an argument on pairs: each choice, or each pair of a ranked option and an option ranked below
  it, is one point of one option, and the sizes of an indexed family of sets add up to the number of its
  pairs (`SizesAddUp` of `NatFacts`). `KvParameters`, `LoginParameters` and `VotingParameters` are the
  assumptions (lifetimes and limits are naturals, the opening rows are rows, there are finitely many voters
  and each plans what a request can ask for), which TLC evaluates.
- `MonsterRoster_proofs`. `RosterTypeOK`, `RosterOneAtATime`, `RosterFightsWithinLimit`,
  `RosterGoneForGood`. The statements of two requests may see different monsters. The key part of the
  invariant, `SnapshotsOrdered`, says that as long as no monster was brought back, of two open requests one
  has seen each living monster that the other saw, whichever is the later; so both cannot hold all the
  rows they saw, and the fights counted under these locks are not counted twice. A request that fell back
  holds none: `FellBackOn` says what its copy may differ in from the row, from `FallBack` to the commit, and
  `FightsCounted` that the fights above the limit are such requests. `RosterGoneForGood` rests on
  `LocksKept` and `DraftsOwned`: a request only drafts rows it holds, that were living when it locked
  them, or the one row it fell back on, and only the last can revive a monster. `RosterNothingOverspent`
  adds `CostInv`: each draft is paid for by itself (`DraftsPaidFor`: as many monsters merged away as two
  per fused one, a core per monster returned, who is gone undressed), a request that fell back pays and
  earns nothing but its fight (`FallenPayNothing`) and gives back at most the one monster it saves; as the
  requests' rows are disjoint otherwise, a commit adds paid-for sums to paid-for sums. In
  `RosterCapKeptWhenFresh` a hatch that has seen all living monsters at its commit counted what it
  leaves (`DraftsFit`, `LeftOutAreGone`).
- `MonsterKeeping_proofs`. Of `MonsterLife`: `LifeTypeOK`, `LifeExplorersAreWell`,
  `LifeDeathsAreExplained`, `LifeDecidedOnce`, by the invariant `IsSound(pet)`, which adds to the
  properties that a starved monster has an empty stomach, a living one is below each limit and an egg has
  no past. One lemma per owner action and one per part of a minute. The assumptions are
  `EngineAssumption` and `SpeciesAssumption` (no evolution changes the lifespan, every limit is
  positive), which the code's tables satisfy. Of `MonsterKeeping`: `KeepingTypeOK`, `KeepingExplorersAreWell`, `KeepingDeathsAreExplained`,
  `KeepingCapNeverBites`, `KeepingLifeMovesOn`, by the invariant `KInv`, whose part `HasLived(s, m)` says
  that a monster found after m minutes since its birth is as old as that, but for the minutes of the egg
  that an online owner saved it. So a living one can never be more minutes behind than a tick replays
  (with `LifeFitsAssumption`: an egg and a life fit into one tick), and no minute is lost to the cap.
  A replay is a recursive function over its minutes; what holds of all its minutes is shown by the least
  one for which it would not, which needs no rule of induction. `KeepingImplementsLife`: what is found is
  always what a monster that lived through every minute would show (`LivesInRealTime`), provided that it
  is `Steady`: no request's `now` is older than the last one's (`MAX_LAG = 0`) and passives do not change
  the rates. Both are needed, as an old `now` makes an action count as earlier than minutes it came
  after, and new rates apply to minutes that passed under the old ones; the run `time` is made in the
  same way.
- `WorldBoss_proofs`. `WorldBossTypeOK`, `WorldBossEveryHitCounts`, `WorldBossEarningsWithinCap`,
  `WorldBossClaimsAreFinal`, by an invariant that says of each request what it may rely on because of
  the locks it holds (`RequestsOK`: from its hits counted to its commit an attack is below the limit,
  the boss it has read is the boss while it holds the row, and its fee still fits into the owner's day), and of
  the claims that what is paid for a fallen boss still agrees with its row and the damage rows
  (`PaidIsFinal`). The allies' damage and the day's earnings are sums over users, for which `NatFacts`
  shows what changing one term does.
- `Play_proofs` and `LadderAndGoods_proofs`, of the composition in which the run `game` checks these
  properties; each part has its own invariant, and a step of `Play` is a step or a stutter of the part
  that is live (`PlayStep`).
  - Friends: `PlayFriendsHaveAgreed`, `PlayGiftsAddUp`, `PlayPartedForGood`. A request works on a row it
    found before it locked it. `FriendInv` says what it may still rely on: the row is of the same two
    players, the rows it counts on are locked by it, what it counted is below the limit. The points of
    the friendships and the gifts are sums over the log (`NatFacts`).
  - Stages and raids: `PlayStagesAddUp`. `StageInv` says what a fight holds while it works with the
    progress it has read, and `StageSafe` that clears, tokens and stamina are those of the committed
    requests. An exchange holds no monster; it is safe because a clear is never taken back.
  - Quests: `PlayRewardsAreEarned`. By `QuestInv` a request that has written a quest row without
    committing it holds that row, and what it wrote is still made from what the row is: the upsert and
    the conditional update are read and write in one statement. A commit then moves the row by one event
    or one claim. The days a login claim has counted stay claimed, so its streak is real whatever
    midnight does in between.

  - Ladder: `PlayRatingsFollowTheFights`. A fight computes two new ratings from two rows it has read, and
    writes them statements later. By `LadderInv` it has locked both rows, the monster it fights with and
    the attempts of the day before it counts, so that what it read is what the rows are, and what it
    counted is below the limits, until it commits. `LadderSafe` is then that each rating, win and loss is
    what the committed fights of its season make of the opening rows, one after the other. A row that is
    missing is inserted by one request, and whoever else wants to insert it waits.
  - Equipment: `PlayPiecesAddUp`, `PlayEveryCraftAddsUp`. `GoodsInv` says what a request relies on because
    of the rows it has locked: the piece it touches is still there, the job in the queue is still the one
    it read, the pet it dresses is still at home. `GoodsEnd` pairs each piece that has ended with the one
    log entry that ended it. The bag is counted before a piece is inserted, by requests that hold
    different rows; `GoodsFit` says of every set of the requests under way that, if they committed, the bag
    would be too full only by what met there: what an open request has inserted nobody else sees, and of
    one queue (`Queue`: the wallet, the tokens of one boss, the job) only one request can have any.
  - Who waits for whom: `PlayCirclesOnlyWhileJoining`. In a circle each request holds a row that the next
    one wants. A request holds only rows it has come past; where a component locks its rows in an order,
    what is wanted rises from each request to the next, which no finite circle does (`NoEndlessRise`).
    Gifts lock two bags and are not ordered: the circle is followed back through three bags that are
    three different ones, since two gifts between the same two players would hold the same living
    friendship row. The circles that remain are those the property names: of joiners, of two requests of one player,
    of ticks that discover a species, and of gifts in a ring.

  The assumptions are `FriendParameters`, `StagesParameters`, `QuestParameters`, `PvpParameters` and
  `GoodsParameters`: finitely many requests, limits and targets that are naturals, plans made of the
  requests that exist, an opening state that the game can be in. TLC evaluates them in the run `game`.
- `Game_proofs`: `GameTreeStaysConnected` and `GameRefundsArePaid`, by the invariant `TreeInv`. From its
  lock to its commit a request holds the row and has read what the row is (`TreeHeld`); the points it has
  counted, without a lock, are still there, as achievements only grow (`TreePoints`, `PointsGrow`); what it
  was allowed it is allowed when it writes, and has paid for (`TreePaid`). What can be reached is computed
  in as many steps as there are nodes; the proofs replace this by what it is, the least set that holds the
  start and the owned neighbours of its members (`ReachableIsClosed`, `ReachableIsLeast`), from which it
  follows that a new node joined to an owned one, a branch cut off whole and a checked draft leave the rest
  connected (`AllocateKeeps`, `BranchKeeps`). For the gems, `TreeMoney` counts what requests have paid and
  not yet committed as reserved; the price of a refund is a difference of the one function `Past` of the
  points refunded so far, so that prices of successive refunds telescope (`CostGrows`, `Writes`). The
  assumption is `TreeParameters`: the plans hold requests of the kinds there are, an opening tree is valid
  with any of the opening achievements. TLC evaluates it in the run `game`.

  Turn battles: `GameRoundsAddUp`. `RoundsInv` adds to the property where the fight is (`RoundsControl`: who
  acts and who is struck are a member and the boss, no turn begins once the fight is over). What is told
  and what has happened change together, in up to four events of one turn (burn, regeneration, strike with
  thorns and lifesteal, second strike), each with what it took: `DamageSum` credits the members with no
  less than the HP the boss has lost, and with exactly that if it cannot heal, because a strike takes no
  more HP than is left and thorns and burns are credited where the HP is taken. `EventsTellTheHp` follows as each event names the HP
  left of all whom it changes. The assumption is `RoundsParameters`: a line-up is at least one member and a
  boss, each with positive HP and damage, shield and regeneration that are naturals.

Of the properties of the passing runs, each of these theorems states one as it stands:
`LedgerExplainsBalance`, `NoCircularWait`, `CodeRedeemedOnce`, `AnsweredSessionsWork`,
`ImplementsLiveStore`, `OneAtATime`, `NothingOverspent`, `GoneForGood`, `CapKeptWhenFresh`,
`ExplorersAreWell`, `DeathsAreExplained`, `CapNeverBites`, `LifeMovesOn`, `LivesInRealTime` (of steady
monsters), `EveryHitCounts`, `EarningsWithinCap`, `ClaimsAreFinal`, `FriendsHaveAgreed`, `GiftsAddUp`, `PartedForGood`, `StagesAddUp`,
`RewardsAreEarned`, `RatingsFollowTheFights`, `PiecesAddUp`, `EveryCraftAddsUp`, `CirclesOnlyWhileJoining`,
`TreeStaysConnected`, `RefundsArePaid`, `RoundsAddUp` and `EveryBallotCounts`. `BehavesAsBank` is proved but for
its liveness (`ImplementsBank`).

Only model-checked:

- Liveness: `EveryRequestEnds` (in `BehavesAsBank` for the wallets), `FriendsAreAnswered`,
  `EveryLifeEnds`. ENABLED and fairness are out of the prover's reach.
- The ledger's and the houses' part of `BooksAreKept`: parsed sheets and shares are folds over data, and
  the prover has no induction over data.
- `LivesInRealTime` where rates change or requests are late: it does not hold there.
- `TypesOK` as a whole; the types of the proved components are part of their invariants.
- Of the run `game`: the arena's fights (`HpIsAccounted`, `ControlWearsOff`) and the loadouts
  (`LoadoutsAreLegal`). Each is about what one request computes, by folds and `SelectSeq` over its data,
  which the prover does not expand, and no two requests meet in it.

## Findings

- `roster_cap`. `hatch` counts the monsters its own statement locked; an egg that another hatch commits
  after that snapshot is not among them, so two hatches can leave the player one above
  `MAX_LIVING_MONSTERS`. `CapKeptWhenFresh` states what does hold: a hatch whose snapshot was still
  complete at its commit keeps the cap.
- `boss_rental`. The comment at `world-boss.service.ts:274` says that two friends who rent from each
  other wait for each other; when the tick of one of them discovers a species, its wallet is locked
  before the boss row and the two deadlock. The database fails one of them and the system goes on
  (`FriendsAreAnswered` in the run `boss`).
- `gear_away`. "Gear can't change while a pet is away" (`equipment.service.ts:206`), but
  `enhance.service.ts:58` never looks at the wearer: the piece changes its level, or breaks.
- `gear_full`. `grantItem` "adds a piece to the user's bag unless it is full" (`equipment.service.ts:112`),
  but it counts and inserts under no lock of its own. Two exchanges with different bosses lock different
  token rows, a box the wallet, a craft its job: those that meet both take the last place. `PiecesAddUp`
  states what does hold: requests of one queue never overfill it.
- `roster_fights`. "Callers hold the monster row lock, so the count can't be overspent by parallel
  requests" (`daily-fights.ts:16-17`, and `raid.service.ts:126`). A fight that waited behind a merge finds
  both parents gone, and `lockAndTickLatest` (`monster.service.ts:402-407`) hands it the fused pet, alive and
  unlocked; a fight that came later holds that pet's lock, and both count the same log. The fallback also
  lets a stale copy be saved over a pet that has died or gone home meanwhile. `OneAtATime`,
  `NothingOverspent` and `GoneForGood` state what holds in spite of it.
- `ledger_edit`. "In-place update of one row's values - the row number doesn't change, so this is always
  safe" (`paojiao-ledger.service.ts:222-223`). The sheet leaves the date cell blank below the first entry of
  a day; giving that first entry another date gives it to the entries below as well.

Observed while modelling, without a run of their own:

- A second stun, weakened by `ccSteps`, shortens the first: the status keeps the longer time, but the
  fighter acts again when the shorter one is over (`arena-engine/status.ts:61`, `:67-68`).
- `simulateTeamBattle` says that the members' damage adds up to `damageDealt`, the HP the boss dropped
  (`team-battle.ts:22-25`, `:132-133`, `:73`). For a boss that regenerates or drains it does not: `damageDealt`
  is the HP missing at the end, and the members stay credited with what the boss has healed since. Only the
  tests call this function with such a boss (`team-battle.edge.spec.ts:61`). `RoundsAddUp` says "no less", and
  "exactly" for a boss that cannot heal.
- "The team engine ignores the three below" (`battle-stats.ts:40`): it implements lifesteal, thorns and the
  first strike (`team-battle.ts:97-163`).
- Deleting a withdrawal writes the later ones without the blank rows a person may have left between them,
  and blanks one row: the last ones then stay and are doubled (`paojiao-ledger.service.ts:489-511`). The
  ledger's sheets have such blanks, and `BooksAreKept` allows exactly this (`DeletesOverGap`).
- `request` counts friends and waiting requests, `respond` only the friends of the player who answers
  (`friend.service.ts:239`, where `:53` counts "Friends the player has, plus requests they have sent that
  are still waiting", and `social.int-spec.ts:164` has the service stop "at the friend and pending-request
  limits"). Ask one player, accept another into the last place, be accepted by the first: one friend above
  `FRIEND_LIMIT`, with no two requests at once.
- "Streaks longer than a month don't change the reward, so a 30-day look-back is enough"
  (`quest.service.ts:69`). It is not: the reward is the streak's place in a cycle of seven, and the streak is
  never seen to be longer than 30 (`:145`), so from the 32nd day on it stays at one place.
- "The first pick is free; changing it costs a gem" (`passive.service.ts:280`). Saving a draft without the
  pick is free, and so is the next pick (`passive-data.ts:695`).
- Two different backup codes that are used at once each save the list they had read with their own code
  marked (`auth.service.ts:142-147`), so the mark of one is lost and its code works again once its claim has
  ended after a minute. `CodeRedeemedOnce` is about the life of a claim.
- "Rows of finished seasons stop changing" (`pvp-rating.entity.ts:7`), but a fight that began before the
  season's end commits after it, and a claim between the two was paid for a rank that changes.
- A challenge inserts the two rating rows in its own order, so two players who challenge each other before
  either has joined the season can deadlock; `CirclesOnlyWhileJoining` says that this is the only way,
  except for two requests of one player.

## What is not modelled

`PROJECT.json` lists every component with its state of modelling and what is left out of it. Left out
altogether:

- Bills, attachments, deck and health: single-row storage, file upload, constants.
- The application's wiring, entities and migrations. Unique indexes appear where a service relies on
  them. HTTP, validation and presentation.
- The offline balance scripts of the arena, and the training dummy's report: they read only.
- Wearing and showing costumes, and the administration of users: one column of one row each.

Left out of modelled components: floating-point arithmetic of both battle engines and of what a passive
is worth (TLC has integers), the places of the arena's field, ally skills, summons and targets of team
fights, drops, sub-stats and sets, titles, notes and cell formats, cookies and cryptography.

## Plan

Every component whose order of events matters is modelled, and every property of requests that meet is
stated by a theorem but for liveness. What is left is to prove more about what single requests compute:

1. The arena's fights (`HpIsAccounted`, `ControlWearsOff`), as far as their folds allow.
2. The types of the components that have no theorem yet (`TypesOK`).
