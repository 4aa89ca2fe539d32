-------------------------------- MODULE Play --------------------------------
(***************************************************************************)
(* The parts of the game that players share: Equipment, FriendGraph, Quest, *)
(* Stages and Pvp, one of them per behaviour.  `live` says which; they      *)
(* share the variables that have the same name, and those of the others     *)
(* are idle.  Game adds the parts of one player alone.                      *)
(***************************************************************************)
EXTENDS Equipment

CONSTANTS
    Users, Relations, FriendPlans, Founded, FriendItems,       \* FriendGraph
    FRIEND_LIMIT, FRIEND_REQUEST_LIMIT, GREETS_PER_DAY_PER_FRIEND, GIFTS_PER_DAY,
    FRIEND_POINTS_GREET, FRIEND_POINTS_GIFT, FRIEND_POINTS_RENTAL, MAX_DAY, NoUser, NoRelation,
    Weekly, Target, LOGIN, LOOK_BACK, DAYS_PER_WEEK,    \* Quest
    QuestPlans, OpeningRows, FIRST_DAY, LAST_DAY,
    StagePlans, STAGES, DIFFICULTIES, EXCHANGE_COST,           \* Stages
    RAID_BOSS_TOKENS_PER_WIN, STAMINA_COST,
    OpeningClears, OpeningRaids, OpeningTokens, OpeningPieces, OpeningStamina,
    Players, Npcs, PvpPlans, OpeningRatings, OpeningDefended,  \* Pvp
    DAY, SEASON, PVP_CLOCK, PVP_DAILY_ATTEMPTS, PVP_MAX_FIGHTS_PER_OPPONENT_PER_DAY,
    PVP_RATING_WINDOW, PVP_DEFENSE_COOLDOWN, PVP_SEASON_MIN_FIGHTS, SeasonTiers, Never,
    Idle

VARIABLES
    live,
    pc, step, seen, began, fresh, day, paid,
    attempt, target, rel,
    asked, saved, run, rows,
    won, granted, monsters, tokenRow, stamina, clears, raids, tokens, pieces,
    rank, ratings, battles, defended

(* The variables that one component has for itself *)
ofGoods == <<pos, tier, inserted, piece, away, coin, owned, job, pity, claims>>
ofFriends == <<attempt, target, rel>>
ofQuests == <<asked, saved, run, rows>>
ofStages == <<won, granted, monsters, tokenRow, stamina, clears, raids, tokens, pieces>>
ofPvp == <<rank, ratings, battles, defended>>
ofRequests == <<plan, pc, holder, step, seen, now, began, fresh, day, paid, bag, log, clock>>
playVars == <<live, ofRequests, ofGoods, ofFriends, ofQuests, ofStages, ofPvp>>

---------------------------------------------------------------------------

Friends == INSTANCE FriendGraph WITH Plans <- FriendPlans, Items <- FriendItems
Quests == INSTANCE Quest WITH Plans <- QuestPlans
Adventure == INSTANCE Stages WITH Plans <- StagePlans
Ladder == INSTANCE Pvp WITH Users <- Players, Plans <- PvpPlans, MAX_CLOCK <- PVP_CLOCK

ASSUME GoodsParameters == GoodsAssumption
ASSUME FriendParameters == Friends!FriendAssumption
ASSUME QuestParameters == Quests!QuestAssumption
ASSUME StagesParameters == Adventure!StagesAssumption
ASSUME PvpParameters == Ladder!PvpAssumption

---------------------------------------------------------------------------

NoGoods == pos = Idle /\ tier = Idle /\ inserted = Idle /\ piece = Idle /\ away = Idle /\ coin = Idle
           /\ owned = Idle /\ job = Idle /\ pity = Idle /\ claims = Idle
NoFriends == attempt = Idle /\ target = Idle /\ rel = Idle
NoQuests == asked = Idle /\ saved = Idle /\ run = Idle /\ rows = Idle
NoStages == won = Idle /\ granted = Idle /\ monsters = Idle /\ tokenRow = Idle /\ stamina = Idle
            /\ clears = Idle /\ raids = Idle /\ tokens = Idle /\ pieces = Idle
NoPvp == rank = Idle /\ ratings = Idle /\ battles = Idle /\ defended = Idle

PlayInit ==
    \/ /\ live = "goods" /\ Init
       /\ pc = Idle /\ step = Idle /\ seen = Idle /\ began = Idle /\ fresh = Idle /\ day = Idle /\ paid = Idle
       /\ NoFriends /\ NoQuests /\ NoStages /\ NoPvp
    \/ /\ live = "friends" /\ Friends!Init
       /\ step = Idle /\ fresh = Idle /\ paid = Idle /\ clock = Idle
       /\ NoGoods /\ NoQuests /\ NoStages /\ NoPvp
    \/ /\ live = "quests" /\ Quests!Init
       /\ seen = Idle /\ now = Idle /\ began = Idle /\ paid = Idle /\ bag = Idle /\ log = Idle
       /\ clock = Idle
       /\ NoGoods /\ NoFriends /\ NoStages /\ NoPvp
    \/ /\ live = "stages" /\ Adventure!Init
       /\ holder = Idle /\ step = Idle /\ now = Idle /\ began = Idle /\ fresh = Idle /\ day = Idle
       /\ paid = Idle /\ bag = Idle /\ log = Idle /\ clock = Idle
       /\ NoGoods /\ NoFriends /\ NoQuests /\ NoPvp
    \/ /\ live = "pvp" /\ Ladder!Init
       /\ day = Idle /\ bag = Idle /\ log = Idle
       /\ NoGoods /\ NoFriends /\ NoQuests /\ NoStages

PlayGoods ==
    /\ live = "goods" /\ Next
    /\ UNCHANGED <<live, pc, step, seen, began, fresh, day, paid,
                   ofFriends, ofQuests, ofStages, ofPvp>>
PlayFriends ==
    /\ live = "friends" /\ Friends!Next
    /\ UNCHANGED <<live, step, fresh, paid, clock, ofGoods, ofQuests, ofStages, ofPvp>>
PlayQuests ==
    /\ live = "quests" /\ Quests!Next
    /\ UNCHANGED <<live, seen, now, began, paid, bag, log, clock,
                   ofGoods, ofFriends, ofStages, ofPvp>>
PlayStages ==
    /\ live = "stages" /\ Adventure!Next
    /\ UNCHANGED <<live, holder, step, now, began, fresh, day, paid, bag, log, clock,
                   ofGoods, ofFriends, ofQuests, ofPvp>>
PlayPvp ==
    /\ live = "pvp" /\ Ladder!Next
    /\ UNCHANGED <<live, day, bag, log, ofGoods, ofFriends, ofQuests, ofStages>>
PlayNext == PlayGoods \/ PlayFriends \/ PlayQuests \/ PlayStages \/ PlayPvp

Play == PlayInit /\ [][PlayNext]_playVars

---------------------------------------------------------------------------
(* The state of the component is of its type. *)
PlayTypesOK ==
    /\ live = "goods" => TypeOK
    /\ live = "friends" => Friends!TypeOK
    /\ live = "quests" => Quests!TypeOK
    /\ live = "stages" => Adventure!TypeOK
    /\ live = "pvp" => Ladder!TypeOK

(* Whatever runs at once on the pieces of equipment, each ends once, pays   *)
(* once and is worn by nobody afterwards (equipment.service.ts              *)
(* dismantleMany, enhance.service.ts).  Whatever brings pieces at once,     *)
(* only requests that count the bag under different locks overfill it       *)
(* (equipment.service.ts:120).  No request puts another piece on a pet that *)
(* is away, or takes one off it (equipment.service.ts:206).                 *)
PiecesAddUp ==
    /\ [](live = "goods" => PieceEndsOnce /\ OverfullByMeetingOnly)
    /\ [][live = "goods" => StaysGeared]_playVars

(* Every craft paid for is in the queue or gave one piece, and the pity     *)
(* counter counts the failures since the last upgrade                       *)
(* (craft.service.ts:163-171).                                              *)
EveryCraftAddsUp == live = "goods" => CraftsAddUp

(* Two strangers who ask each other at once end up friends, and nobody is   *)
(* made a friend without having asked or answered                           *)
(* (friend.service.ts:184-207, 236-243).                                    *)
FriendsHaveAgreed == live = "friends" => Friends!CrossingRequestsMeet /\ Friends!BothAgreed

(* A greeting a day per friend and the gifts of a day, also around          *)
(* midnight; gifts create nothing, and a friendship's points are those of   *)
(* what was done in it (friend.service.ts:295-341).                         *)
GiftsAddUp ==
    live = "friends" => Friends!WithinDailyLimits /\ Friends!NoItemFromNothing /\ Friends!PointsAddUp

(* A friendship that was ended or declined does not come back by a request  *)
(* that saw it before (friend.service.ts:188).                              *)
PartedForGood == [][live = "friends" => Friends!StaysParted]_playVars

(* A quest is paid once, for work that was done in its period, whatever     *)
(* runs at once and whenever midnight strikes (quest.service.ts:26-27, 97); *)
(* a login reward is paid once a day, and one for a streak of n days only   *)
(* after n days without a gap (quest.service.ts:149).                       *)
RewardsAreEarned == live = "quests" => Quests!PaidOnceForWork /\ Quests!StreaksAreReal

(* Wins, first clears, stamina and boss tokens add up, nothing is cleared   *)
(* before what comes before it, and pieces are bought of cleared            *)
(* difficulties (adventure.service.ts:106, raid.service.ts exchange).       *)
StagesAddUp == live = "stages" => Adventure!ClearsAddUp /\ Adventure!TokensAddUp

(* A ladder row is what its fights made of it, however many challenges ran  *)
(* at once (pvp-queries.ts:60), and these are not more than a day's limit   *)
(* (pvp.service.ts:195-196).                                                *)
RatingsFollowTheFights == live = "pvp" => Ladder!RatingsFollowTheFights /\ Ladder!FightsWithinLimits

(* Challenges wait for each other in a circle only while somebody joins the *)
(* season, or when they are of one player (pvp-queries.ts:60-62); requests  *)
(* on quests only when a tick discovers a species (monster.service.ts:472), *)
(* and friends only when they give in a ring (friend.service.ts:341).       *)
CirclesOnlyWhileJoining ==
    /\ live = "pvp" => Ladder!CirclesOnlyWhileJoining
    /\ live = "friends" => Friends!CirclesOnlyInRings
    /\ live = "quests" => Quests!CirclesOnlyWhenDiscovering
=============================================================================
