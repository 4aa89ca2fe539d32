CONSTANTS
  r1 = r1
  r2 = r2
  r3 = r3
  r4 = r4
  ann = ann
  bob = bob
  NoPet = NoPet
  NoRequest = NoRequest
  Requests <- MCRequests
  Plans <- EveryPlan
  Pieces <- MCPieces
  Slot <- MCSlot
  Original <- MCOriginal
  Pets <- MCPets
  CanWear <- MCCanWear
  Coins = 8
  Materials <- MCMaterials
  Items <- MCItems
  Needs <- MCNeeds
  RefineTiers <- MCRefineTiers
  OnFail <- MCOnFail
  Rate <- MCRate
  MAX_ENHANCE_LEVEL = 3
  PITY_PER_FAIL = 20
  PITY_MAX = 20
  DISMANTLE_STONES = 1
  DISMANTLE_STONE_LEVEL_STEP = 2
  EQUIPMENT_CAPACITY = 4
  EQUIPMENT_BOX_PRICE = 2
  SHOP_PRICE = 1
  REFINE_COIN = 1
  ENHANCE_COIN = 1
  COSTUME_PRICE = 2
  EXPEDITION_COIN = 1
  REWARD_COIN = 1
  CRAFT_COIN = 2
  CRAFT_MINUTES = 2
  CRAFT_PITY_AFTER_FAILS = 1
  CRAFT_SKIP_COIN_MULTIPLIER = 2
  InitialJobs <- MCJobs
  MAX_CLOCK = 2
  f12 = f12
  f13 = f13
  f23 = f23
  n1 = n1
  n2 = n2
  n3 = n3
  NoUser = NoUser
  NoRelation = NoRelation
  win = win
  weekly = weekly
  feed = feed
  login = login
  npc = npc
  Never = Never
  Idle = Idle
  Users <- MCUsers
  Relations <- MCRelations
  FriendPlans <- MCFriendPlans
  Founded <- Founding
  FriendItems <- OneItem
  FRIEND_LIMIT = 2
  FRIEND_REQUEST_LIMIT = 1
  GREETS_PER_DAY_PER_FRIEND = 1
  GIFTS_PER_DAY = 1
  FRIEND_POINTS_GREET = 1
  FRIEND_POINTS_GIFT = 2
  FRIEND_POINTS_RENTAL = 3
  MAX_DAY = 2
  Weekly <- MCWeekly
  Target <- MCTarget
  LOGIN = login
  LOOK_BACK = 2
  DAYS_PER_WEEK = 7
  QuestPlans <- MCQuestPlans
  OpeningRows <- MCRows
  FIRST_DAY = 6
  LAST_DAY = 7
  StagePlans <- MCStagePlans
  STAGES = 3
  DIFFICULTIES = 2
  EXCHANGE_COST <- MCExchangeCost
  RAID_BOSS_TOKENS_PER_WIN = 1
  STAMINA_COST = 1
  OpeningClears <- MCOpeningClears
  OpeningRaids <- MCOpeningRaids
  OpeningTokens = 2
  OpeningPieces = 0
  OpeningStamina = 3
  Players <- MCPlayers
  Npcs <- MCNpcs
  PvpPlans <- MCPvpPlans
  OpeningRatings <- MCRatings
  OpeningDefended <- MCDefended
  DAY = 1
  SEASON = 1
  PVP_CLOCK = 1
  PVP_DAILY_ATTEMPTS = 2
  PVP_MAX_FIGHTS_PER_OPPONENT_PER_DAY = 1
  PVP_RATING_WINDOW = 600
  PVP_DEFENSE_COOLDOWN = 1
  PVP_SEASON_MIN_FIGHTS = 2
  SeasonTiers <- MCTiers
  PASSIVE_BRANCH_REFUND_CAP = 2
  TreePlans <- MCTreePlans
  OpeningTrees <- MCTrees
  OpeningProgress <- MCProgress
  OpeningGems = 25
  Duels <- MCDuels
  TICK = 2
  ARENA_MAX_TICKS = 7
  BASIC_CD = 4
  BASIC_WIND = 3
  SKILL_DELAY_TICKS = 2
  DASH_TICKS = 1
  HITSTUN = 1
  FLINCH_EVERY = 2
  CHARGE_TICKS = 2
  SHOT_LIFE = 2
  CC_WINDOW = 6
  LAST_STAND_BELOW = 50
  NoFighter = 0
  Battles <- MCBattles
  MAX_ROUNDS = 4
  SKILL_EVERY_ROUNDS = 2
  MyLines <- MCLines
  Partners <- MCPartners
  Others <- MCOthers
  Picks <- MCPicks
  DodgePicks <- MCDodgePicks
  MAX_PETS = 2
SPECIFICATION Game
INVARIANTS TypesOK EveryCraftAddsUp FriendsHaveAgreed GiftsAddUp RewardsAreEarned StagesAddUp RatingsFollowTheFights CirclesOnlyWhileJoining TreeStaysConnected RefundsArePaid HpIsAccounted ControlWearsOff RoundsAddUp LoadoutsAreLegal
PROPERTIES PartedForGood PiecesAddUp
CHECK_DEADLOCK FALSE
