CONSTANTS
  never = never
  Never = never
  Species <- MCSpecies
  Stage <- MCStage
  Evolutions <- MCEvolutions
  Egg = "egg"
  STAGE_DURATION_MINUTES <- MCDurations
  LIFESPAN_MINUTES <- MCLifespans
  FullnessLoss <- MCFullnessLoss
  StrengthLoss <- MCStrengthLoss
  Drains <- TwoDrains
  Heart = 4
  MAX_HEARTS = 2
  HATCH_FULLNESS = 4
  HATCH_STRENGTH = 4
  MAX_POOPS = 2
  MAX_STAMINA = 4
  STAMINA_REGEN = 1
  ADVENTURE_STAMINA_COST = 2
  ADVENTURE_SKIP_MAX_RUNS = 2
  MinigameRewards <- Rewards
  NEGLECT_FIRST_MISTAKE_MINUTES = 1
  NEGLECT_REPEAT_MISTAKE_MINUTES = 2
  SICK_AFTER_HUNGRY_MINUTES = 2
  DEATH_AFTER_SICK_MINUTES = 3
  DEATH_AFTER_HUNGRY_MINUTES = 5
  EXPEDITION_MAX_MINUTES = 3
  Minute = 2
  ONLINE_GRACE = 3
  TRAIN_COOLDOWN = 2
  MINIGAME_COOLDOWN = 3
  Ops <- CareOps
  MAX_TICK_MINUTES = 13
  MAX_LAG = 1
  MAX_REQUESTS = 3
  MAX_CLOCK = 24
SPECIFICATION KeepingSpec
INVARIANTS ExplorersAreWell DeathsAreExplained CapNeverBites
PROPERTY LifeMovesOn
CHECK_DEADLOCK FALSE
