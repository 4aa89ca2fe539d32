CONSTANTS
  r1 = r1
  r2 = r2
  r3 = r3
  r4 = r4
  ann = ann
  bob = bob
  NoPet = NoPet
  NoRequest = NoRequest
  Requests <- MCRequests
  Plans <- Meeting
  Pieces <- MCPieces
  Slot <- MCSlot
  Original <- MCOriginal
  Pets <- MCPets
  CanWear <- MCCanWear
  Coins = 8
  Materials <- MCMaterials
  Items <- MCItems
  Needs <- MCNeeds
  RefineTiers <- MCRefineTiers
  OnFail <- MCOnFail
  Rate <- MCRate
  MAX_ENHANCE_LEVEL = 3
  PITY_PER_FAIL = 20
  PITY_MAX = 20
  DISMANTLE_STONES = 1
  DISMANTLE_STONE_LEVEL_STEP = 2
  EQUIPMENT_CAPACITY = 3
  EQUIPMENT_BOX_PRICE = 2
  SHOP_PRICE = 1
  REFINE_COIN = 1
  ENHANCE_COIN = 1
  COSTUME_PRICE = 2
  EXPEDITION_COIN = 1
  REWARD_COIN = 1
  CRAFT_COIN = 2
  CRAFT_MINUTES = 2
  CRAFT_PITY_AFTER_FAILS = 1
  CRAFT_SKIP_COIN_MULTIPLIER = 2
  InitialJobs <- MCJobs
  MAX_CLOCK = 2
SPECIFICATION Spec
INVARIANTS BagWithinCapacity
CHECK_DEADLOCK FALSE
