CONSTANTS
  rentAB = rentAB
  rentBA = rentBA
  rentCB = rentCB
  attackA = attackA
  claimA = claimA
  againA = againA
  NoRequest = NoRequest
  NoUser = NoUser
  Users <- MCUsers
  Requests <- MCRequests
  Plan <- MCPlan
  Crowds <- RaidAndFriends
  Discoverers <- Rentals
  Dealt <- Hits
  MaxHp = 3
  WORLD_BOSS_HITS = 1
  RENTAL_FEE = 2
  RENTAL_OWNER_DAILY_CAP = 3
SPECIFICATION FairCrowds
INVARIANTS EveryHitCounts EarningsWithinCap ClaimsAreFinal
PROPERTIES FriendsAreAnswered
CHECK_DEADLOCK FALSE
