CONSTANTS
  coin = coin
  gem = gem
  rentAB = rentAB
  rentBA = rentBA
  rentBack = rentBack
  merge = merge
  NoRequest = NoRequest
  Users <- MCUsers
  Currencies <- MCCurrencies
  Requests <- MCRequests
  Plan <- MCPlan
  Opening <- MCOpening
  r1 = r1
  r2 = r2
  r3 = r3
  r4 = r4
  r5 = r5
  here = here
  there = there
  NoValue = NoValue
  NoSecret = NoSecret
  NoSession = NoSession
  ann = ann
  bob = bob
  NoBallot = NoBallot
  NoPoll = NoPoll
  pum = "pum"
  panya = "panya"
  Idle = Idle
  KvKeys <- MCKeys
  KvValues <- MCValues
  KvLifetimes <- MCLifetimes
  KvPrefixes <- MCPrefixes
  KV_CLOCK = 2
  KV_MAX_VALUE = 2
  LoginRequests <- Four
  LoginPlans <- MCLoginPlans
  Codes <- MCCodes
  RENEW <- MCRenew
  PASSWORD_LIMIT = 2
  PASSWORD_TTL = 2
  VERIFY_LIMIT = 2
  VERIFY_TTL = 1
  CLAIM_TTL = 1
  DEVICE_TTL = 3
  ACCESS_TTL = 1
  REFRESH_TTL = 2
  LOGIN_CLOCK = 2
  OpeningUser <- MCOpeningUser
  OpeningStore <- MCOpeningStore
  VotingRequests <- Five
  VotingPlans <- MCVotingPlans
  Voters <- MCVoters
  VOTING_CLOCK = 1
  LedgerRequests <- Three
  LedgerPlans <- MCLedgerPlans
  TABLE_START_ROW = 5
  LAST_ROW = 11
  OIL_SALE_ITEM = "oil"
  NoItem = ""
  PROTECTED_ITEM_NAMES <- MCProtected
  LedgerPerson <- MCPersons
  OpeningSheets <- MCSheets
  OpeningItems <- MCItems
  RentRequests <- Three
  RentPlans <- MCRentPlans
  New = New
  Nobody = Nobody
  OpeningHouses <- MCHouses
  OpeningRents <- MCRents
  OpeningMembers <- MCMembers
  OpeningFiles <- MCFiles
SPECIFICATION Accounts
INVARIANTS TypesOK LedgerExplainsBalance NoCircularWait CodeRedeemedOnce AnsweredSessionsWork EveryBallotCounts
PROPERTIES BehavesAsBank ImplementsLiveStore BooksAreKept
CHECK_DEADLOCK FALSE
