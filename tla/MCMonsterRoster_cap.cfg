CONSTANTS
  m1 = m1
  m2 = m2
  e1 = e1
  e2 = e2
  r1 = r1
  r2 = r2
  r3 = r3
  NoRequest = NoRequest
  Monsters <- MCMonsters
  Starters <- MCStarters
  Requests <- TwoRequests
  Ops <- HatchOnly
  MAX_LIVING_MONSTERS = 3
  FIGHT_LIMIT = 1
SPECIFICATION Spec
INVARIANT LivingWithinCap
CHECK_DEADLOCK FALSE
