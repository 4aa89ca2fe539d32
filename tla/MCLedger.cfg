CONSTANTS
  r1 = r1
  r2 = r2
  pum = pum
  panya = panya
  TABLE_START_ROW = 5
  LAST_ROW = 9
  OIL_SALE_ITEM = "oil"
  NoItem = ""
  PROTECTED_ITEM_NAMES <- MCProtected
  LedgerPerson <- MCPersons
  Requests <- MCRequests
  Plans <- MCPlans
  OpeningSheets <- MCSheets
  OpeningItems <- MCItems
SPECIFICATION Spec
PROPERTIES EditsAreSafe
CHECK_DEADLOCK FALSE
