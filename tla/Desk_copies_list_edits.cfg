SPECIFICATION DeskSpec
CONSTANTS
  Parts = {"copies", "list", "edits"}
  l1 = l1
  found = found
  lost = lost
  Line = {l1}
  Units <- UnitsV
  Adjustment = {found, lost}
  Change <- ChangeV
  Opening = 2
  MaxFaults = 1
  MaxRebuilds = 1
  Entry = {1, 2}
  Clerk = {1, 2}
  ExpiryRun = {1, 2}
  Aging = {1}
  OnList = 1
  MaxOnList = 2
  MaxArriving = 1
  MaxListCalls = 2
  MaxUnderWay = 2
  k1 = k1
  k2 = k2
  Sku = {k1, k2}
  Lines = {1, 2, 3}
  OnShelf <- OnShelfV
  Wanted <- WantedV
  MaxUnits = 3
  MaxEdits = 3
  MayOverrideLock = TRUE
CHECK_DEADLOCK FALSE
INVARIANTS
  DeskTypeOK
  BalanceIsLedger
  CopyKeepsCounters
  PromisedOnce
  RemindedOnce
  EditsKeepStock
  OwedIsShortfall
