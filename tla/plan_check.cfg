SPECIFICATION CheckSpec
CONSTANTS
  x = x
  y = y
  z = z
  none = none
  l1 = l1
  l2 = l2
  l3 = l3
  l4 = l4
  l5 = l5
  b1 = b1
  b2 = b2
  b3 = b3
  b4 = b4
  Loadcells = {l1, l2, l3, l4, l5}
  BinOf <- CabinetBins
  ItemOf <- CabinetItems
  NoItem = none
  Listed <- CabinetListed
  Expired = {l4}
  Critical <- LowCells
  Levels <- BinLevels
  Calibrated <- Capacities
  Stocks <- SmallStocks
  Histories <- SmallHistories
  FailedSets = {{}, {b2}}
  Requests <- SmallRequests
  Quantities = {0, 1, 2}

CHECK_DEADLOCK FALSE
INVARIANTS
  PlanTypeOK
  PlanSound
  NothingElseTouched
  HonestUserPasses
  ListsAgree
