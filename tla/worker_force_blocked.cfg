SPECIFICATION FairSpec
CONSTANTS
  t1 = t1
  t2 = t2
  b1 = b1
  b2 = b2
  b3 = b3
  h1 = h1
  h2 = h2
  none = none
  Txs = {t1}
  Bins = {b1, b2}
  Plan <- PlanOfTwo
  MaxStep = 2
  Tracked <- SecondTracked
  Handlers = {h1, h2}
  MaxAttempts = 2
  NoTx = none
  Unruly = {t1}
  MaxCopies = 1
  MaxResults = 2
  MaxAnswers = 1
  MaxLost = 0
  MaxCrashes = 0

CHECK_DEADLOCK FALSE
PROPERTIES
  ForceUnblocks

