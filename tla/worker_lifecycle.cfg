SPECIFICATION Spec
CONSTANTS
  t1 = t1
  t2 = t2
  b1 = b1
  b2 = b2
  b3 = b3
  h1 = h1
  h2 = h2
  none = none
  Txs = {t1, t2}
  Bins = {b1, b2}
  Plan <- PlansShared
  MaxStep = 2
  Tracked <- SharedTracked
  Handlers = {h1, h2}
  MaxAttempts = 2
  NoTx = none
  Unruly = {}
  MaxCopies = 1
  MaxResults = 2
  MaxAnswers = 1
  MaxLost = 1
  MaxCrashes = 1
SYMMETRY Symmetry
CHECK_DEADLOCK FALSE
INVARIANTS
  OneDriver
  SettledOnce
  PopupAboutCurrentStep
  
PROPERTIES
  Refinement

