\* The weighings go on while the transaction commits.
SPECIFICATION Spec
CONSTANTS
  h1 = h1
  h2 = h2
  Weights <- ScaleWeights
  Slots = {h1, h2}
  Apart = FALSE
  MaxOpens = 1
PROPERTY BackUpCommitsPending
CHECK_DEADLOCK FALSE
