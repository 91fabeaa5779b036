\* Two weighings at a time, none of them across a change of the lock or a
\* commit of the transaction.
SPECIFICATION FairSpec
CONSTANTS
  h1 = h1
  h2 = h2
  Weights <- ScaleWeights
  Slots = {h1, h2}
  Apart = TRUE
  MaxOpens = 2
INVARIANT BooksMatchScale
PROPERTY PendingCommitted
CHECK_DEADLOCK FALSE
