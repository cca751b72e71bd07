SPECIFICATION FairSpec
CONSTANTS
  Files = {a, b}
  Chunks = 2
  SyncEvery = 1
  Cap = 1
  MaxTries = 3
  Budgets <- Some
INVARIANT FileInv
PROPERTY NothingOutlives
PROPERTY PinnedGetsCached
PROPERTY CallersAnswered
CHECK_DEADLOCK FALSE
