SPECIFICATION FairSpec
CONSTANTS
  Files = {a, b}
  Chunks = 2
  SyncEvery = 1
  Cap = 1
  MaxTries = 3
  Budgets <- Beyond
INVARIANT CompleteOpens
INVARIANT CountsAnyway
PROPERTY PinnedGetsCachedAnyway
PROPERTY NothingOutlivesAnyway
CHECK_DEADLOCK FALSE
