SPECIFICATION FairSpec
CONSTANTS
  MaxFiles = 2
  Copies = 2
  MaxUploads = 1
  Budgets <- Some
INVARIANT AttachInv
INVARIANT SentWhole
PROPERTY LeftoversGo
PROPERTY QueuedEnds
CHECK_DEADLOCK FALSE
