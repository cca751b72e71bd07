SPECIFICATION MediaSpec
CONSTANTS
  x = x
  y = y
  Streams = {x, y}
  Budgets <- Separately
INVARIANT MediaInv
CHECK_DEADLOCK FALSE
PROPERTY SubscribesConverge
PROPERTY CommandsLand
