SPECIFICATION MediaSpec
CONSTANTS
  x = x
  y = y
  Streams = {x, y}
  Budgets <- FeedAndRefusal
INVARIANT PendingFits
CHECK_DEADLOCK FALSE
