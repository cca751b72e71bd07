SPECIFICATION Spec
CONSTANTS
  a = a
  b = b
  u = u
  v = v
  general = general
  NoId = NoId
  Channels <- OneChannel
  Ids <- TwoIds
  Home <- TwoHome
  Replies <- SecondReplies
  Callers = {u}
  MaxOrdinal = 3
  MaxEpoch = 1
  MaxFaults = 1
  MaxTrouble = 2
INVARIANT NothingLost
INVARIANT AtMostOnce
PROPERTY KeepsPromise
CHECK_DEADLOCK FALSE
