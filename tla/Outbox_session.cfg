SPECIFICATION FairSpec
CONSTANTS
  a = a
  b = b
  u = u
  v = v
  general = general
  NoId = NoId
  Channels <- OneChannel
  Ids <- TwoIds
  Home <- TwoHome
  Replies <- SecondReplies
  Callers = {u}
  MaxOrdinal = 2
  MaxEpoch = 2
  MaxFaults = 1
  MaxTrouble = 2
INVARIANT OwnSessionOnly
PROPERTY QueuedGetsSent
PROPERTY DeleteAnswers
CHECK_DEADLOCK FALSE
