SPECIFICATION Spec
CONSTANTS
  a = a
  b = b
  u = u
  v = v
  general = general
  NoId = NoId
  Channels <- OneChannel
  Ids <- OneId
  Home <- OneHome
  Replies <- OneId
  Callers = {u, v}
  MaxOrdinal = 1
  MaxEpoch = 1
  MaxFaults = 2
  MaxTrouble = 3
INVARIANT AlreadySentIsStored
PROPERTY RefusedStoredNothing
CHECK_DEADLOCK FALSE
