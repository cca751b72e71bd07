SPECIFICATION FairSyncSpec
CONSTANTS
  t = t
  u = u
  channel = channel
  message = message
  profile = profile
  Txs = {t, u}
  Rows = {channel, message}
  StateRows = {channel}
  Own = {}
  Limit = 1
  MaxLost = 1
  MaxSeq = 3
  MaxSavepoints = 1
INVARIANT NothingMissed
PROPERTY ImplementsLog
PROPERTY CatchesUp
