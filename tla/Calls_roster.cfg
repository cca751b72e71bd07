SPECIFICATION Spec
CONSTANTS
  d = d
  e = e
  d1 = d1
  d2 = d2
  e1 = e1
  Nobody = Nobody
  Devices = {d, e}
  Sockets = {d1, d2}
  DeviceOf <- TwoOfOne
  Revocations <- DLeaves
  MaxInCall = 2
  MaxCalls = 2
  MaxParts = 2
  MaxLosses = 1
INVARIANT RosterInv
PROPERTY ResumedStays
PROPERTY DetachedEnds
CHECK_DEADLOCK FALSE
