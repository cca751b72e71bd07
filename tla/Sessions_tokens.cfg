SPECIFICATION Spec
CONSTANTS
  MaxClients = 3
  Budgets <- Some
INVARIANT ServerInv
INVARIANT EndedNotStored
INVARIANT OwnersLoginStays
INVARIANT Refreshable
CHECK_DEADLOCK FALSE
