SPECIFICATION Spec
CONSTANTS
  Closed = Closed
  A = A
  B = B
  Channels = {A, B}
  Home <- Homes
  Posted <- Old
  Reacted = 3
  Page = 2
  Window = 2
  MaxTasks = 3
  MaxEvents = 2
  Budgets <- Some
  Texts = {"hi"}
  ErrorShown = 2
  Lifetime = 2
  AfterMessage = 1
INVARIANT ScreenInv
INVARIANT ScreenSettled
INVARIANT ChipsConverge
INVARIANT NoTwin
PROPERTY ViewSettles
CHECK_DEADLOCK FALSE
