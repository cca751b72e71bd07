SPECIFICATION Spec
CONSTANTS
  Closed = Closed
  A = A
  B = B
  Channels = {A, B}
  Home <- Homes
  Posted <- Old
  Reacted = 3
  Page = 2
  Window = 2
  MaxTasks = 3
  MaxEvents = 2
  Budgets <- Beyond
  Texts = {"hi", "yo"}
  ErrorShown = 2
  Lifetime = 2
  AfterMessage = 1
INVARIANT RowsUpToDate
INVARIANT TalliesInSync
INVARIANT TriedAgainIsOne
INVARIANT KeptIdIsOne
INVARIANT TypedTwiceIsTwo
INVARIANT FilesStayHome
INVARIANT OffersAsk
INVARIANT RenamesWhatItShows
INVARIANT ListRedrawn
INVARIANT OpenIsOurs
CHECK_DEADLOCK FALSE
