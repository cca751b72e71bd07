SPECIFICATION Spec
CONSTANTS
  MaxClients = 2
  Budgets <- Beyond
INVARIANT OwnersLoginStaysUnwritten
INVARIANT OwnersLoginStaysAnyway
INVARIANT FactorHoldsAnyway
INVARIANT QuitKeepsLogin
CHECK_DEADLOCK FALSE
