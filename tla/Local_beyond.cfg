SPECIFICATION Spec
CONSTANTS
  Nobody = Nobody
  Users = {u, v}
  MaxId = 3
  Budgets <- Beyond
INVARIANT ForgottenIsGoneAnyway
INVARIANT LossIsSaidAnyway
CHECK_DEADLOCK FALSE
