SPECIFICATION Spec
CONSTANTS
  Nobody = Nobody
  Users = {u, v}
  MaxId = 3
  Budgets <- Some
INVARIANT LocalInv
INVARIANT ForgottenIsGone
INVARIANT LossIsSaid
PROPERTY ReconcileFinishes
CHECK_DEADLOCK FALSE
