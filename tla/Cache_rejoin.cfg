SPECIFICATION Spec
CONSTANTS
  task1 = task1
  task2 = task2
  task3 = task3
  Callers = {task1, task2, task3}
  MaxSeq = 5
  SyncLimit = 1
  Limit = 1
  Budgets <- Rejoin
INVARIANT CurrentAnyway
CHECK_DEADLOCK FALSE
