CONSTANTS
  Thread = {t1, t2}
  NoThread = noThread
  NBlocks = 3
  Value = {v1, v2}
  Missing = missing
  Budgets <- CancelsBudgets
SPECIFICATION FairSpec
PROPERTY CloseCancels
CHECK_DEADLOCK FALSE
