CONSTANTS
  Thread = {t1, t2}
  NoThread = noThread
  NBlocks = 3
  Value = {v1, v2}
  Missing = missing
  Budgets <- EndsBudgets
SPECIFICATION FairSpec
INVARIANT SnapshotExact
PROPERTY BackupEnds
CHECK_DEADLOCK FALSE
