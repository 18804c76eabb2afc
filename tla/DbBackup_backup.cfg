CONSTANTS
  Thread = {t1, t2, t3}
  NoThread = noThread
  NBlocks = 4
  Value = {v1, v2}
  Missing = missing
  Budgets <- BackupBudgets
SPECIFICATION Spec
INVARIANTS
  TypeOK
  SnapshotExact
  HeaderHeld
  BackupAlive
  TransactionAlone
SYMMETRY Symmetry
CHECK_DEADLOCK FALSE
