CONSTANTS
  NBlocks = 9
  MaxSaved = 1
  Zero = v0
  Old = v1
  Value = {v0, v1}
  Free = free
  Fresh = fresh
  NoBuffer = noBuffer
  MaxPins = 1
  Starts <- FailureStarts
SPECIFICATION Spec
INVARIANTS
  TypeOK
  ReadsOwnWrites
  CommitIsDurable
  CancelRestores
  CrashIsAtomic
  Recoverable
  SpaceIsDisjoint
  JournalFirst
  HeaderFirst
  BackupIsComplete
