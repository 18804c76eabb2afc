CONSTANTS
  NBlocks = 12
  MaxSaved = 1
  Zero = v0
  Old = v1
  Value = {v0, v1}
  Free = free
  Fresh = fresh
  NoBuffer = noBuffer
  MaxPins = 1
  Starts <- RecoveryStarts
SPECIFICATION FairSpec
INVARIANTS
  CrashIsAtomic
  Recoverable
PROPERTIES
  RecoveryCompletes
  ImplementsAtomicStore
