CONSTANTS
  NBlocks = 9
  Half = 1
  MaxSaved = 2
  MaxAlign = 2
  MaxChunks = 2
SPECIFICATION Spec
INVARIANTS
  TypeOK
  TablesInOrder
  NoInternalError
  NoBlockTwice
  ReleaseRestarts
PROPERTY ImplementsFreeSpace
