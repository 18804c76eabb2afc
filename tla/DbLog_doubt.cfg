CONSTANTS
  MaxLog = 5
  MaxChange = 6
  LosesInDoubt = TRUE
SPECIFICATION Spec
INVARIANT LogIsDatabase
