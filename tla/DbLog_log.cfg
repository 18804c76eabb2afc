CONSTANTS
  MaxLog = 5
  MaxChange = 6
  LosesInDoubt = FALSE
SPECIFICATION Spec
INVARIANTS
  TypeOK
  LogMatches
PROPERTY RecoveryIsExact
