CONSTANTS
  Process = {p1, p2}
  TableBlock = {t1, t2}
  DataBlock = {d1, d2}
  Name <- Names
  IndexName <- IndexNames
  Field <- Fields
  Value = {0, 1}
  MaxIndexes = 3
  MaxOpen = 1
  MaxByte = 2
  Blank = blank
  None = none
  Starts <- TableStarts
  OpensChanged = FALSE
  ManyOpens = FALSE
  n1 = n1
  n2 = n2
  i1 = i1
  i2 = i2
  i3 = i3
  fa = fa
  fb = fb
  t1 = t1
SPECIFICATION Spec
INVARIANTS
  TypeOK
  HandlesFresh
  IndexesAgree
PROPERTY CommandIsWhole
SYMMETRY Symmetry
