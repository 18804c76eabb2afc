CONSTANTS
  Key <- ThirtyKeys
  Capacity = 41
  Link = 1
  MaxItem = 10
  First <- FirstBytes
  Behind <- BehindBytes
  Starts <- TreeStarts
SPECIFICATION Spec
INVARIANTS
  TypeOK
  WellFormed
  NoNodeLost
  NoInternalError
  SearchesAgree
PROPERTY ImplementsIndex
