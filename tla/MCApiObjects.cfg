SPECIFICATION Spec
CONSTANTS
  v1 = v1
  v2 = v2
  Unset = Unset
  Values <- MCValues
  MaxChanges = 3
INVARIANTS
  TypeOK
  CacheIntact
  RoundTrip
  ListsAgree
SYMMETRY MCSymmetry
CHECK_DEADLOCK FALSE
