SPECIFICATION Spec
CONSTANTS
  a = a
  b = b
  c = c
  TableColumns = {a, b}
  Columns = {a, b, c}
  Files <- MCFiles
  MaxParamsPerQuery = 4
  MaxWatchesPerQuery = 16
  MaxKeysCap = 1000
  NONE = NONE
CHECK_DEADLOCK FALSE
INVARIANTS TypeOK DerivedIsServed RegularWatchesDerive
