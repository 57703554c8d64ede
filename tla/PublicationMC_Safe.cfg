SPECIFICATION FairSpec
CONSTANTS
  o = o
  p = p
  Capital = Capital
  Names = {o, p, Capital}
  Fold <- MCFold
  Configs <- MCConfigs
  MaxFaults = 2
  MaxMigrations = 2
CHECK_DEADLOCK FALSE
INVARIANTS TypeOK InLine
PROPERTY EventuallyStreams
