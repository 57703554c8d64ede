SPECIFICATION FairSpec
CONSTANTS
  CanInvalidate = FALSE
  PauseSuffices = TRUE
  MaxFaults = 0
CHECK_DEADLOCK FALSE
PROPERTY DetachedHasNoSlot
