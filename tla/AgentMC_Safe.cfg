SPECIFICATION FairSpec
CONSTANTS
  CanInvalidate = TRUE
  PauseSuffices = FALSE
  MaxFaults = 4
INVARIANTS TypeOK DetachedIsTerminal
PROPERTIES HealthIsShown StreamsAgain ValveFires
CHECK_DEADLOCK FALSE
