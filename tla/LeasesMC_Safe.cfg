SPECIFICATION FairSpec
CONSTANTS
  Channels = {c1, c2}
  TouchGrace = 2
  MaxFaults = 2
INVARIANTS TypeOK NotForgotten
PROPERTIES EventuallyLive EventuallyCold ListensAgain
