SPECIFICATION Spec
CONSTANTS
  w1 = w1
  w2 = w2
  c1 = c1
  c2 = c2
  k1 = k1
  k2 = k2
  e1 = e1
  e2 = e2
  NONE = NONE
  Workers = {w1, w2}
  Channels = {c1, c2}
  Lookups = {k1, k2}
  Events = {e1, e2}
  Direct <- MCDirect
  Reverse <- SafetyReverse
  Affects <- SafetyAffects
  Fanout <- MCFanout
  QueryDocs <- MCQueryDocs
  MaxKeys <- SafetyMaxKeys
  Listings <- MCListings
  Poison = {}
  TouchGrace = 1
  CanCancel = TRUE
  MaxVersion = 2
  MaxStream = 1
SYMMETRY Symmetry
INVARIANT TypeOK
INVARIANT NoLostChange
INVARIANT OneWorkerPerUnit
INVARIANT NoLostWakeup
PROPERTY NoRegress
PROPERTY Promise
CHECK_DEADLOCK FALSE
