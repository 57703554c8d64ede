SPECIFICATION PacedSpec
CONSTANTS
  w1 = w1
  w2 = w2
  c1 = c1
  c2 = c2
  k1 = k1
  k2 = k2
  e1 = e1
  e2 = e2
  NONE = NONE
  Workers = {w1, w2}
  Channels = {c1}
  Lookups = {k1, k2}
  Events = {e1, e2}
  Direct <- MCDirect
  Reverse <- MCReverse
  Affects <- PoisonAffects
  Fanout <- PoisonFanout
  QueryDocs <- MCQueryDocs
  MaxKeys <- TightMaxKeys
  Listings <- MCListings
  Poison = {k1, k2}
  TouchGrace = 1
  CanCancel = FALSE
  MaxVersion = 2
  MaxStream = 1
PROPERTY EventuallyFresh
