SPECIFICATION FairSpec
CONSTANTS
  w1 = w1
  w2 = w2
  c1 = c1
  c2 = c2
  k1 = k1
  k2 = k2
  e1 = e1
  e2 = e2
  NONE = NONE
  Workers = {w1}
  Channels = {c1, c2}
  Lookups = {k1}
  Events = {e1, e2}
  Direct <- MCDirect
  Reverse <- MCReverse
  Affects <- MCAffects
  Fanout <- MCFanout
  QueryDocs <- MCQueryDocs
  MaxKeys <- TightMaxKeys
  Listings <- MCListings
  Poison = {c2}
  TouchGrace = 1
  CanCancel = FALSE
  MaxVersion = 3
  MaxStream = 1
PROPERTY EventuallyFresh
