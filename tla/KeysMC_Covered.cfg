SPECIFICATION Spec
CONSTANTS
  c1 = c1
  g1 = g1
  p1 = p1
  p2 = p2
  a1 = a1
  a2 = a2
  Odd = Odd
  NULL = NULL
  GONE = GONE
  Comments = {c1}
  Tags = {g1}
  Posts = {p1, p2}
  Authors = {a1, a2}
  IdentityMaps <- MCIdentityMaps
  MaxLive = 1
  MaxStream = 2
SYMMETRY Symmetry
INVARIANTS TypeOK UnwarnedDocsFollow
