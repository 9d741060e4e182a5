SPECIFICATION MCSpec
CONSTANTS
  p1 = p1  p2 = p2  p3 = p3  x = x  y = y  z = z  c1 = c1  c2 = c2
  None = None
  Paths = {p1, p2, p3}
  Contents = {x, y, z}
  Big = {z}
  Odd = {p3}
  Captures = {c1, c2}
  Limits = {2, 4}
  MaxIds = 3
  MaxWrites = 3
  RowIds = {1, 2, 3, 4}
  Times = {1, 2}
  PageLimits = {0, 2, 5}
  MaxPage = 2
  Windows = {{1}, {1, 2}}
SYMMETRY Symmetry
CHECK_DEADLOCK FALSE
INVARIANTS DigestTells RecordsTell WalkIsWhole
PROPERTY ArchivedMeansGone
