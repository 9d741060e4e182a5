SPECIFICATION MCSpec
CONSTANTS
  u1 = u1  u2 = u2  i1 = i1  d1 = d1  d2 = d2  a1 = a1  c1 = c1  c2 = c2
  s1 = s1  s2 = s2  x1 = x1  x2 = x2  y1 = y1
  n1 = n1  n2 = n2  h1 = h1  k1 = k1  k2 = k2  p1 = p1  p2 = p2  r1 = r1  z1 = z1
  None = None
  Uploads = {u1, u2}
  Imports = {i1}
  Deletes = {d1, d2}
  Attaches = {a1}
  Contents = {c1, c2}
  Creator = Creator
  Sessions = {s1, s2}
  StoreDeletes = {x1, x2}
  Archives = {y1}
  Names = {n1, n2}
  Digests = {h1}
  Creates = {k1, k2}
  Updates = {p1}
  Renames = {r1}
  SkillDeletes = {z1}
  b1 = b1  b2 = b2  m1 = m1  m2 = m2  e1 = e1  e2 = e2  o1 = o1  v1 = v1  w1 = w1
  Machines = {m1, m2}
  Recipes = {b1, b2}
  Edits = {e1, e2}
  Opens = {o1}
  EnvArchives = {v1}
  EnvDeletes = {w1}
  MaxBuilds = 3
  q1 = q1  q2 = q2  g1 = g1  g2 = g2  g3 = g3  g4 = g4
  Values = {q1, q2}
  AgentEdits = {g1, g2}
  AgentArchives = {g3}
  AgentOpens = {g4}
SYMMETRY Symmetry
CHECK_DEADLOCK FALSE
INVARIANTS FilesKept RowTellsVolume MountSafe Loadable  SessionHasEnvironment EditsFollow
PROPERTY ArchiveSticks
