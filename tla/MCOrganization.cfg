SPECIFICATION MCSpec
CONSTANTS
  c1 = c1  c2 = c2  e1 = e1  e2 = e2  s1 = s1  s2 = s2  r1 = r1
  b1 = b1  b2 = b2  k1 = k1  v1 = v1  v2 = v2  t1 = t1  t2 = t2  a1 = a1  u1 = u1  u2 = u2
  None = None
  Creates = {c1, c2}
  Retries = {c1, c2}
  Ensures = {e1, e2}
  Backfills = {e2}
  Suspends = {s1, s2}
  Resumes = {r1}
  MayFail = {c1, e1, s1, r1}
  Bootstraps = {b1, b2}
  KeyCreates = {k1}
  Revokes = {v1, v2}
  Rotations = {t1, t2}
  Calls = {a1}
  Allowed = {}
  Supplied = {b1}
  Managers = {v2}
  User <- UserOf
  Members = {u1, u2}
  MaxExpired = 1
SYMMETRY Symmetry
CHECK_DEADLOCK FALSE
INVARIANTS OneEach RowsTellTheKey OneAdmin
PROPERTIES SuspendStops KeysEnd
