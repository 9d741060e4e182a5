SPECIFICATION MCSpec
CONSTANTS
  b1 = b1  h1 = h1  d1 = d1  d2 = d2  p1 = p1  main = main
  None = None  NoOne = NoOne
  Bare = {b1}
  Homes = {h1}
  Deletes = {d1, d2}
  Polls = {p1}
  Main = main
  Codes = {"zero", "timeout"}
  Full = 1
  Requests = {r1, r2}
  MaxSlots = 1
  Asked <- AskedOf
  Undigested = {s2}
  Names = {"x", "y"}
  Keys <- KeysOf
  Library <- LibraryOf
  MaxAttempts = 2
  Concurrency = 2
  Declared <- DeclaredOf
  FileName <- FileNameOf
  Within <- WithinOf
  MaxEdits = 2
  s1 = s1  s2 = s2  f1 = f1  f2 = f2
  a = a  ab = ab  b = b  o = o
CHECK_DEADLOCK FALSE
INVARIANTS NoneAstray FinishedIsWhole RunOnce FurnishedWhole
PROPERTIES Settles Served
