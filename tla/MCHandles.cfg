SPECIFICATION HandleSpec
CONSTANTS
  Callers = {c1, c2}
  Ttl = 4
  Fresh = 1
  RunLimit = 3
  BackendLimit = 4
  MaxConnections = 2
INVARIANT Guaranteed
