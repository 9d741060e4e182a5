SPECIFICATION MCSpec
CONSTANTS
  Callers = {c1, c2}
  Ttl = 4
  Fresh = 1
  RunLimit = 3
  BackendLimit = 4
  MaxConnections = 2
  Native = {"bash", "read"}
  Custom = {"pay"}
  Configs <- ConfigsOf
  MaxCalls = 3
  MaxReply = 2
  MaxTurns = 3
  Sessions = {t1, t2}
  Pools = {1, 2}
  Conns = {1}
  MaxVersions = 1
  None = None
CHECK_DEADLOCK FALSE
INVARIANTS CallsSurvive RightVerdict ParkedIsAnswerable LogTellsTranscript OneHome Whole
