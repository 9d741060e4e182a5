SPECIFICATION TurnSpec
CONSTANTS
  Native = {"bash"}
  Custom = {}
  Configs <- ConfigsOf
  MaxCalls = 3
  MaxReply = 3
  MaxTurns = 3
CHECK_DEADLOCK FALSE
INVARIANT ToldOnce
