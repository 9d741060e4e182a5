SPECIFICATION FairSpec
CONSTANTS
  agent = agent  other = other
  None = None
  Writers = {agent, other}
  Agent = agent
  MaxSeq = 4
  MaxTx = 2
  Batch = 2
  Depth = 1
  MaxDrops = 1
CHECK_DEADLOCK FALSE
INVARIANTS StreamIsLog
PROPERTIES Delivers Complete
