SPECIFICATION FairSpec
CONSTANTS
  b1 = b1  b2 = b2  w1 = w1  w2 = w2  s1 = s1  s2 = s2
  None = None
  Batches = {b1, b2}
  Answers = {b2}
  Stops = {}
  Workers = {w1, w2}
  Cloud = TRUE
  Unreliable = FALSE
  Timely = TRUE
  MaxTries = 2
CHECK_DEADLOCK FALSE
INVARIANTS TypeOK OneTurn OwnTurn ToldIdle ParkedMeansPaused
PROPERTIES KeepsConversation Answered
