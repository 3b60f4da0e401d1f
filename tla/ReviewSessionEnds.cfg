SPECIFICATION FairSpec
CONSTANTS
  w1 = w1
  w2 = w2
  w3 = w3
  Queues <- TwoCards
  SessionLimit = 2
  IsPack = FALSE
  Tokens = {1, 2}
  Confidences = {"knew", "guessed", "forgot"}
  MaxSessions = 1
  MaxOutages = 2
  MaxOverwrites = 0
  None = None
PROPERTIES SessionEnds
CHECK_DEADLOCK FALSE
