SPECIFICATION FairSpec
CONSTANTS
  w1 = w1
  w2 = w2
  w3 = w3
  Queues <- OneCard
  SessionLimit = 2
  IsPack = TRUE
  Tokens = {1, 2}
  Confidences = {"knew"}
  MaxSessions = 1
  MaxOutages = 1
  MaxOverwrites = 0
  None = None
PROPERTIES SummaryRenders
CHECK_DEADLOCK FALSE
