SPECIFICATION Spec
CONSTANTS
  w1 = w1
  w2 = w2
  w3 = w3
  Queues <- SmallQueues
  SessionLimit = 2
  IsPack = TRUE
  Tokens = {1, 2}
  Confidences = {"knew"}
  MaxSessions = 2
  MaxOutages = 1
  MaxOverwrites = 1
  None = None
INVARIANTS OneEventPerCard NoCardSkipped PackCountsReviews FeedbackMeansSaved
PROPERTIES SummaryMatchesLog
CHECK_DEADLOCK FALSE
