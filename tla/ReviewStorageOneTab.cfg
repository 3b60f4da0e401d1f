SPECIFICATION Spec
CONSTANTS
  w1 = w1
  w2 = w2
  Words = {w1, w2}
  Answers <- OneTabAnswers
  Tabs = {t1}
  MaxCrashes = 1
  MaxFailures = 3
  SaveTimes = {139}
  MaxReviews = 4
  t1 = t1
  NoItem = NoItem
  NoStats = NoStats
  NoAnswer = NoAnswer
INVARIANTS TypeOK AckedStay StoresAgree DriftBoundedByCrashes
PROPERTIES AtomicCommit MalformedPreserved
