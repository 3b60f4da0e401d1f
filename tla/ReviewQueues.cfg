SPECIFICATION DiligentSpec
CONSTANTS
  w1 = w1
  w2 = w2
  Words = {w1}
  AnswerKinds <- AllKinds
  Instants <- FewInstants
  MaxReviews = 5
  Horizon = 5760
  NoItem = NoItem
INVARIANTS TypeOK ComesBack MasteryIsEarned WeakWordsAreOffered
PROPERTIES MasteryNeedsDelayedRecall DiligenceMasters
