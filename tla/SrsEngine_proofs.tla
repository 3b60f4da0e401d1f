--------------------------- MODULE SrsEngine_proofs ---------------------------
(***************************************************************************)
(* Facts about the engine's functions, for every item and every answer.     *)
(***************************************************************************)
EXTENDS SrsEngine, TLAPS

\* The engine keeps a box between zero and five, and an answer moves it one up
\* at most.
LEMMA BoxAfterRange ==
  ASSUME NEW item \in Item, NEW a, EngineAnswer(a)
  PROVE  /\ BoxAfter(item, a) \in Boxes
         /\ BoxAfter(item, a) <= item.box + 1
BY DEF Item, EngineAnswer, BoxAfter, ClampBox, Boxes, Results

\* clampWeakScore keeps the score between 0 and 1 (here 0 and 100).
LEMMA WeakScoreAfterRange ==
  ASSUME NEW item \in Item, NEW a, EngineAnswer(a)
  PROVE  WeakScoreAfter(item, a) \in 0..100
BY DEF Item, EngineAnswer, WeakScoreAfter, ClampWeakScore, WrongIncrease,
       CorrectDecrease

\* A reviewed word is due at or after the review.
LEMMA NextDueAtRange ==
  ASSUME NEW box \in Boxes, NEW t \in Nat, NEW result
  PROVE  NextDueAt(box, t, result) \in Nat /\ NextDueAt(box, t, result) >= t
<1>1. BoxInterval[box] \in Nat
  BY DEF BoxInterval, Boxes, Day
<1> QED BY <1>1 DEF NextDueAt, BoxZeroDue

\* The labels are the five of VlxMasteryLabel.
LEMMA MasteryLabelRange == \A item : MasteryLabel(item) \in Masteries
BY DEF MasteryLabel, Masteries

\* The counters' increments are natural numbers.
LEMMA OneType == \A cond : One(cond) \in {0, 1}
BY DEF One

\* One answer changes an item's counters and dates, then labels it anew.
LEMMA ItemAfterRelabels ==
  ASSUME NEW item \in Item, NEW a, EngineAnswer(a)
  PROVE  \E next \in Item :
           ItemAfter(item, a) = [next EXCEPT !.mastery = MasteryLabel(next)]
<1> DEFINE box     == BoxAfter(item, a)
           correct == item.correct + One(a.result = "correct")
           wrong   == item.wrong + One(a.result = "wrong")
           streak  == IF a.result = "correct" THEN item.streakCorrect + 1 ELSE 0
           at      == a.createdAt
           due     == NextDueAt(box, at, a.result)
           weak    == WeakScoreAfter(item, a)
           next    == [item EXCEPT !.box = box, !.correct = correct,
                         !.wrong = wrong, !.streakCorrect = streak,
                         !.lastReviewedAt = at, !.nextDueAt = due,
                         !.weakScore = weak]
<1>1. box \in Boxes
  BY BoxAfterRange
<1>2. weak \in 0..100
  BY WeakScoreAfterRange
<1>3. at \in Nat
  BY DEF EngineAnswer
<1>4. due \in Nat
  BY <1>1, <1>3, NextDueAtRange
<1>5. correct \in Nat /\ wrong \in Nat /\ streak \in Nat
  BY OneType DEF Item
<1>6. ItemAfter(item, a) = [next EXCEPT !.mastery = MasteryLabel(next)]
  BY DEF ItemAfter
<1> HIDE DEF box, correct, wrong, streak, at, due, weak
<1>7. next \in Item
  BY <1>1, <1>2, <1>3, <1>4, <1>5 DEF Item
<1> HIDE DEF next
<1> QED BY <1>6, <1>7

\* One answer makes an item of an item, and its label is that of its box, score
\* and counts: the stored label is never stale.
LEMMA ItemAfterType ==
  ASSUME NEW item \in Item, NEW a, EngineAnswer(a)
  PROVE  /\ ItemAfter(item, a) \in Item
         /\ ItemAfter(item, a).mastery = MasteryLabel(ItemAfter(item, a))
<1>1. PICK next \in Item :
        ItemAfter(item, a) = [next EXCEPT !.mastery = MasteryLabel(next)]
  BY ItemAfterRelabels
<1>2. PICK label : label = MasteryLabel(next)
  OBVIOUS
<1>3. label \in Masteries
  BY <1>2, MasteryLabelRange
<1> DEFINE after == [next EXCEPT !.mastery = label]
<1>4. /\ after \in Item /\ after.mastery = label
      /\ after.box = next.box /\ after.weakScore = next.weakScore
      /\ after.correct = next.correct /\ after.wrong = next.wrong
  BY <1>3 DEF Item
<1> HIDE DEF after
<1>5. MasteryLabel(after) = MasteryLabel(next)
  BY <1>4 DEF MasteryLabel, WeakEvidence, ReviewCount
<1> QED BY <1>1, <1>2, <1>4, <1>5 DEF after

\* The label is Mastered in box five and nowhere else.
LEMMA MasteredIsBoxFive ==
  ASSUME NEW item, NEW box \in Boxes, item.box = box
  PROVE  MasteryLabel(item) = "Mastered" <=> box = 5
BY DEF MasteryLabel

\* What an answer makes of the fields the schedule depends on.
LEMMA ItemAfterFields ==
  ASSUME NEW item \in Item, NEW a, EngineAnswer(a)
  PROVE  LET next == ItemAfter(item, a) IN
         /\ next.box = BoxAfter(item, a)
         /\ next.correct = item.correct + One(a.result = "correct")
         /\ next.wrong = item.wrong + One(a.result = "wrong")
         /\ next.createdAt = item.createdAt
         /\ next.lastReviewedAt = a.createdAt
         /\ next.nextDueAt = NextDueAt(next.box, a.createdAt, a.result)
         /\ next.mastery = "Mastered" <=> next.box = 5
<1> DEFINE box     == BoxAfter(item, a)
           correct == item.correct + One(a.result = "correct")
           wrong   == item.wrong + One(a.result = "wrong")
           streak  == IF a.result = "correct" THEN item.streakCorrect + 1 ELSE 0
           due     == NextDueAt(box, a.createdAt, a.result)
           weak    == WeakScoreAfter(item, a)
           next    == [item EXCEPT !.box = box, !.correct = correct,
                         !.wrong = wrong, !.streakCorrect = streak,
                         !.lastReviewedAt = a.createdAt, !.nextDueAt = due,
                         !.weakScore = weak]
<1>1. ItemAfter(item, a) = [next EXCEPT !.mastery = MasteryLabel(next)]
  BY DEF ItemAfter
<1>2. box \in Boxes
  BY BoxAfterRange
<1> HIDE DEF box, correct, wrong, streak, due, weak
<1>3. /\ next.box = box /\ next.correct = correct /\ next.wrong = wrong
      /\ next.createdAt = item.createdAt
      /\ next.lastReviewedAt = a.createdAt /\ next.nextDueAt = due
      /\ DOMAIN next = DOMAIN item
  BY DEF Item
<1>4. "mastery" \in DOMAIN next
  BY <1>3 DEF Item
<1> HIDE DEF next
<1>5. MasteryLabel(next) = "Mastered" <=> box = 5
  BY <1>2, <1>3, MasteredIsBoxFive
<1>6. /\ ItemAfter(item, a).box = box /\ ItemAfter(item, a).correct = correct
      /\ ItemAfter(item, a).wrong = wrong
      /\ ItemAfter(item, a).createdAt = item.createdAt
      /\ ItemAfter(item, a).lastReviewedAt = a.createdAt
      /\ ItemAfter(item, a).nextDueAt = due
      /\ ItemAfter(item, a).mastery = MasteryLabel(next)
  BY <1>1, <1>3, <1>4
<1> QED BY <1>5, <1>6 DEF box, correct, wrong, due

\* An answer climbs one box at most, and only a correct one climbs; box five is
\* reached from box four when the delayed recall is due.
LEMMA BoxAfterClimbs ==
  ASSUME NEW item \in Item, NEW a, EngineAnswer(a)
  PROVE  /\ BoxAfter(item, a) <= item.box + One(a.result = "correct")
         /\ (BoxAfter(item, a) = 5 /\ item.box # 5) =>
               item.box = 4 /\ HasDelayedRecallDue(item, a.createdAt)
<1>1. item.box \in 0..5
  BY DEF Item, Boxes
<1>2. a.result \in {"correct", "wrong"}
  BY DEF EngineAnswer, Results
<1> QED BY <1>1, <1>2 DEF BoxAfter, ClampBox, One

\* A box says when the word is due: the box's interval after the review, or in
\* box zero at once, or ten minutes later.
LEMMA NextDueAtValue ==
  ASSUME NEW box \in Boxes, NEW t \in Nat, NEW result
  PROVE  /\ box # 0 => NextDueAt(box, t, result) = t + BoxInterval[box]
         /\ box = 0 => NextDueAt(box, t, result) \in {t, t + 1}
BY DEF NextDueAt, BoxZeroDue

\* The intervals, in ten-minute units.
LEMMA BoxIntervalValues ==
  /\ BoxInterval[1] = 144 /\ BoxInterval[2] = 432 /\ BoxInterval[3] = 1008
  /\ BoxInterval[4] = 2016 /\ BoxInterval[5] = 4320
BY DEF BoxInterval, Boxes, Day

\* A new word is an item.
LEMMA NewItemType == \A t \in Nat : NewItem(t) \in Item
BY DEF NewItem, Item, Boxes, Masteries

\* Counting an answer makes daily statistics of daily statistics.
LEMMA DailyStatsAfterType ==
  ASSUME NEW stats \in DailyStats, NEW item, NEW next, NEW a,
         NEW countSession \in BOOLEAN
  PROVE  DailyStatsAfter(stats, item, next, a, countSession) \in DailyStats
<1> DEFINE correct  == One(a.result = "correct")
           wrong    == One(a.result = "wrong")
           mastered == One(item.mastery # "Mastered" /\ next.mastery = "Mastered")
           weak     == One(item.mastery # "Weak" /\ next.mastery = "Weak")
           session  == One(countSession)
<1>1. /\ correct \in {0, 1} /\ wrong \in {0, 1} /\ mastered \in {0, 1}
      /\ weak \in {0, 1} /\ session \in {0, 1}
  BY OneType
<1>2. DailyStatsAfter(stats, item, next, a, countSession) =
        [stats EXCEPT !.reviewed = stats.reviewed + 1,
                      !.correct = stats.correct + correct,
                      !.wrong = stats.wrong + wrong,
                      !.mastered = stats.mastered + mastered,
                      !.weakAdded = stats.weakAdded + weak,
                      !.sessions = stats.sessions + session]
  BY DEF DailyStatsAfter
<1> HIDE DEF correct, wrong, mastered, weak, session
<1>3. /\ stats.correct + correct \in Nat /\ stats.wrong + wrong \in Nat
      /\ stats.mastered + mastered \in Nat /\ stats.weakAdded + weak \in Nat
      /\ stats.sessions + session \in Nat /\ stats.reviewed + 1 \in Nat
  BY <1>1 DEF DailyStats
<1> QED BY <1>2, <1>3 DEF DailyStats

\* The counters of the day an answer moves whatever it is.
LEMMA DailyStatsAfterFields ==
  ASSUME NEW stats \in DailyStats, NEW item, NEW next, NEW a, NEW count
  PROVE  /\ DailyStatsAfter(stats, item, next, a, count).reviewed = stats.reviewed + 1
         /\ DailyStatsAfter(stats, item, next, a, count).correct =
              stats.correct + One(a.result = "correct")
         /\ DailyStatsAfter(stats, item, next, a, count).wrong =
              stats.wrong + One(a.result = "wrong")
         /\ DailyStatsAfter(stats, item, next, a, count).sessions =
              stats.sessions + One(count)
<1> DEFINE correct  == One(a.result = "correct")
           wrong    == One(a.result = "wrong")
           mastered == One(item.mastery # "Mastered" /\ next.mastery = "Mastered")
           weak     == One(item.mastery # "Weak" /\ next.mastery = "Weak")
           session  == One(count)
<1>1. DailyStatsAfter(stats, item, next, a, count) =
        [stats EXCEPT !.reviewed = stats.reviewed + 1,
                      !.correct = stats.correct + correct,
                      !.wrong = stats.wrong + wrong,
                      !.mastered = stats.mastered + mastered,
                      !.weakAdded = stats.weakAdded + weak,
                      !.sessions = stats.sessions + session]
  BY DEF DailyStatsAfter
<1> HIDE DEF correct, wrong, mastered, weak, session
<1>2. /\ DailyStatsAfter(stats, item, next, a, count).reviewed = stats.reviewed + 1
      /\ DailyStatsAfter(stats, item, next, a, count).correct = stats.correct + correct
      /\ DailyStatsAfter(stats, item, next, a, count).wrong = stats.wrong + wrong
      /\ DailyStatsAfter(stats, item, next, a, count).sessions = stats.sessions + session
  BY <1>1 DEF DailyStats
<1> QED BY <1>2 DEF correct, wrong, session
==============================================================================
