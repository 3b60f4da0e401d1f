------------------------------ MODULE SrsEngine ------------------------------
(***************************************************************************)
(* The spaced-repetition engine of src/src/lib/srs/engine.ts: pure          *)
(* functions from a word's review state, the day's statistics and one       *)
(* answer to their successors.                                              *)
(*                                                                          *)
(* Time is counted in units of the box-zero delay                           *)
(* (VLX_BOX_ZERO_DUE_MINUTES, ten minutes), the shortest interval the       *)
(* engine knows, so a day is 144 units.  Weak scores are in hundredths,     *)
(* the precision clampWeakScore rounds to.  A response time is the class    *)
(* the two thresholds of types.ts put it in.  Word text, images, the        *)
(* average response time and the minutes practised are left out: no         *)
(* transition reads them.                                                   *)
(***************************************************************************)
EXTENDS Integers

Day     == 144                  \* ten-minute units in a day
BoxZeroDue == 1                 \* VLX_BOX_ZERO_DUE_MINUTES
NoTime  == -1                   \* an optional instant that is not set

Boxes      == 0..5
Masteries  == {"New", "Learning", "Weak", "Strong", "Mastered"}
Results    == {"correct", "wrong"}
Speeds     == {"fast", "medium", "slow"}
Confidences == {"knew", "guessed", "forgot"}

\* VLX_BOX_INTERVAL_DAYS, in units
BoxInterval == [b \in Boxes |->
  Day * (IF b = 0 THEN 0 ELSE IF b = 1 THEN 1 ELSE IF b = 2 THEN 3
         ELSE IF b = 3 THEN 7 ELSE IF b = 4 THEN 14 ELSE 30)]

\* VlxReviewStateItem
Item == [box: Boxes, mastery: Masteries, correct: Nat, wrong: Nat,
         streakCorrect: Nat, createdAt: Nat, lastReviewedAt: Nat \cup {NoTime},
         nextDueAt: Nat \cup {NoTime}, weakScore: 0..100]

\* VlxDailyStatsItem
DailyStats == [reviewed: Nat, correct: Nat, wrong: Nat, mastered: Nat,
               weakAdded: Nat, sessions: Nat]

\* getIsoDate
DateOf(t) == t \div Day

ClampBox(b) == IF b < 0 THEN 0 ELSE IF b > 5 THEN 5 ELSE b

\* mutant of ClampWeakScore: the lower bound forgotten
ClampWeakScoreNoFloor(w) == IF w > 100 THEN 100 ELSE w

ClampWeakScore(w) == IF w < 0 THEN 0 ELSE IF w > 100 THEN 100 ELSE w

RepeatedMistake(item) == item.wrong > 0 /\ item.streakCorrect = 0

\* mutant of HasDelayedRecallDue: any earlier review will do
HasEarlierReview(item, reviewedAt) == item.lastReviewedAt # NoTime

\* mutant of HasDelayedRecallDue: due only after the instant it was due
HasDelayedRecallPast(item, reviewedAt) ==
  item.nextDueAt # NoTime /\ item.nextDueAt < reviewedAt

HasDelayedRecallDue(item, reviewedAt) ==
  \/ /\ item.nextDueAt # NoTime
     /\ item.nextDueAt <= reviewedAt
  \/ /\ item.nextDueAt = NoTime
     /\ item.lastReviewedAt # NoTime
     /\ reviewedAt - item.lastReviewedAt >= BoxInterval[4]

ShouldAdvanceFromCorrect(a) ==
  /\ ~a.usedHint
  /\ a.confidence = "knew"
  /\ a.speed = "fast"

ShouldAllowSmallImprovement(item, a) ==
  /\ ~a.usedHint
  /\ a.confidence = "knew"
  /\ item.box <= 1
  /\ a.speed = "medium"

ShouldImprove(item, a) ==
  ShouldAdvanceFromCorrect(a) \/ ShouldAllowSmallImprovement(item, a)

\* A wrong answer drops one box, a repeated one to box zero; a confident
\* answer climbs one, but box five only when the delayed recall was due.
BoxAfter(item, a) ==
  LET proposed == IF ShouldImprove(item, a) THEN ClampBox(item.box + 1)
                                            ELSE item.box
      tooEarly == /\ proposed = 5
                  /\ item.box < 5
                  /\ ~HasDelayedRecallDue(item, a.createdAt)
  IN IF a.result = "wrong"
     THEN IF RepeatedMistake(item) THEN 0 ELSE ClampBox(item.box - 1)
     ELSE IF tooEarly THEN 4 ELSE proposed

WrongIncrease(item, a) ==
    (IF RepeatedMistake(item) THEN 24 ELSE 16)
  + (IF a.confidence = "forgot" THEN 8 ELSE 0)
  + (IF a.speed = "slow" THEN 4 ELSE 0)

CorrectDecrease(a) ==
  IF a.usedHint \/ a.confidence = "guessed" THEN 2
  ELSE IF a.speed = "fast" THEN 16 ELSE IF a.speed = "medium" THEN 8 ELSE 3

WeakScoreAfter(item, a) ==
  ClampWeakScore(IF a.result = "wrong"
                 THEN item.weakScore + WrongIncrease(item, a)
                 ELSE item.weakScore - CorrectDecrease(a))

\* mutant of NextDueAt: the interval of the next box
NextDueAtOneBoxUp(box, reviewedAt, result) ==
  reviewedAt + BoxInterval[ClampBox(box + 1)]

NextDueAt(box, reviewedAt, result) ==
  IF box # 0 THEN reviewedAt + BoxInterval[box]
  ELSE IF result = "wrong" THEN reviewedAt + BoxZeroDue ELSE reviewedAt

ReviewCount(item) == item.correct + item.wrong

\* The evidence of weakness getMasteryLabel and the selectors share
WeakEvidence(item) ==
  \/ item.weakScore >= 60
  \/ item.wrong >= 3
  \/ item.wrong > 0 /\ item.wrong >= item.correct /\ ReviewCount(item) > 1

MasteryLabel(item) ==
  IF item.box = 5 THEN "Mastered"
  ELSE IF WeakEvidence(item) THEN "Weak"
  ELSE IF item.box = 0 /\ ReviewCount(item) = 0 THEN "New"
  ELSE IF item.box >= 3 /\ item.weakScore < 40 THEN "Strong"
  ELSE "Learning"

\* createReviewItemFromSavedWord and createReviewItemFromAnswer
NewItem(createdAt) ==
  [box |-> 0, mastery |-> "New", correct |-> 0, wrong |-> 0,
   streakCorrect |-> 0, createdAt |-> createdAt, lastReviewedAt |-> NoTime,
   nextDueAt |-> createdAt, weakScore |-> 0]

EmptyDailyStats == [reviewed |-> 0, correct |-> 0, wrong |-> 0,
                    mastered |-> 0, weakAdded |-> 0, sessions |-> 0]

\* 1 when the condition holds: the (cond ? 1 : 0) of the counters
One(cond) == IF cond THEN 1 ELSE 0

\* The state half of the engine's applyReviewAnswer
ItemAfter(item, a) ==
  LET box  == BoxAfter(item, a)
      next == [item EXCEPT
                 !.box = box,
                 !.correct = @ + One(a.result = "correct"),
                 !.wrong = @ + One(a.result = "wrong"),
                 !.streakCorrect = IF a.result = "correct" THEN @ + 1 ELSE 0,
                 !.lastReviewedAt = a.createdAt,
                 !.nextDueAt = NextDueAt(box, a.createdAt, a.result),
                 !.weakScore = WeakScoreAfter(item, a)]
  IN [next EXCEPT !.mastery = MasteryLabel(next)]

\* updateDailyStats
DailyStatsAfter(stats, item, next, a, countSession) ==
  [stats EXCEPT
     !.reviewed = @ + 1,
     !.correct = @ + One(a.result = "correct"),
     !.wrong = @ + One(a.result = "wrong"),
     !.mastered = @ + One(item.mastery # "Mastered" /\ next.mastery = "Mastered"),
     !.weakAdded = @ + One(item.mastery # "Weak" /\ next.mastery = "Weak"),
     !.sessions = @ + One(countSession)]

\* What the engine needs to know of an answer (VlxReviewAnswerInput)
EngineAnswer(a) ==
  /\ a.result \in Results
  /\ a.speed \in Speeds
  /\ a.confidence \in Confidences
  /\ a.usedHint \in BOOLEAN
  /\ a.createdAt \in Nat
==============================================================================
