------------------------- MODULE ReviewQueues_proofs -------------------------
(***************************************************************************)
(* For every set of words, answers and instants: the schedule of a word is  *)
(* the one its box gives it, so it comes back within fourteen days until it *)
(* is mastered, and it is mastered only by a delayed recall.                *)
(***************************************************************************)
EXTENDS ReviewQueues, SrsEngine_proofs

LEMMA AtAnswers ==
  ASSUME NEW k \in AnswerKinds, NEW t \in Nat
  PROVE  EngineAnswer(At(k, t)) /\ At(k, t).createdAt = t
BY QueuesAssumption DEF EngineAnswer, At

LEMMA RecalledAnswers ==
  ASSUME NEW t \in Nat
  PROVE  EngineAnswer(At(Recalled, t)) /\ At(Recalled, t).createdAt = t
BY DEF EngineAnswer, At, Recalled, Results, Speeds, Confidences

\* A word that was never answered starts in box zero, due at once.
LEMMA NewItemOnSchedule ==
  ASSUME TypeOK PROVE NewItem(now) \in Item /\ OnSchedule(NewItem(now))
<1> USE DEF TypeOK
<1>1. NewItem(now) \in Item
  BY NewItemType
<1> QED BY <1>1 DEF NewItem, OnSchedule, NoTime

\* An answer keeps a word on schedule.
LEMMA AnswerKeepsSchedule ==
  ASSUME TypeOK, NEW item \in Item, OnSchedule(item),
         NEW a, EngineAnswer(a), a.createdAt = now
  PROVE  ItemAfter(item, a) \in Item /\ OnSchedule(ItemAfter(item, a))
<1> DEFINE next == ItemAfter(item, a)
<1>1. next \in Item
  BY ItemAfterType
<1>2. /\ next.box = BoxAfter(item, a)
      /\ next.correct = item.correct + One(a.result = "correct")
      /\ next.createdAt = item.createdAt
      /\ next.lastReviewedAt = now
      /\ next.nextDueAt = NextDueAt(next.box, now, a.result)
      /\ next.mastery = "Mastered" <=> next.box = 5
  BY ItemAfterFields
<1>3. /\ next.box <= item.box + One(a.result = "correct")
      /\ (next.box = 5 /\ item.box # 5) =>
            item.box = 4 /\ HasDelayedRecallDue(item, now)
  BY <1>2, BoxAfterClimbs
<1>4. now \in Nat /\ next.box \in 0..5
  BY <1>1 DEF TypeOK, Item, Boxes
<1>5. /\ next.box # 0 => next.nextDueAt = now + BoxInterval[next.box]
      /\ next.box = 0 => next.nextDueAt \in {now, now + 1}
  BY <1>2, <1>4, NextDueAtValue DEF Boxes
<1>6. One(a.result = "correct") \in {0, 1}
  BY OneType
<1> HIDE DEF next
<1>7. next.box <= next.correct
  <2> DEFINE one == One(a.result = "correct")
  <2>1. one \in {0, 1} /\ next.box <= item.box + one /\ next.correct = item.correct + one
    BY <1>2, <1>3, <1>6
  <2> HIDE DEF one
  <2> QED BY <2>1, <1>4 DEF OnSchedule, Item, Boxes
<1>8. next.box = 5 => now - next.createdAt >= BoxInterval[4]
  <2>1. CASE item.box = 5
    BY <1>2, <2>1 DEF OnSchedule
  <2>2. CASE item.box # 5
    <3> SUFFICES ASSUME next.box = 5 PROVE now - item.createdAt >= BoxInterval[4]
      BY <1>2
    <3>1. item.box = 4 /\ HasDelayedRecallDue(item, now)
      BY <1>3, <2>2
    <3>2. /\ item.lastReviewedAt \in item.createdAt..now
          /\ item.nextDueAt = item.lastReviewedAt + BoxInterval[4]
      BY <3>1 DEF OnSchedule
    <3>3. item.createdAt \in Nat /\ item.lastReviewedAt \in Nat
      BY <3>2 DEF Item
    <3>4. item.nextDueAt <= now
      BY <3>1, <3>2, <3>3, BoxIntervalValues DEF HasDelayedRecallDue, NoTime
    <3> QED BY <3>2, <3>3, <3>4, <1>4, BoxIntervalValues
  <2> QED BY <2>1, <2>2
<1>9. item.createdAt \in Nat /\ item.createdAt <= now
  BY DEF OnSchedule, Item
<1> QED BY <1>1, <1>2, <1>4, <1>5, <1>7, <1>8, <1>9 DEF OnSchedule, NoTime, next

\* The state a save or an answer of word w starts from.
LEMMA EnqueuedOnSchedule ==
  ASSUME Schedule, NEW w \in Words
  PROVE  /\ Enqueued(w) \in [Words -> Item \cup {NoItem}]
         /\ Enqueued(w)[w] \in Item /\ OnSchedule(Enqueued(w)[w])
         /\ \A v \in Words \ {w} : Enqueued(w)[v] = reviewState[v]
<1>1. NewItem(now) \in Item /\ OnSchedule(NewItem(now))
  BY NewItemOnSchedule DEF Schedule
<1>2. CASE reviewState[w] = NoItem
  BY <1>1, <1>2 DEF Enqueued, Schedule, TypeOK
<1>3. CASE reviewState[w] # NoItem
  BY <1>3 DEF Enqueued, Schedule, TypeOK, Tracked
<1> QED BY <1>2, <1>3

\* What an answer to word w leaves of the review state.
LEMMA ReviewedOnSchedule ==
  ASSUME Schedule, NEW w \in Words,
         NEW k, EngineAnswer(At(k, now)), At(k, now).createdAt = now
  PROVE  /\ Reviewed(w, k) \in [Words -> Item \cup {NoItem}]
         /\ Reviewed(w, k)[w] = ItemAfter(Enqueued(w)[w], At(k, now))
         /\ Reviewed(w, k)[w] \in Item /\ OnSchedule(Reviewed(w, k)[w])
         /\ \A v \in Words \ {w} : Reviewed(w, k)[v] = reviewState[v]
<1>1. Enqueued(w)[w] \in Item /\ OnSchedule(Enqueued(w)[w])
  BY EnqueuedOnSchedule
<1> DEFINE next == ItemAfter(Enqueued(w)[w], At(k, now))
<1>2. next \in Item /\ OnSchedule(next)
  BY <1>1, AnswerKeepsSchedule DEF Schedule
<1>3. Reviewed(w, k) = [reviewState EXCEPT ![w] = next]
  BY DEF Reviewed
<1> HIDE DEF next
<1>4. reviewState \in [Words -> Item \cup {NoItem}]
  BY DEF Schedule, TypeOK
<1>5. Reviewed(w, k)[w] = next
  BY <1>3, <1>4
<1> QED BY <1>2, <1>3, <1>4, <1>5 DEF next

\* Time passing keeps every word on schedule.
LEMMA TimeKeepsSchedule ==
  ASSUME Schedule, UNCHANGED reviewState, now' \in Nat, now <= now',
         savedWords' \subseteq Words, diligent' \in BOOLEAN
  PROVE  Schedule'
<1> SUFFICES ASSUME NEW w \in Tracked PROVE OnSchedule(reviewState[w])'
  BY DEF Schedule, TypeOK, Tracked
<1> DEFINE item == reviewState[w]
<1>1. item \in Item /\ OnSchedule(item) /\ now \in Nat /\ item' = item
  BY DEF Schedule, TypeOK, Tracked
<1> HIDE DEF item
<1>2. item.createdAt \in Nat /\ item.lastReviewedAt \in Nat \cup {NoTime}
  BY <1>1 DEF Item
<1> SUFFICES OnSchedule(item)'
  BY DEF item
<1> QED BY <1>1, <1>2, BoxIntervalValues DEF OnSchedule, NoTime

\* A change of one word's state, the clock standing still.
LEMMA WordKeepsSchedule ==
  ASSUME Schedule, NEW w \in Words, UNCHANGED now,
         savedWords' \subseteq Words, diligent' \in BOOLEAN,
         reviewState' \in [Words -> Item \cup {NoItem}],
         reviewState'[w] \in Item, OnSchedule(reviewState'[w]),
         \A v \in Words \ {w} : reviewState'[v] = reviewState[v]
  PROVE  Schedule'
<1>1. ASSUME NEW v \in Tracked' PROVE OnSchedule(reviewState'[v])
  BY <1>1 DEF Schedule, Tracked
<1>2. \A item : OnSchedule(item) => OnSchedule(item)'
  BY DEF OnSchedule
<1> QED BY <1>1, <1>2 DEF Schedule, TypeOK, Tracked, OnSchedule

\* The diligent learner waits for a later instant.
LEMMA WaitingPassesTime ==
  ASSUME Schedule, WaitForDue PROVE now' \in Nat /\ now <= now'
<1>1. PICK w \in Waiting : now' = reviewState[w].nextDueAt
  BY DEF WaitForDue
<1>2. reviewState[w] \in Item /\ OnSchedule(reviewState[w]) /\ now \in Nat
  BY DEF Schedule, TypeOK, Waiting, Tracked
<1>3. reviewState[w].mastery # "Mastered"
  BY <1>2 DEF Waiting, Mastered, OnSchedule
<1>4. ~IsDueBy(reviewState[w], now)
  BY <1>3 DEF WaitForDue, DueNow, Waiting
<1> QED BY <1>1, <1>2, <1>4 DEF IsDueBy, Item, NoTime

LEMMA ScheduleInit == Init => Schedule
<1> SUFFICES ASSUME Init PROVE TypeOK /\ Tracked = {}
  BY DEF Schedule
<1>1. Tracked = {}
  BY DEF Init, Tracked
<1>2. reviewState \in [Words -> Item \cup {NoItem}]
  BY DEF Init
<1> QED BY <1>1, <1>2 DEF Init, TypeOK

LEMMA ScheduleStep == Schedule /\ [Next]_vars => Schedule'
<1> SUFFICES ASSUME Schedule, [Next]_vars PROVE Schedule'
  OBVIOUS
<1>0. /\ now \in Nat /\ savedWords \subseteq Words /\ diligent \in BOOLEAN
  BY DEF Schedule, TypeOK
<1>1. ASSUME NEW w \in Words, Save(w) PROVE Schedule'
  <2>1. reviewState' = Enqueued(w) /\ UNCHANGED <<now, diligent>>
        /\ savedWords' \subseteq Words
    BY <1>0, <1>1 DEF Save
  <2> QED BY <1>0, <2>1, EnqueuedOnSchedule, WordKeepsSchedule
<1>2. ASSUME NEW w \in Words, SaveWithoutItem(w) PROVE Schedule'
  BY <1>0, <1>2, TimeKeepsSchedule DEF SaveWithoutItem
<1>3. ASSUME NEW w \in Words, NEW k \in AnswerKinds, Answer(w, k) PROVE Schedule'
  <2>1. reviewState' = Reviewed(w, k) /\ UNCHANGED <<now, savedWords, diligent>>
    BY <1>3 DEF Answer
  <2>2. EngineAnswer(At(k, now)) /\ At(k, now).createdAt = now
    BY <1>0, AtAnswers
  <2> QED BY <1>0, <2>1, <2>2, ReviewedOnSchedule, WordKeepsSchedule
<1>4. ASSUME NEW t \in Instants, Tick(t) PROVE Schedule'
  BY <1>0, <1>4, QueuesAssumption, TimeKeepsSchedule DEF Tick
<1>5. CASE TurnDiligent
  BY <1>0, <1>5, TimeKeepsSchedule DEF TurnDiligent
<1>6. CASE WaitForDue
  BY <1>0, <1>6, WaitingPassesTime, TimeKeepsSchedule DEF WaitForDue
<1>7. ASSUME NEW w \in Words, ReviewDue(w) PROVE Schedule'
  <2>1. reviewState' = Reviewed(w, Recalled) /\ UNCHANGED <<now, savedWords, diligent>>
    BY <1>7 DEF ReviewDue
  <2>2. EngineAnswer(At(Recalled, now)) /\ At(Recalled, now).createdAt = now
    BY <1>0, RecalledAnswers
  <2> QED BY <1>0, <2>1, <2>2, ReviewedOnSchedule, WordKeepsSchedule
<1>8. CASE UNCHANGED vars
  BY <1>0, <1>8, TimeKeepsSchedule DEF vars
<1> QED BY <1>1, <1>2, <1>3, <1>4, <1>5, <1>6, <1>7, <1>8 DEF Next, FollowTheQueue

\* The schedule of every word is that of its box, always.
THEOREM AlwaysOnSchedule == Spec => []Schedule
BY ScheduleInit, ScheduleStep, PTL DEF Spec

\* The state always has the types of the code.
THEOREM QueuesTypeCorrect == Spec => []TypeOK
<1>1. Schedule => TypeOK
  BY DEF Schedule
<1> QED BY <1>1, AlwaysOnSchedule, PTL

\* A mastered word took five correct answers and fourteen days.
THEOREM MasteredWasEarned == Spec => []MasteryIsEarned
<1>1. Schedule => MasteryIsEarned
  BY DEF Schedule, MasteryIsEarned, Mastered, OnSchedule, TypeOK, Tracked, Item
<1> QED BY <1>1, AlwaysOnSchedule, PTL

\* Box five is reached from box four by a recall fourteen days after the last.
THEOREM MasteryByDelayedRecall == Spec => MasteryNeedsDelayedRecall
<1> DEFINE Delayed(w) ==
      (reviewState'[w].box = 5 /\ reviewState[w].box # 5) =>
        /\ reviewState[w].box = 4
        /\ now - reviewState[w].lastReviewedAt >= BoxInterval[4]
<1>1. ASSUME Schedule, [Next]_vars PROVE [\A w \in Tracked : Delayed(w)]_vars
  <2> SUFFICES ASSUME NEW w \in Tracked PROVE Delayed(w)
    OBVIOUS
  <2>0. /\ w \in Words /\ now \in Nat
        /\ reviewState[w] \in Item /\ OnSchedule(reviewState[w])
        /\ reviewState[w] # NoItem
    BY <1>1 DEF Schedule, TypeOK, Tracked
  <2>1. CASE reviewState'[w] = reviewState[w]
    BY <2>1
  <2>2. ASSUME NEW k, EngineAnswer(At(k, now)), At(k, now).createdAt = now,
               reviewState' = Reviewed(w, k)
        PROVE  Delayed(w)
    <3> DEFINE item == reviewState[w]
    <3>1. Enqueued(w)[w] = item
      BY <2>0 DEF Enqueued
    <3>2. reviewState'[w].box = BoxAfter(item, At(k, now))
      BY <1>1, <2>0, <2>2, <3>1, ReviewedOnSchedule, ItemAfterFields
    <3> SUFFICES ASSUME reviewState'[w].box = 5, item.box # 5
                 PROVE  item.box = 4 /\ now - item.lastReviewedAt >= BoxInterval[4]
      OBVIOUS
    <3>3. item.box = 4 /\ HasDelayedRecallDue(item, now)
      BY <2>0, <2>2, <3>2, BoxAfterClimbs
    <3>4. item.nextDueAt = item.lastReviewedAt + BoxInterval[4]
          /\ item.lastReviewedAt \in Nat
      BY <2>0, <3>3 DEF OnSchedule, Item
    <3> HIDE DEF item
    <3>5. item.nextDueAt <= now
      BY <3>3, <3>4, BoxIntervalValues DEF HasDelayedRecallDue, NoTime
    <3> QED BY <2>0, <3>3, <3>4, <3>5, BoxIntervalValues
  <2>3. ASSUME NEW v \in Words, v # w, NEW k, EngineAnswer(At(k, now)),
               At(k, now).createdAt = now, reviewState' = Reviewed(v, k)
        PROVE  reviewState'[w] = reviewState[w]
    BY <1>1, <2>0, <2>3, ReviewedOnSchedule
  <2>4. ASSUME NEW v \in Words, Save(v) PROVE reviewState'[w] = reviewState[w]
    <3>1. reviewState' = Enqueued(v)
      BY <2>4 DEF Save
    <3>2. CASE v = w
      BY <2>0, <3>1, <3>2 DEF Enqueued
    <3>3. CASE v # w
      BY <1>1, <2>0, <3>1, <3>3, EnqueuedOnSchedule
    <3> QED BY <3>2, <3>3
  <2>5. ASSUME NEW v \in Words, NEW k \in AnswerKinds, Answer(v, k) PROVE Delayed(w)
    <3>1. reviewState' = Reviewed(v, k)
      BY <2>5 DEF Answer
    <3>2. EngineAnswer(At(k, now)) /\ At(k, now).createdAt = now
      BY <2>0, AtAnswers
    <3> HIDE DEF Delayed
    <3> QED BY <3>1, <3>2, <2>1, <2>2, <2>3
  <2>6. ASSUME NEW v \in Words, ReviewDue(v) PROVE Delayed(w)
    <3>1. reviewState' = Reviewed(v, Recalled)
      BY <2>6 DEF ReviewDue
    <3>2. EngineAnswer(At(Recalled, now)) /\ At(Recalled, now).createdAt = now
      BY <2>0, RecalledAnswers
    <3> HIDE DEF Delayed
    <3> QED BY <3>1, <3>2, <2>1, <2>2, <2>3
  <2>7. ASSUME UNCHANGED reviewState PROVE reviewState'[w] = reviewState[w]
    BY <2>7
  <2> HIDE DEF Delayed
  <2> QED BY <1>1, <2>1, <2>4, <2>5, <2>6, <2>7
        DEF Next, FollowTheQueue, vars, SaveWithoutItem, Tick, TurnDiligent, WaitForDue
<1> QED BY <1>1, AlwaysOnSchedule, PTL DEF Spec, MasteryNeedsDelayedRecall

-----------------------------------------------------------------------------
(* What is weak is offered *)

\* The stored label of every word is the engine's for its box, score and counts:
\* isWeak, which repeats the evidence of getMasteryLabel, then says no more than
\* the label does, and the weak routes, which read the label, miss nothing.  A
\* word without reviews has no weak score, so that its label is New.
LabelsCurrent ==
  /\ Schedule
  /\ \A w \in Tracked :
       /\ reviewState[w].mastery = MasteryLabel(reviewState[w])
       /\ ReviewCount(reviewState[w]) = 0 => reviewState[w].weakScore = 0

\* A word's state is kept, or made or answered by the engine.
LEMMA WordsChange ==
  ASSUME Schedule, [Next]_vars, NEW w \in Words
  PROVE  \/ reviewState'[w] = reviewState[w]
         \/ reviewState'[w] = NewItem(now)
         \/ \E item \in Item : \E a : EngineAnswer(a) /\ reviewState'[w] = ItemAfter(item, a)
<1> DEFINE Known == \/ reviewState'[w] = reviewState[w]
                    \/ reviewState'[w] = NewItem(now)
                    \/ \E item \in Item : \E a :
                         EngineAnswer(a) /\ reviewState'[w] = ItemAfter(item, a)
<1>0. now \in Nat
  BY DEF Schedule, TypeOK
<1>1. ASSUME NEW v \in Words, Save(v) PROVE Known
  <2>1. reviewState' = Enqueued(v)
    BY <1>1 DEF Save
  <2>2. CASE v # w
    BY <2>1, <2>2, EnqueuedOnSchedule
  <2>3. CASE v = w
    BY <2>1, <2>3 DEF Enqueued, Schedule, TypeOK
  <2> QED BY <2>2, <2>3
<1>2. ASSUME NEW v \in Words, NEW k, EngineAnswer(At(k, now)),
             At(k, now).createdAt = now, reviewState' = Reviewed(v, k)
      PROVE  Known
  <2>1. CASE v # w
    BY <1>2, <2>1, ReviewedOnSchedule
  <2>2. CASE v = w
    <3>1. Enqueued(w)[w] \in Item
      BY EnqueuedOnSchedule
    <3>2. reviewState'[w] = ItemAfter(Enqueued(w)[w], At(k, now))
      BY <1>2, <2>2, ReviewedOnSchedule
    <3> QED BY <1>2, <3>1, <3>2
  <2> QED BY <2>1, <2>2
<1>3. ASSUME NEW v \in Words, NEW k \in AnswerKinds, Answer(v, k) PROVE Known
  <2>1. reviewState' = Reviewed(v, k)
    BY <1>3 DEF Answer
  <2> QED BY <1>0, <1>2, <2>1, AtAnswers
<1>4. ASSUME NEW v \in Words, ReviewDue(v) PROVE Known
  <2>1. reviewState' = Reviewed(v, Recalled)
    BY <1>4 DEF ReviewDue
  <2> QED BY <1>0, <1>2, <2>1, RecalledAnswers
<1>5. ASSUME UNCHANGED reviewState PROVE Known
  BY <1>5
<1> HIDE DEF Known
<1>6. Known
  BY <1>1, <1>3, <1>4, <1>5
     DEF Next, FollowTheQueue, vars, SaveWithoutItem, Tick, TurnDiligent, WaitForDue
<1> QED BY <1>6 DEF Known

\* An answered word has been reviewed.
LEMMA AnswersAreCounted ==
  ASSUME NEW item \in Item, NEW a, EngineAnswer(a)
  PROVE  ReviewCount(ItemAfter(item, a)) # 0
<1> DEFINE next == ItemAfter(item, a)
<1>1. /\ next.correct = item.correct + One(a.result = "correct")
      /\ next.wrong = item.wrong + One(a.result = "wrong")
  BY ItemAfterFields
<1>2. a.result = "correct" \/ a.result = "wrong"
  BY DEF EngineAnswer, Results
<1>3. item.correct \in Nat /\ item.wrong \in Nat
  BY DEF Item
<1>4. One(a.result = "correct") + One(a.result = "wrong") = 1
  BY <1>2 DEF One
<1>5. One(a.result = "correct") \in {0, 1} /\ One(a.result = "wrong") \in {0, 1}
  BY OneType
<1> HIDE DEF next
<1>6. next.correct + next.wrong # 0
  BY <1>1, <1>3, <1>4, <1>5
<1> QED BY <1>6 DEF next, ReviewCount

LEMMA LabelsInit == Init => LabelsCurrent
BY ScheduleInit DEF Init, LabelsCurrent, Tracked

LEMMA LabelsStep == LabelsCurrent /\ [Next]_vars => LabelsCurrent'
<1> SUFFICES ASSUME LabelsCurrent, [Next]_vars, NEW w \in Words,
                    reviewState'[w] # NoItem
             PROVE  /\ reviewState'[w].mastery = MasteryLabel(reviewState'[w])
                    /\ ReviewCount(reviewState'[w]) = 0 => reviewState'[w].weakScore = 0
  BY ScheduleStep DEF LabelsCurrent, Tracked
<1>1. CASE reviewState'[w] = reviewState[w]
  BY <1>1 DEF LabelsCurrent, Tracked
<1>2. CASE reviewState'[w] = NewItem(now)
  BY <1>2 DEF NewItem, MasteryLabel, WeakEvidence, ReviewCount
<1>3. CASE \E item \in Item : \E a :
             EngineAnswer(a) /\ reviewState'[w] = ItemAfter(item, a)
  BY <1>3, ItemAfterType, AnswersAreCounted
<1> QED BY <1>1, <1>2, <1>3, WordsChange DEF LabelsCurrent

\* Labels and scores are current, always.
THEOREM LabelsStayCurrent == Spec => []LabelsCurrent
BY LabelsInit, LabelsStep, PTL DEF Spec

\* What the dashboard counts as weak, and is not mastered, both weak routes
\* offer: the stored label is always the one getMasteryLabel would give.
THEOREM WeakIsOffered == Spec => []WeakWordsAreOffered
<1>1. LabelsCurrent => WeakWordsAreOffered
  <2> SUFFICES ASSUME LabelsCurrent, NEW w \in WeakWords \ Mastered
               PROVE  w \in RouteWeak \cap WeakSprint
    BY DEF WeakWordsAreOffered
  <2> DEFINE item == reviewState[w]
  <2>1. /\ w \in Tracked /\ IsWeak(item)
        /\ item \in Item /\ OnSchedule(item) /\ item.mastery = MasteryLabel(item)
    BY DEF WeakWords, LabelsCurrent, Schedule, TypeOK, Tracked
  <2>2. item.mastery # "Mastered" /\ item.box # 5
    BY <2>1 DEF Mastered, OnSchedule
  <2>3. item.mastery = "Weak"
    <3> HIDE DEF item
    <3>1. WeakEvidence(item) => MasteryLabel(item) = "Weak"
      BY <2>2 DEF MasteryLabel
    <3> QED BY <2>1, <3>1 DEF IsWeak
  <2> QED BY <2>1, <2>2, <2>3 DEF RouteWeak, WeakSprint
<1> QED BY <1>1, LabelsStayCurrent, PTL

\* No word is lost: until it is mastered it comes back within fourteen days, and
\* a saved one without reviews is among the new ones.
THEOREM WordsComeBack == Spec => []ComesBack
<1>1. ASSUME LabelsCurrent, NEW w \in Tracked \ Mastered
      PROVE  reviewState[w].nextDueAt \in 0..(now + BoxInterval[4])
  <2> DEFINE item == reviewState[w]
  <2>1. item \in Item /\ OnSchedule(item) /\ now \in Nat
    BY <1>1 DEF LabelsCurrent, Schedule, TypeOK, Tracked
  <2>2. item.box \in 0..4
    BY <1>1, <2>1 DEF Mastered, OnSchedule, Item, Boxes
  <2> HIDE DEF item
  <2>3. item.createdAt \in Nat
    BY <2>1 DEF Item
  <2>4. item.nextDueAt \in 0..(now + BoxInterval[4])
    BY <2>1, <2>2, <2>3, BoxIntervalValues DEF OnSchedule, NoTime
  <2> QED BY <2>4 DEF item
<1>2. ASSUME LabelsCurrent, NEW w \in savedWords,
             w \in Tracked => ReviewCount(reviewState[w]) = 0
      PROVE  w \in NewSaved
  <2> DEFINE item == reviewState[w]
  <2>1. CASE w \notin Tracked
    BY <1>2, <2>1 DEF LabelsCurrent, Schedule, TypeOK, Tracked, NewSaved
  <2>2. CASE w \in Tracked
    <3>1. /\ item \in Item /\ OnSchedule(item)
          /\ item.mastery = MasteryLabel(item)
          /\ ReviewCount(item) = 0 /\ item.weakScore = 0
      BY <1>2, <2>2 DEF LabelsCurrent, Schedule, TypeOK, Tracked
    <3> HIDE DEF item
    <3>2. item.correct = 0 /\ item.wrong = 0 /\ item.box = 0
      BY <3>1 DEF Item, Boxes, OnSchedule, ReviewCount
    <3>3. item.mastery = "New"
      BY <3>1, <3>2 DEF MasteryLabel, WeakEvidence
    <3> QED BY <3>1, <3>3 DEF NewSaved, item
  <2> QED BY <2>1, <2>2
<1>3. LabelsCurrent => ComesBack
  BY <1>1, <1>2 DEF ComesBack
<1> QED BY <1>3, LabelsStayCurrent, PTL
=============================================================================
