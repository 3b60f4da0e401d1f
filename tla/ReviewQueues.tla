---------------------------- MODULE ReviewQueues -----------------------------
(***************************************************************************)
(* Which words the pages offer for review, and when: the selectors of       *)
(* src/src/lib/srs/selectors.ts for weak, new and mastered words, and the   *)
(* due and the weak queues review-session-view.tsx builds for its routes,   *)
(* over words that are saved, answered and scheduled by the engine while    *)
(* time passes.  The mixed route and the dashboard's primary action, which  *)
(* choose among these, are left out.                                        *)
(*                                                                          *)
(* Any word can be answered at any time (/review?mode=word takes any pack   *)
(* word).  From some moment on the learner may turn diligent: reviews what  *)
(* /review/due offers as soon as it is due, and knows every answer.  That   *)
(* phase asks what the schedule does for a learner who follows it.  Queues  *)
(* are sets: the order of the cards and the session size are left out.      *)
(***************************************************************************)
EXTENDS SrsEngine, FiniteSets

CONSTANTS Words,       \* the slugs of the packs
          AnswerKinds, \* what an answer may be: result, speed, confidence, usedHint
          Instants,    \* bound: the times at which the free phase acts
          MaxReviews,  \* bound: reviews of a word in the free phase
          Horizon,     \* bound: how long the diligent learner waits for due words
          NoItem       \* a word without review state

Recalled == [result |-> "correct", speed |-> "fast", confidence |-> "knew",
             usedHint |-> FALSE]

At(kind, t) == [result |-> kind.result, speed |-> kind.speed,
                confidence |-> kind.confidence, usedHint |-> kind.usedHint,
                createdAt |-> t]

ASSUME QueuesAssumption ==
  /\ \A k \in AnswerKinds : EngineAnswer(At(k, 0))
  /\ Instants \subseteq Nat
  /\ MaxReviews \in Nat /\ Horizon \in Nat
  /\ NoItem \notin Item

VARIABLES now,          \* the browser's clock
          savedWords,   \* the slugs of vlx_saved_words_v1
          reviewState,  \* vlx_review_state_v1
          diligent      \* the learner follows the due queue

vars == <<now, savedWords, reviewState, diligent>>

-----------------------------------------------------------------------------
(* Selectors *)

Tracked == {w \in Words : reviewState[w] # NoItem}

IsDueBy(item, t) == item.nextDueAt = NoTime \/ item.nextDueAt <= t

\* isWeak repeats the evidence of getMasteryLabel and adds the label
IsWeak(item) == item.mastery = "Weak" \/ WeakEvidence(item)

WeakWords == {w \in Tracked : IsWeak(reviewState[w])}

NewSaved == {w \in savedWords :
               \/ reviewState[w] = NoItem
               \/ /\ reviewState[w].mastery = "New"
                  /\ ReviewCount(reviewState[w]) = 0}

Mastered == {w \in Tracked : /\ reviewState[w].box = 5
                             /\ reviewState[w].mastery = "Mastered"}

-----------------------------------------------------------------------------
(* The queues of the review routes *)

DueNow == {w \in Tracked : /\ reviewState[w].mastery # "Mastered"
                           /\ IsDueBy(reviewState[w], now)}

RouteWeak == {w \in Tracked : \/ reviewState[w].mastery = "Weak"
                              \/ reviewState[w].weakScore > 0}

WeakSprint == {w \in Tracked : /\ reviewState[w].mastery # "Mastered"
                               /\ \/ reviewState[w].mastery = "Weak"
                                  \/ reviewState[w].weakScore > 0
                                  \/ reviewState[w].wrong > 0}

-----------------------------------------------------------------------------
Init ==
  /\ now = 0
  /\ savedWords = {}
  /\ reviewState = [w \in Words |-> NoItem]
  /\ diligent = FALSE

\* createReviewItemFromSavedWord
Enqueued(w) == IF reviewState[w] = NoItem
               THEN [reviewState EXCEPT ![w] = NewItem(now)] ELSE reviewState

\* The save page: the saved word, then its review item
Save(w) ==
  /\ savedWords' = savedWords \cup {w}
  /\ reviewState' = Enqueued(w)
  /\ UNCHANGED <<now, diligent>>

\* ... when the second write fails, or the tab is closed between the two
SaveWithoutItem(w) ==
  /\ ~diligent
  /\ w \notin savedWords
  /\ savedWords' = savedWords \cup {w}
  /\ UNCHANGED <<now, reviewState, diligent>>

\* mutant of Reviewed: the stored label is not refreshed
LabelNotRefreshed(w, kind) ==
  LET item == Enqueued(w)[w] IN
  [reviewState EXCEPT ![w] =
     [ItemAfter(item, At(kind, now)) EXCEPT !.mastery = item.mastery]]

\* A committed answer to word w
Reviewed(w, kind) ==
  [reviewState EXCEPT ![w] = ItemAfter(Enqueued(w)[w], At(kind, now))]

Answer(w, kind) ==
  /\ ~diligent
  /\ w \in Tracked => ReviewCount(reviewState[w]) < MaxReviews
  /\ reviewState' = Reviewed(w, kind)
  /\ UNCHANGED <<now, savedWords, diligent>>

Tick(t) ==
  /\ ~diligent
  /\ now < t
  /\ now' = t
  /\ UNCHANGED <<savedWords, reviewState, diligent>>

TurnDiligent ==
  /\ ~diligent
  /\ diligent' = TRUE
  /\ UNCHANGED <<now, savedWords, reviewState>>

\* The diligent learner answers a due card ...
ReviewDue(w) ==
  /\ diligent
  /\ w \in DueNow
  /\ reviewState' = Reviewed(w, Recalled)
  /\ UNCHANGED <<now, savedWords, diligent>>

\* ... and comes back when the next card is due
Waiting == Tracked \ Mastered

WaitForDue ==
  /\ diligent
  /\ DueNow = {}
  /\ now < Horizon
  /\ \E w \in Waiting :
       /\ \A v \in Waiting : reviewState[w].nextDueAt <= reviewState[v].nextDueAt
       /\ now' = reviewState[w].nextDueAt
  /\ UNCHANGED <<savedWords, reviewState, diligent>>

FollowTheQueue == WaitForDue \/ \E w \in Words : ReviewDue(w)

Next ==
  \/ \E w \in Words : Save(w) \/ SaveWithoutItem(w)
  \/ \E w \in Words, k \in AnswerKinds : Answer(w, k)
  \/ \E t \in Instants : Tick(t)
  \/ TurnDiligent
  \/ FollowTheQueue

Spec == Init /\ [][Next]_vars

\* The learner who turned diligent stays so, and keeps reviewing
DiligentSpec == Spec /\ WF_vars(FollowTheQueue)
-----------------------------------------------------------------------------
(* Correctness *)

TypeOK ==
  /\ now \in Nat
  /\ savedWords \subseteq Words
  /\ reviewState \in [Words -> Item \cup {NoItem}]
  /\ diligent \in BOOLEAN

\* The schedule of a word is that of its box: what the properties below rest on.
OnSchedule(item) ==
  /\ item.createdAt <= now
  /\ item.box <= item.correct
  /\ item.mastery = "Mastered" <=> item.box = 5
  /\ item.lastReviewedAt = NoTime => item.box = 0
  /\ item.lastReviewedAt # NoTime => item.lastReviewedAt \in item.createdAt..now
  /\ item.box = 0 => item.nextDueAt \in 0..(now + 1)
  /\ item.box # 0 => item.nextDueAt = item.lastReviewedAt + BoxInterval[item.box]
  /\ item.box = 5 => now - item.createdAt >= BoxInterval[4]

Schedule == TypeOK /\ \A w \in Tracked : OnSchedule(reviewState[w])

\* Box five is reached only from box four, by a recall at least fourteen days
\* after the previous review of the word, whatever was answered in between
\* (hasDelayedRecallDue): practising early never shortens the wait.
MasteryNeedsDelayedRecall ==
  [][\A w \in Tracked :
       (reviewState'[w].box = 5 /\ reviewState[w].box # 5) =>
         /\ reviewState[w].box = 4
         /\ now - reviewState[w].lastReviewedAt >= BoxInterval[4]]_vars

\* A mastered word was first seen at least fourteen days ago and answered
\* correctly at least five times: no short sequence of answers, saves and
\* retries reaches the label.
MasteryIsEarned ==
  \A w \in Mastered :
    /\ reviewState[w].correct >= 5
    /\ now - reviewState[w].createdAt >= BoxInterval[4]

\* No word is lost.  One that is not mastered comes back within fourteen days:
\* no answer schedules it further away, and none leaves it without a due date.
\* And a saved one nobody has reviewed is offered as new, also when the save page
\* stopped between the saved word and its review item.
ComesBack ==
  /\ \A w \in Tracked \ Mastered :
       reviewState[w].nextDueAt \in 0..(now + BoxInterval[4])
  /\ \A w \in savedWords :
       (w \in Tracked => ReviewCount(reviewState[w]) = 0) => w \in NewSaved

\* A word the dashboard counts as weak, and that is not mastered, is offered by
\* both weak routes: the three places that decide what is weak (selectors,
\* /review/weak, the sprint) agree on it because the stored label is current.
WeakWordsAreOffered == WeakWords \ Mastered \subseteq RouteWeak \cap WeakSprint

\* A learner who reviews what is due, when it is due, and knows the answers
\* masters every tracked word, and before the horizon: the schedule has no dead
\* end below box five.
DiligenceMasters == diligent ~> (Tracked = Mastered)
==============================================================================
