---------------------------- MODULE ReviewStores -----------------------------
(***************************************************************************)
(* The three review stores of src/src/lib/srs/storage.ts as values: what    *)
(* they hold, how a repeated eventId is recognised, and what one answer     *)
(* makes of them.  ReviewLog says what the stores promise, ReviewStorage    *)
(* how localStorage calls keep the promise.                                 *)
(*                                                                          *)
(* An absent key and an empty store are the same value.  An event carries   *)
(* the answer it came from, so comparing the input fields of a stored event *)
(* with those of a new call is comparing answers.                           *)
(***************************************************************************)
EXTENDS SrsEngine, Sequences, FiniteSets

CONSTANTS Words,       \* the slugs that can be answered or saved
          Answers,     \* the answers the learner may give (VlxReviewAnswerInput)
          NoItem,      \* a slug without review state
          NoStats      \* a date without daily stats

Keys == {"reviewState", "reviewEvents", "dailyStats"}

Dates == {DateOf(a.createdAt) : a \in Answers}

\* VlxReviewEvent: the answer, and what the engine did with it
Event == [answer: Answers, boxBefore: Boxes, boxAfter: Boxes,
          weakScoreBefore: 0..100, weakScoreAfter: 0..100]

\* ParsedReviewStores: the values the three keys can hold
Stores == [reviewState: [Words -> Item \cup {NoItem}],
           reviewEvents: Seq(Event),
           dailyStats: [Dates -> DailyStats \cup {NoStats}]]

EmptyStores == [reviewState |-> [w \in Words |-> NoItem],
                reviewEvents |-> << >>,
                dailyStats |-> [d \in Dates |-> NoStats]]

ASSUME AnswersAssumption ==
  /\ \A a \in Answers : EngineAnswer(a) /\ a.slug \in Words
  /\ NoItem \notin Item
  /\ NoStats \notin DailyStats

EventIds(events) == {events[i].answer.eventId : i \in DOMAIN events}

\* findReviewEventById
EventsWithId(events, id) ==
  {events[i] : i \in {j \in DOMAIN events : events[j].answer.eventId = id}}

\* mutant of HasSessionEventForDate: every answer counts as a new session
NeverASessionEvent(events, sessionId, date) == FALSE

HasSessionEventForDate(events, sessionId, date) ==
  \E i \in DOMAIN events :
    /\ events[i].answer.sessionId = sessionId
    /\ DateOf(events[i].answer.createdAt) = date

\* mutant of ReplaysCleanly: the input conflict is not looked for
ReplaysAnyDuplicate(stores, a) ==
  /\ stores.reviewState[a.slug] # NoItem
  /\ stores.dailyStats[DateOf(a.createdAt)] # NoStats

\* getDuplicateReviewOutput succeeds: same answer, and its state and its
\* day's statistics are there to be returned
ReplaysCleanly(stores, a) ==
  /\ \E e \in EventsWithId(stores.reviewEvents, a.eventId) : e.answer = a
  /\ stores.reviewState[a.slug] # NoItem
  /\ stores.dailyStats[DateOf(a.createdAt)] # NoStats

\* The three stores after the engine applied an answer to a snapshot
StoresAfter(stores, a) ==
  LET date  == DateOf(a.createdAt)
      item  == IF stores.reviewState[a.slug] = NoItem
               THEN NewItem(a.createdAt) ELSE stores.reviewState[a.slug]
      next  == ItemAfter(item, a)
      stats == IF stores.dailyStats[date] = NoStats
               THEN EmptyDailyStats ELSE stores.dailyStats[date]
      event == [answer |-> a, boxBefore |-> item.box, boxAfter |-> next.box,
                weakScoreBefore |-> item.weakScore,
                weakScoreAfter |-> next.weakScore]
      countSession == ~HasSessionEventForDate(stores.reviewEvents,
                                              a.sessionId, date)
  IN [reviewState  |-> [stores.reviewState EXCEPT ![a.slug] = next],
      reviewEvents |-> Append(stores.reviewEvents, event),
      dailyStats   |-> [stores.dailyStats EXCEPT
                          ![date] = DailyStatsAfter(stats, item, next, a,
                                                    countSession)]]

\* createReviewItemFromSavedWord: a word without review state gets a new item
SavedState(reviewState, w, savedAt) ==
  IF reviewState[w] = NoItem
  THEN [reviewState EXCEPT ![w] = NewItem(savedAt)] ELSE reviewState
==============================================================================
