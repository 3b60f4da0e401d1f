------------------------- MODULE ReviewSession_proofs -------------------------
(***************************************************************************)
(* Proofs about ReviewSession: for any queues, number of cards, clicks      *)
(* between renders, outages and overwrites, a card leaves one event, no     *)
(* card is skipped, feedback means saved, and the summary and the pack's    *)
(* progress count what the log holds.                                       *)
(***************************************************************************)
EXTENDS ReviewSession, FiniteSetTheorems, TLAPS

Decks == {Questions(words) : words \in Queues} \cup {<< >>}

\* The state of the React component
Page ==
  [status: {"loading", "active", "empty", "summary"}, questions: Decks,
   index: Nat \ {0}, session: Nat, selection: Selection \cup {None},
   confidence: Confidences \cup {None}, answer: Event \cup {None},
   answers: Seq(Event), error: {"none", "retryable", "fatal"},
   summary: [reviewed: Nat, correct: Nat] \cup {None}]

Typed ==
  /\ ui \in Page /\ view \in Page
  /\ answerLocked \in BOOLEAN /\ nextLocked \in BOOLEAN
  /\ recorded \in Nat \cup {None}
  /\ events \subseteq Event /\ IsFiniteSet(events)
  /\ packReviewed \in Nat /\ overwrites \in Nat

\* The event e is of the card that page u shows
OnCard(e, u) == e.eventId[1] = u.session /\ e.eventId[2] = u.index

\* What a page shows is of one card; the summary comes after the last one.
ShowsOneCard(u) ==
  /\ u.status \in {"active", "summary"} => u.index <= Len(u.questions)
  /\ u.status = "summary" => u.index = Len(u.questions) /\ u.answer # None
  /\ u.status \in {"loading", "empty"} => u.selection = None
  /\ u.selection # None => OnCard(u.selection, u)
  /\ u.answer # None => /\ u.selection # None
                        /\ u.answer.eventId = u.selection.eventId
                        /\ u.answer.result = u.selection.result

\* How far the next render may be ahead of the last one: on the same card ...
SameCard ==
  /\ ui.session = view.session /\ ui.index = view.index
  /\ ui.status = view.status /\ ui.questions = view.questions
  /\ ui.status # "active" => ui = view
  /\ view.selection # None => ui.selection = view.selection
  /\ view.selection = None =>
       /\ ui.answer = None
       /\ ui.status = "active" => \A e \in events : ~OnCard(e, ui)
  /\ view.answer = None => ui.answer = None \/ answerLocked
  /\ view.answer # None => ui = view \/ nextLocked

\* ... on the next card or in the summary, and then the next action is locked ...
MovedOn ==
  /\ ui.session = view.session /\ view.status = "active"
  /\ view.answer # None /\ nextLocked
  /\ \/ ui.status = "active" /\ ui.index = view.index + 1 /\ ui.selection = None
     \/ ui.status = "summary"

\* ... or in a new session.
LeftSummary == view.status = "summary" /\ ui.selection = None

InStep == SameCard \/ MovedOn \/ LeftSummary

\* The stored events are of earlier cards, or of the selection on the screen.
EventsBehind ==
  \A e \in events :
    /\ e.eventId[1] <= ui.session
    /\ e.eventId[1] = ui.session /\ ui.status \in {"active", "summary"} =>
         /\ e.eventId[2] <= ui.index
         /\ e.eventId[2] = ui.index =>
              /\ ui.selection # None
              /\ e.eventId = ui.selection.eventId
              /\ e.result = ui.selection.result

\* The answers on the page are of different cards of its session, those it is
\* done with, and hold every stored event of these cards.
Listed ==
  ui.status \in {"active", "summary"} =>
    /\ \A i \in DOMAIN ui.answers :
         LET id == ui.answers[i].eventId IN
         /\ id[1] = ui.session /\ id[2] <= ui.index
         /\ id[2] = ui.index => ui.answer # None
    /\ \A i, j \in DOMAIN ui.answers :
         ui.answers[i].eventId[2] = ui.answers[j].eventId[2] => i = j
    /\ \A e \in events :
         e.eventId[1] = ui.session /\ (e.eventId[2] = ui.index => ui.answer # None) =>
           \E i \in DOMAIN ui.answers : ui.answers[i] = e

\* While no other tab overwrote an event, every answer on the page is stored.
AnswersStored ==
  ui.status \in {"active", "summary"} /\ overwrites = 0 =>
    \A i \in DOMAIN ui.answers : ui.answers[i] \in events

CardInv ==
  /\ ShowsOneCard(ui) /\ ShowsOneCard(view)
  /\ InStep
  /\ EventsBehind

AnswerInv ==
  /\ OneEventPerCard
  /\ Listed
  /\ AnswersStored
  /\ NoCardSkipped
  /\ FeedbackMeansSaved

\* A session is reported complete, and counted for its pack, when it is over.
CompleteInv ==
  /\ \A s \in Nat : <<"complete", s>> \in pushed =>
       s < ui.session \/ (s = ui.session /\ ui.status # "active")
  /\ ui.status = "active" => recorded = None
  /\ PackCountsReviews
-----------------------------------------------------------------------------
(* Filtered sequences *)

\* The elements kept are counted off, each at a place of its own.
LEMMA FilteredPlaces ==
  ASSUME NEW S, NEW s \in Seq(S), NEW kept \in SUBSET DOMAIN s
  PROVE  LET n == Cardinality(kept) IN
         /\ n \in Nat /\ IsFiniteSet(kept)
         /\ Filtered(s, kept) \in Seq(S)
         /\ Len(Filtered(s, kept)) = n /\ DOMAIN Filtered(s, kept) = 1..n
         /\ \E place \in Bijection(1..n, kept) :
              \A k \in 1..n : Filtered(s, kept)[k] = s[place[k]]
<1> DEFINE n == Cardinality(kept)
           rank == [i \in kept |-> Cardinality({j \in kept : j <= i})]
           place == [k \in 1..n |->
                       CHOOSE i \in kept : Cardinality({j \in kept : j <= i}) = k]
<1>1. DOMAIN s = 1..Len(s) /\ Len(s) \in Nat /\ kept \subseteq Nat
  OBVIOUS
<1>2. IsFiniteSet(kept) /\ n \in Nat
  <2>1. IsFiniteSet(DOMAIN s)
    BY <1>1, FS_Interval
  <2>2. IsFiniteSet(kept)
    BY <2>1, FS_Subset
  <2> QED BY <2>2, FS_CardinalityType
<1>3. \A i \in kept : /\ IsFiniteSet({j \in kept : j <= i})
                      /\ Cardinality({j \in kept : j <= i}) \in 1..n
  <2> SUFFICES ASSUME NEW i \in kept
               PROVE  /\ IsFiniteSet({j \in kept : j <= i})
                      /\ Cardinality({j \in kept : j <= i}) \in 1..n
    OBVIOUS
  <2> DEFINE upTo == {j \in kept : j <= i}
  <2>1. upTo \in SUBSET kept /\ i \in upTo
    BY <1>1
  <2> HIDE DEF upTo
  <2>2. IsFiniteSet(upTo) /\ Cardinality(upTo) \in Nat /\ Cardinality(upTo) <= n
    BY <1>2, <2>1, FS_Subset, FS_CardinalityType
  <2>3. Cardinality(upTo) # 0
    BY <2>1, <2>2, FS_EmptySet
  <2>4. Cardinality(upTo) \in 1..n
    BY <1>2, <2>2, <2>3
  <2> QED BY <2>2, <2>4 DEF upTo
<1>4. ASSUME NEW i \in kept, NEW k \in kept, i < k PROVE rank[i] # rank[k]
  <2> DEFINE upTo(m) == {j \in kept : j <= m}
  <2>1. upTo(i) \in SUBSET upTo(k) /\ k \in upTo(k) /\ k \notin upTo(i)
    BY <1>1, <1>4
  <2>2. IsFiniteSet(upTo(k))
    BY <1>3
  <2> HIDE DEF upTo
  <2>3. Cardinality(upTo(i)) # Cardinality(upTo(k))
    BY <2>1, <2>2, FS_Subset
  <2> QED BY <2>3 DEF upTo
<1>5. rank \in Injection(kept, 1..n)
  <2>1. rank \in [kept -> 1..n]
    BY <1>3
  <2>2. ASSUME NEW i \in kept, NEW k \in kept, rank[i] = rank[k] PROVE i = k
    <3>1. i \in Nat /\ k \in Nat
      BY <1>1
    <3> HIDE DEF rank
    <3> QED BY <1>4, <2>2, <3>1
  <2> HIDE DEF rank
  <2> QED BY <2>1, <2>2 DEF Injection, IsInjective
<1>6. rank \in Surjection(kept, 1..n)
  <2>1. IsFiniteSet(1..n) /\ Cardinality(1..n) = n
    BY <1>2, FS_Interval
  <2> QED BY <1>5, <2>1, FS_Injection
<1>7. \A k \in 1..n : place[k] \in kept /\ rank[place[k]] = k
  <2>1. \A k \in 1..n : \E i \in kept : rank[i] = k
    <3> HIDE DEF rank
    <3> QED BY <1>6 DEF Surjection
  <2>2. \A i \in kept : rank[i] = Cardinality({j \in kept : j <= i})
    OBVIOUS
  <2>3. \A k \in 1..n : \E i \in kept : Cardinality({j \in kept : j <= i}) = k
    BY <2>1, <2>2
  <2>4. \A k \in 1..n : /\ place[k] \in kept
                        /\ Cardinality({j \in kept : j <= place[k]}) = k
    BY <2>3
  <2> HIDE DEF rank, place
  <2> QED BY <2>2, <2>4
<1>8. place \in Bijection(1..n, kept)
  <2> HIDE DEF rank
  <2>1. place \in [1..n -> kept]
    BY <1>7
  <2> HIDE DEF place
  <2>2. ASSUME NEW i \in kept PROVE \E k \in 1..n : place[k] = i
    <3>1. rank[i] \in 1..n
      BY <1>5 DEF Injection
    <3>2. place[rank[i]] \in kept /\ rank[place[rank[i]]] = rank[i]
      BY <1>7, <3>1
    <3>3. place[rank[i]] = i
      BY <1>5, <3>2 DEF Injection, IsInjective
    <3> QED BY <3>1, <3>3
  <2>3. \A k, m \in 1..n : place[k] = place[m] => k = m
    BY <1>7
  <2> QED BY <2>1, <2>2, <2>3
          DEF Bijection, Injection, Surjection, IsInjective
<1>9. Filtered(s, kept) = [k \in 1..n |-> s[place[k]]]
  BY DEF Filtered
<1> HIDE DEF place, rank, n
<1>10. \A k \in 1..n : place[k] \in DOMAIN s
  BY <1>7
<1>11. [k \in 1..n |-> s[place[k]]] \in Seq(S)
  BY <1>2, <1>10
<1>12. Len(Filtered(s, kept)) = n /\ DOMAIN Filtered(s, kept) = 1..n
  BY <1>2, <1>9, <1>11
<1> QED BY <1>2, <1>8, <1>9, <1>11, <1>12 DEF n

\* Keeping every element keeps the sequence.
LEMMA FilteredWhole ==
  ASSUME NEW S, NEW s \in Seq(S) PROVE Filtered(s, DOMAIN s) = s
<1> DEFINE n == Len(s)
<1>1. DOMAIN s = 1..n /\ n \in Nat
  OBVIOUS
<1> HIDE DEF n
<1>2. ASSUME NEW k \in 1..n
      PROVE  (CHOOSE i \in 1..n : Cardinality({j \in 1..n : j <= i}) = k) = k
  <2>1. \A i \in 1..n : {j \in 1..n : j <= i} = 1..i
    BY <1>1
  <2>2. \A i \in 1..n : Cardinality(1..i) = i
    BY <1>1, FS_Interval
  <2>3. \A i \in 1..n : Cardinality({j \in 1..n : j <= i}) = i
    BY <2>1, <2>2
  <2> QED BY <2>3
<1>3. Cardinality(1..n) = n
  BY <1>1, FS_Interval
<1>4. Filtered(s, 1..n) =
        [k \in 1..n |->
           s[CHOOSE i \in 1..n : Cardinality({j \in 1..n : j <= i}) = k]]
  BY <1>3 DEF Filtered
<1>5. Filtered(s, 1..n) = [k \in 1..n |-> s[k]]
  BY <1>2, <1>4
<1> QED BY <1>1, <1>5

\* A route offers so many cards, and one at least when it has words.
LEMMA QuestionsType ==
  ASSUME NEW words \in Queues
  PROVE  /\ Len(Questions(words)) \in Nat
         /\ words # << >> => Len(Questions(words)) # 0
<1> DEFINE S == {words[i] : i \in DOMAIN words}
           kept == {i \in DOMAIN words : \A j \in 1..(i - 1) : words[j] # words[i]}
           cards == DedupeBySlug(words)
           n == IF Len(cards) < SessionLimit THEN Len(cards) ELSE SessionLimit
<1>1. words \in Seq(S) /\ SessionLimit \in Nat \ {0}
  BY SessionAssumption
<1> HIDE DEF S
<1>2. /\ DOMAIN words = 1..Len(words) /\ Len(words) \in Nat
      /\ words # << >> => Len(words) # 0
  BY <1>1
<1>3. (words # << >> => 1 \in kept) /\ kept \in SUBSET DOMAIN words
  BY <1>2
<1>4. cards = Filtered(words, kept)
  BY DEF DedupeBySlug
<1> HIDE DEF kept, cards
<1>5. cards \in Seq(S) /\ Len(cards) = Cardinality(kept) /\ IsFiniteSet(kept)
      /\ Cardinality(kept) \in Nat
  BY <1>1, <1>3, <1>4, FilteredPlaces
<1>6. Len(cards) \in Nat /\ (words # << >> => Len(cards) # 0)
  BY <1>3, <1>5, FS_EmptySet
<1>7. n \in 0..Len(cards) /\ (words # << >> => n # 0)
  BY <1>1, <1>6
<1>8. Questions(words) = SubSeq(cards, 1, n)
  BY DEF Questions, cards
<1> HIDE DEF n
<1>9. Len(SubSeq(cards, 1, n)) = n
  BY <1>5, <1>6, <1>7
<1> QED BY <1>6, <1>7, <1>8, <1>9

LEMMA DeckType == \A deck \in Decks : Len(deck) \in Nat
<1> SUFFICES ASSUME NEW deck \in Decks PROVE Len(deck) \in Nat
  OBVIOUS
<1>1. CASE deck = << >>
  BY <1>1
<1>2. ASSUME NEW words \in Queues, deck = Questions(words) PROVE Len(deck) \in Nat
  BY <1>2, QuestionsType
<1> QED BY <1>1, <1>2 DEF Decks

-----------------------------------------------------------------------------
(* What the actions make of the page *)

\* A new session shows its first card; a route without words shows none.
LEMMA Started ==
  ASSUME Typed, NEW words \in Queues, StartSession(words)
  PROVE  /\ ui' \in Page
         /\ ui'.selection = None /\ ui'.answer = None /\ ui'.answers = << >>
         /\ answerLocked' = FALSE /\ recorded' = None
         /\ \/ ui'.status = "empty" /\ ui'.session = ui.session
            \/ /\ ui'.status = "active" /\ ui'.session = ui.session + 1
               /\ ui'.index = 1 /\ ui'.index <= Len(ui'.questions)
<1> DEFINE shown(status, questions, index, session) ==
             [status |-> status, questions |-> questions, index |-> index,
              session |-> session, selection |-> None, confidence |-> None,
              answer |-> None, answers |-> << >>, error |-> "none", summary |-> None]
<1>0. ASSUME NEW status \in {"active", "empty"}, NEW questions \in Decks,
             NEW index \in Nat \ {0}, NEW session \in Nat
      PROVE  shown(status, questions, index, session) \in Page
  <2>1. << >> \in Seq(Event)
    OBVIOUS
  <2> QED BY <2>1 DEF Page
<1>1. CASE words = << >>
  <2>1. ui' = [Blank EXCEPT !.status = "empty", !.index = ui.index,
                            !.session = ui.session]
    BY <1>1 DEF StartSession
  <2>2. ui' = shown("empty", << >>, ui.index, ui.session)
    BY <2>1 DEF Blank
  <2>3. ui.index \in Nat \ {0} /\ ui.session \in Nat /\ << >> \in Decks
    BY DEF Typed, Page, Decks
  <2>4. ui' \in Page
    BY <1>0, <2>2, <2>3
  <2> QED BY <2>2, <2>4 DEF StartSession
<1>2. CASE words # << >>
  <2>1. ui' = [Blank EXCEPT !.status = "active", !.questions = Questions(words),
                            !.session = ui.session + 1]
    BY <1>2 DEF StartSession
  <2>2. Len(Questions(words)) \in Nat \ {0} /\ Questions(words) \in Decks
    BY <1>2, QuestionsType DEF Decks
  <2>3. ui' = shown("active", Questions(words), 1, ui.session + 1)
    BY <2>1 DEF Blank
  <2>4. ui.session + 1 \in Nat
    BY DEF Typed, Page
  <2>5. ui' \in Page
    BY <1>0, <2>2, <2>3, <2>4
  <2> QED BY <2>2, <2>3, <2>5 DEF StartSession
<1> QED BY <1>1, <1>2

LEMMA Selected ==
  ASSUME Typed, NEW r \in Results, NEW token \in Tokens, HandleSelect(r, token)
  PROVE  /\ ui' \in Page
         /\ ui'.selection # None
         /\ ui'.selection.eventId[1] = view.session
         /\ ui'.selection.eventId[2] = view.index
         /\ ui'.status = ui.status /\ ui'.questions = ui.questions
         /\ ui'.index = ui.index /\ ui'.session = ui.session
         /\ ui'.answer = ui.answer /\ ui'.answers = ui.answers
<1> DEFINE chosen == [eventId |-> <<view.session, view.index, token>>, result |-> r]
<1>1. chosen \in Selection /\ chosen # None
  BY SessionAssumption DEF Typed, Page, Selection
<1>2. ui' = [ui EXCEPT !.selection = chosen, !.confidence = None, !.error = "none"]
  BY DEF HandleSelect
<1>3. chosen.eventId[1] = view.session /\ chosen.eventId[2] = view.index
  OBVIOUS
<1> HIDE DEF chosen
<1> QED BY <1>1, <1>2, <1>3 DEF Typed, Page

\* The event of the selection on the screen, whatever becomes of it
LEMMA EventOfType ==
  ASSUME Typed, NEW c \in Confidences, view.selection # None
  PROVE  /\ EventOf(c) \in Event /\ EventOf(c) # None
         /\ EventOf(c).eventId = view.selection.eventId
         /\ EventOf(c).result = view.selection.result
         /\ EventOf(c).confidence = c
<1>1. view.selection \in Selection
  BY DEF Typed, Page
<1> QED BY <1>1, SessionAssumption DEF EventOf, Event, Selection

\* An answer is stored and shown, or the card stays as it is.
LEMMA Submitted ==
  ASSUME Typed, NEW c \in Confidences, CommitPendingAnswer(c)
  PROVE  LET event == EventOf(c) IN
         /\ event \in Event /\ event # None
         /\ event.eventId = view.selection.eventId
         /\ event.result = view.selection.result
         /\ ui' \in Page
         /\ ui'.status = ui.status /\ ui'.questions = ui.questions
         /\ ui'.index = ui.index /\ ui'.session = ui.session
         /\ ui'.selection = ui.selection
         /\ events' = events \/
              (events' = events \cup {event} /\ StoredAs(event.eventId) = {})
         /\ \/ /\ event \in events' /\ answerLocked' = TRUE
               /\ ui'.answer = event
               /\ ui'.answers =
                    IF \E i \in DOMAIN ui.answers :
                         ui.answers[i].eventId = event.eventId
                    THEN ui.answers ELSE Append(ui.answers, event)
               /\ pushed' = pushed \cup {<<"answer", event.eventId>>}
            \/ /\ answerLocked' = FALSE /\ pushed' = pushed
               /\ ui'.answer = ui.answer /\ ui'.answers = ui.answers
<1> DEFINE event == EventOf(c)
           longer == IF \E i \in DOMAIN ui.answers :
                          ui.answers[i].eventId = event.eventId
                     THEN ui.answers ELSE Append(ui.answers, event)
<1>1. /\ event \in Event /\ event # None
      /\ event.eventId = view.selection.eventId
      /\ event.result = view.selection.result /\ event.confidence = c
  BY EventOfType DEF CommitPendingAnswer
<1>2. ui \in Page
  BY DEF Typed
<1>3. longer \in Seq(Event)
  <2> HIDE DEF event
  <2> QED BY <1>1, <1>2 DEF Page
<1>4. ASSUME Saved(event)
      PROVE  /\ ui' \in Page
             /\ ui'.status = ui.status /\ ui'.questions = ui.questions
             /\ ui'.index = ui.index /\ ui'.session = ui.session
             /\ ui'.selection = ui.selection
             /\ event \in events' /\ answerLocked' = TRUE
             /\ ui'.answer = event /\ ui'.answers = longer
             /\ pushed' = pushed \cup {<<"answer", event.eventId>>}
             /\ events' = events \cup {event}
  <2>1. ui' = [ui EXCEPT !.confidence = event.confidence, !.error = "none",
                         !.answer = event, !.answers = longer]
    BY <1>4 DEF Saved
  <2> HIDE DEF event, longer
  <2>2. /\ events' = events \cup {event} /\ answerLocked' = TRUE
        /\ pushed' = pushed \cup {<<"answer", event.eventId>>}
    BY <1>4 DEF Saved
  <2> QED BY <1>1, <1>2, <1>3, <2>1, <2>2 DEF Page
<1>5. ASSUME NEW kind \in {"retryable", "fatal"}, NotSaved(event, kind)
      PROVE  /\ ui' \in Page
             /\ ui'.status = ui.status /\ ui'.questions = ui.questions
             /\ ui'.index = ui.index /\ ui'.session = ui.session
             /\ ui'.selection = ui.selection
             /\ answerLocked' = FALSE /\ pushed' = pushed
             /\ ui'.answer = ui.answer /\ ui'.answers = ui.answers
  <2> HIDE DEF event
  <2> QED BY <1>1, <1>2, <1>5 DEF NotSaved, Page
<1>6. \/ StoredAs(event.eventId) = {event} /\ Saved(event)
      \/ StoredAs(event.eventId) = {} /\ Saved(event)
      \/ StoredAs(event.eventId) = {} /\ WriteFails(event)
      \/ events' = events /\ NotSaved(event, "retryable")
  BY DEF CommitPendingAnswer
<1>7. StoredAs(event.eventId) = {event} => event \in events
  BY DEF StoredAs
<1>8. CASE Saved(event)
  <2>1. events' = events \/ (events' = events \cup {event} /\ StoredAs(event.eventId) = {})
    BY <1>4, <1>6, <1>7, <1>8 DEF CommitPendingAnswer, WriteFails, NotSaved
  <2> QED BY <1>1, <1>4, <1>8, <2>1
<1>9. CASE StoredAs(event.eventId) = {} /\ WriteFails(event)
  <2>1. events' = events \/ events' = events \cup {event}
    BY <1>9 DEF WriteFails
  <2>2. NotSaved(event, "retryable") \/ NotSaved(event, "fatal")
    BY <1>9 DEF WriteFails
  <2> QED BY <1>1, <1>5, <1>9, <2>1, <2>2
<1>10. CASE events' = events /\ NotSaved(event, "retryable")
  BY <1>1, <1>5, <1>10
<1> QED BY <1>6, <1>8, <1>9, <1>10

\* The positions of the answers that getCommittedSessionAnswers keeps
Kept(u) == {i \in DOMAIN u.answers : /\ u.answers[i].eventId[1] = u.session
                                      /\ StoredAs(u.answers[i].eventId) # {}}

LEMMA CommittedType ==
  ASSUME Typed
  PROVE  LET answers == Committed(view) IN
         /\ answers = Filtered(view.answers, Kept(view))
         /\ view.answers \in Seq(Event) /\ Kept(view) \in SUBSET DOMAIN view.answers
         /\ answers \in Seq(Event)
         /\ SummaryOf(answers) \in [reviewed: Nat, correct: Nat]
<1> DEFINE answers == Committed(view)
<1>1. answers = Filtered(view.answers, Kept(view))
  BY DEF Committed, Kept
<1>2. view.answers \in Seq(Event) /\ Kept(view) \in SUBSET DOMAIN view.answers
  BY DEF Kept, Typed, Page
<1>3. answers \in Seq(Event)
  BY <1>1, <1>2, FilteredPlaces
<1> HIDE DEF answers
<1>4. IsFiniteSet(DOMAIN answers) /\ Len(answers) \in Nat
  BY <1>3, FS_Interval
<1>5. IsFiniteSet({i \in DOMAIN answers : answers[i].result = "correct"})
  BY <1>4, FS_Subset
<1>6. SummaryOf(answers) \in [reviewed: Nat, correct: Nat]
  BY <1>4, <1>5, FS_CardinalityType DEF SummaryOf
<1> QED BY <1>1, <1>2, <1>3, <1>6 DEF answers

\* The next card, or the summary, or a summary that could not be recorded
LEMMA WentNext ==
  ASSUME Typed, HandleNext
  PROVE  LET answers == Committed(view) IN
         /\ view.status = "active" /\ view.answer # None /\ ~nextLocked
         /\ nextLocked' = TRUE
         /\ UNCHANGED <<view, events, overwrites>>
         /\ ui' \in Page /\ ui'.session = ui.session /\ ui'.questions = ui.questions
         /\ \/ /\ view.index < Len(view.questions)
               /\ ui'.index = ui.index + 1 /\ ui'.status = ui.status
               /\ ui'.selection = None /\ ui'.answer = None
               /\ ui'.answers = ui.answers
               /\ answerLocked' = FALSE
               /\ UNCHANGED <<recorded, packReviewed, pushed>>
            \/ /\ view.index >= Len(view.questions)
               /\ ui'.index = ui.index /\ ui'.selection = ui.selection
               /\ ui'.answer = ui.answer /\ ui'.answers = answers
               /\ ui'.summary = SummaryOf(answers)
               /\ answerLocked' = answerLocked
               /\ \/ ui'.status = ui.status /\ PackNotRecorded(answers)
                  \/ ui'.status = "summary" /\ ShowSummary(answers)
<1> DEFINE answers == Committed(view)
<1>1. ui \in Page /\ view.index \in Nat /\ Len(view.questions) \in Nat
  BY DeckType DEF Typed, Page
<1>2. answers \in Seq(Event) /\ SummaryOf(answers) \in [reviewed: Nat, correct: Nat]
  BY CommittedType
<1>3. /\ view.status = "active" /\ view.answer # None /\ ~nextLocked
      /\ nextLocked' = TRUE
      /\ UNCHANGED <<view, events, overwrites>>
      /\ \/ NextCard
         \/ /\ IsLast(view) /\ UNCHANGED answerLocked
            /\ PackNotRecorded(answers) \/ ShowSummary(answers)
  BY DEF HandleNext, env
<1> HIDE DEF answers
<1>4. CASE NextCard
  <2>1. ui' = [ui EXCEPT !.index = ui.index + 1, !.selection = None,
                         !.confidence = None, !.answer = None, !.error = "none"]
    BY <1>4 DEF NextCard
  <2>2. ui.index + 1 \in Nat \ {0}
    BY <1>1 DEF Page
  <2>3. ui' \in Page
    <3> DEFINE next == ui.index + 1
    <3> HIDE DEF next
    <3>1. next \in Nat \ {0}
      BY <2>2 DEF next
    <3>2. ui' = [ui EXCEPT !.index = next, !.selection = None,
                           !.confidence = None, !.answer = None, !.error = "none"]
      BY <2>1 DEF next
    <3> QED BY <1>1, <3>1, <3>2 DEF Page
  <2> QED BY <1>1, <1>3, <1>4, <2>1, <2>3 DEF NextCard, IsLast, Page
<1>5. CASE PackNotRecorded(answers) /\ IsLast(view) /\ UNCHANGED answerLocked
  BY <1>1, <1>2, <1>3, <1>5 DEF PackNotRecorded, IsLast, Page, answers
<1>6. CASE ShowSummary(answers) /\ IsLast(view) /\ UNCHANGED answerLocked
  <2>1. ui' = [ui EXCEPT !.answers = answers, !.summary = SummaryOf(answers),
                         !.status = "summary"]
    BY <1>6 DEF ShowSummary
  <2>2. ui' \in Page
    BY <1>1, <1>2, <2>1 DEF Page
  <2> QED BY <1>1, <1>3, <1>6, <2>1, <2>2 DEF IsLast, Page, answers
<1> QED BY <1>3, <1>4, <1>5, <1>6

-----------------------------------------------------------------------------
(* Types *)

LEMMA TypedAtFirst == Init => Typed
<1>1. << >> \in Seq(Event) /\ << >> \in Decks
  BY DEF Decks
<1>2. Blank \in Page
  BY <1>1 DEF Blank, Page
<1>3. IsFiniteSet({})
  BY FS_EmptySet
<1> SUFFICES ASSUME Init PROVE Typed
  OBVIOUS
<1>4. ui = Blank /\ view = Blank
  BY DEF Init
<1>5. events = {} /\ recorded = None
  BY DEF Init
<1>6. answerLocked = FALSE /\ nextLocked = FALSE /\ packReviewed = 0 /\ overwrites = 0
  BY DEF Init
<1> QED BY <1>2, <1>3, <1>4, <1>5, <1>6 DEF Typed

LEMMA TypedStays == Typed /\ [Next]_vars => Typed'
<1> SUFFICES ASSUME Typed, [Next]_vars PROVE Typed'
  OBVIOUS
<1>1. CASE UNCHANGED vars
  BY <1>1 DEF vars, env, Typed
<1>2. ASSUME NEW words \in Queues, RouteLoads(words) PROVE Typed'
  BY <1>2, Started DEF RouteLoads, Typed, env
<1>3. ASSUME NEW words \in Queues, ReviewAgain(words) PROVE Typed'
  BY <1>3, Started DEF ReviewAgain, Typed, env
<1>4. CASE Render
  BY <1>4 DEF Render, Typed, env
<1>5. CASE StartReported
  BY <1>5 DEF StartReported, Typed, env
<1>6. ASSUME NEW r \in Results, NEW token \in Tokens, HandleSelect(r, token)
      PROVE  Typed'
  BY <1>6, Selected DEF HandleSelect, Typed, env
<1>7. ASSUME NEW c \in Confidences, CommitPendingAnswer(c) PROVE Typed'
  <2> DEFINE event == EventOf(c)
  <2>1. /\ event \in Event /\ ui' \in Page /\ answerLocked' \in BOOLEAN
        /\ events' = events \/ events' = events \cup {event}
    BY <1>7, Submitted
  <2>2. UNCHANGED <<view, nextLocked, recorded, packReviewed, overwrites>>
    BY <1>7 DEF CommitPendingAnswer, env
  <2> HIDE DEF event
  <2>3. IsFiniteSet(events \cup {event})
    BY FS_AddElement DEF Typed
  <2> QED BY <2>1, <2>2, <2>3 DEF Typed
<1>8. CASE HandleNext
  <2> DEFINE answers == Committed(view)
  <2>1. /\ ui' \in Page /\ nextLocked' = TRUE /\ UNCHANGED <<view, events, overwrites>>
        /\ answerLocked' = FALSE \/ answerLocked' = answerLocked
        /\ \/ UNCHANGED <<recorded, packReviewed>>
           \/ ShowSummary(answers)
    BY <1>8, WentNext DEF PackNotRecorded
  <2>2. answers \in Seq(Event)
    BY CommittedType
  <2> HIDE DEF answers
  <2>3. /\ packReviewed \in Nat /\ recorded \in Nat \cup {None}
        /\ view.session \in Nat /\ Len(answers) \in Nat
    BY <2>2 DEF Typed, Page
  <2>4. packReviewed' \in Nat /\ recorded' \in Nat \cup {None}
    <3>1. CASE UNCHANGED <<recorded, packReviewed>>
      BY <2>3, <3>1
    <3>2. CASE ShowSummary(answers)
      BY <2>3, <3>2 DEF ShowSummary
    <3> QED BY <2>1, <3>1, <3>2
  <2>5. /\ view' \in Page /\ answerLocked' \in BOOLEAN
        /\ events' \subseteq Event /\ IsFiniteSet(events') /\ overwrites' \in Nat
    BY <2>1 DEF Typed
  <2> QED BY <2>1, <2>4, <2>5 DEF Typed
<1>9. CASE StorageFails \/ StorageRecovers
  BY <1>9 DEF StorageFails, StorageRecovers, Typed
<1>10. ASSUME NEW e \in events, OtherTabOverwrites(e) PROVE Typed'
  <2>1. IsFiniteSet(events \ {e})
    BY FS_RemoveElement DEF Typed
  <2> QED BY <1>10, <2>1 DEF OtherTabOverwrites, Typed
<1>11. ASSUME HandleRetryPersistence PROVE Typed'
  <2>1. view.confidence \in Confidences /\ CommitPendingAnswer(view.confidence)
    BY <1>11 DEF HandleRetryPersistence, Typed, Page
  <2> QED BY <1>7, <2>1
<1> QED BY <1>1, <1>2, <1>3, <1>4, <1>5, <1>6, <1>7, <1>8, <1>9, <1>10, <1>11
        DEF Next, Learner, HandleConfidence

-----------------------------------------------------------------------------
(* What is on the screen, what is about to be, and what is stored *)

LEMMA EventNumbers ==
  /\ \A e \in Event : /\ e.eventId[1] \in Nat /\ e.eventId[2] \in Nat
                      /\ e # None
  /\ \A e \in Selection : e.eventId[1] \in Nat /\ e.eventId[2] \in Nat
BY SessionAssumption DEF Event, Selection

LEMMA PageNumbers ==
  ASSUME Typed
  PROVE  /\ ui.session \in Nat /\ ui.index \in Nat \ {0} /\ Len(ui.questions) \in Nat
         /\ view.session \in Nat /\ view.index \in Nat \ {0}
         /\ Len(view.questions) \in Nat
         /\ ui.status \in {"loading", "active", "empty", "summary"}
BY DeckType DEF Typed, Page

LEMMA CardAtFirst == Init => CardInv
BY DEF Init, CardInv, ShowsOneCard, InStep, SameCard, EventsBehind, Blank

\* A session begins: all the events stored so far are of earlier sessions.
LEMMA StartLeavesEvents ==
  ASSUME Typed, CardInv, NEW words \in Queues, StartSession(words), events' = events
  PROVE  /\ EventsBehind' /\ ShowsOneCard(ui)'
         /\ ui'.status = "active" => \A e \in events : ~OnCard(e, ui')
<1>1. /\ ui'.selection = None /\ ui'.answer = None
      /\ \/ ui'.status = "empty" /\ ui'.session = ui.session
         \/ /\ ui'.status = "active" /\ ui'.session = ui.session + 1
            /\ ui'.index = 1 /\ ui'.index <= Len(ui'.questions)
  BY Started
<1>2. \A e \in events : e.eventId[1] \in Nat /\ e.eventId[1] <= ui.session
  BY EventNumbers DEF CardInv, EventsBehind, Typed
<1>3. ui.session \in Nat
  BY PageNumbers
<1>4. EventsBehind'
  BY <1>1, <1>2, <1>3 DEF EventsBehind
<1>5. ShowsOneCard(ui)'
  BY <1>1 DEF ShowsOneCard
<1>6. ui'.status = "active" => \A e \in events : ~OnCard(e, ui')
  BY <1>1, <1>2, <1>3 DEF OnCard
<1> QED BY <1>4, <1>5, <1>6

LEMMA RouteKeepsCard ==
  ASSUME Typed, CardInv, NEW words \in Queues, RouteLoads(words) PROVE CardInv'
<1>1. /\ StartSession(words) /\ events' = events /\ view' = ui'
  BY DEF RouteLoads
<1>2. /\ EventsBehind' /\ ShowsOneCard(ui)'
      /\ ui'.status = "active" => \A e \in events : ~OnCard(e, ui')
      /\ ui'.selection = None /\ ui'.answer = None
  BY <1>1, StartLeavesEvents, Started
<1>3. SameCard'
  BY <1>1, <1>2 DEF SameCard
<1> QED BY <1>1, <1>2, <1>3 DEF CardInv, InStep

LEMMA AgainKeepsCard ==
  ASSUME Typed, CardInv, NEW words \in Queues, ReviewAgain(words) PROVE CardInv'
<1>1. /\ StartSession(words) /\ events' = events /\ view' = view
      /\ view.status = "summary"
  BY DEF ReviewAgain
<1>2. EventsBehind' /\ ShowsOneCard(ui)' /\ ui'.selection = None
  BY <1>1, StartLeavesEvents, Started
<1>3. LeftSummary'
  BY <1>1, <1>2 DEF LeftSummary
<1> QED BY <1>1, <1>2, <1>3 DEF CardInv, InStep

LEMMA RenderKeepsCard == ASSUME Typed, CardInv, Render PROVE CardInv'
<1>1. view' = ui /\ ui' = ui /\ events' = events /\ answerLocked' = answerLocked
  BY DEF Render
<1>2. SameCard'
  <2>1. ui.selection = None => ui.answer = None
    BY DEF CardInv, ShowsOneCard
  <2>2. ui.selection = None /\ ui.status = "active" => \A e \in events : ~OnCard(e, ui)
    BY DEF CardInv, EventsBehind, OnCard
  <2> QED BY <1>1, <2>1, <2>2 DEF SameCard
<1> QED BY <1>1, <1>2 DEF CardInv, InStep, EventsBehind, ShowsOneCard

\* Clicks that need the card of the last render find it in the next one too.
LEMMA OpenCard ==
  ASSUME Typed, CardInv, view.status = "active", view.answer = None
  PROVE  SameCard
BY DEF CardInv, InStep, MovedOn, LeftSummary

LEMMA SelectKeepsCard ==
  ASSUME Typed, CardInv, NEW r \in Results, NEW token \in Tokens,
         HandleSelect(r, token)
  PROVE  CardInv'
<1>1. /\ view' = view /\ events' = events /\ answerLocked' = answerLocked
      /\ nextLocked' = nextLocked
      /\ view.status = "active" /\ view.answer = None /\ view.selection = None
  BY DEF HandleSelect
<1>2. /\ ui'.selection # None
      /\ ui'.selection.eventId[1] = view.session
      /\ ui'.selection.eventId[2] = view.index
      /\ ui'.status = ui.status /\ ui'.questions = ui.questions
      /\ ui'.index = ui.index /\ ui'.session = ui.session /\ ui'.answer = ui.answer
  BY Selected
<1>3. SameCard /\ ui.answer = None /\ ui.status = "active"
      /\ \A e \in events : ~OnCard(e, ui)
  BY <1>1, OpenCard DEF SameCard
<1>4. ShowsOneCard(ui)'
  BY <1>1, <1>2, <1>3 DEF CardInv, ShowsOneCard, OnCard, SameCard
<1>5. SameCard'
  BY <1>1, <1>2, <1>3 DEF SameCard, OnCard
<1>6. EventsBehind'
  BY <1>1, <1>2, <1>3 DEF CardInv, EventsBehind, OnCard
<1> QED BY <1>1, <1>4, <1>5, <1>6 DEF CardInv, InStep

\* The card that is submitted is on the screen, selected and not answered.
LEMMA SubmitsOpenCard ==
  ASSUME Typed, CardInv, NEW c \in Confidences, CommitPendingAnswer(c),
         view.status = "active"
  PROVE  /\ view.answer = None /\ view.selection # None /\ ~answerLocked
         /\ UNCHANGED <<view, nextLocked, recorded, packReviewed, overwrites>>
         /\ SameCard /\ ui.answer = None /\ ui.selection = view.selection
         /\ ui.status = "active" /\ OnCard(EventOf(c), ui)
         /\ EventOf(c).eventId = ui.selection.eventId
         /\ EventOf(c).result = ui.selection.result
<1>1. /\ view.answer = None /\ view.selection # None /\ ~answerLocked
      /\ UNCHANGED <<view, nextLocked, recorded, packReviewed, overwrites>>
  BY DEF CommitPendingAnswer, env
<1>2. SameCard
  BY <1>1, OpenCard
<1>3. ui.answer = None /\ ui.selection = view.selection /\ ui.status = "active"
  BY <1>1, <1>2 DEF SameCard
<1>4. /\ EventOf(c).eventId = ui.selection.eventId
      /\ EventOf(c).result = ui.selection.result
  BY <1>1, <1>3, EventOfType
<1>5. OnCard(EventOf(c), ui)
  BY <1>1, <1>3, <1>4 DEF CardInv, ShowsOneCard, OnCard
<1> QED BY <1>1, <1>2, <1>3, <1>4, <1>5

LEMMA SubmitKeepsCard ==
  ASSUME Typed, CardInv, NEW c \in Confidences, CommitPendingAnswer(c),
         view.status = "active"
  PROVE  CardInv'
<1> DEFINE event == EventOf(c)
<1>1. /\ view.answer = None /\ view.selection # None
      /\ view' = view /\ nextLocked' = nextLocked
      /\ SameCard /\ ui.answer = None /\ ui.selection = view.selection
      /\ ui.status = "active" /\ OnCard(event, ui)
      /\ event.eventId = ui.selection.eventId /\ event.result = ui.selection.result
  BY SubmitsOpenCard
<1>2. /\ event # None
      /\ ui'.status = ui.status /\ ui'.questions = ui.questions
      /\ ui'.index = ui.index /\ ui'.session = ui.session
      /\ ui'.selection = ui.selection
      /\ events' = events \/ events' = events \cup {event}
      /\ \/ answerLocked' = TRUE /\ ui'.answer = event
         \/ ui'.answer = ui.answer
  BY Submitted
<1> HIDE DEF event
<1>3. ShowsOneCard(ui)'
  BY <1>1, <1>2 DEF CardInv, ShowsOneCard, OnCard
<1>4. SameCard'
  BY <1>1, <1>2 DEF SameCard
<1>5. EventsBehind'
  <2>1. ui.session \in Nat /\ ui.index \in Nat
    BY PageNumbers
  <2> QED BY <1>1, <1>2, <2>1 DEF CardInv, EventsBehind, OnCard
<1> QED BY <1>1, <1>3, <1>4, <1>5 DEF CardInv, InStep

\* Next is answered only on the state that is on the screen.
LEMMA NextOnScreen ==
  ASSUME Typed, CardInv, HandleNext PROVE ui = view /\ SameCard
BY WentNext DEF CardInv, InStep, SameCard, MovedOn, LeftSummary

LEMMA NextKeepsCard == ASSUME Typed, CardInv, HandleNext PROVE CardInv'
<1>1. ui = view /\ SameCard
  BY NextOnScreen
<1>2. /\ view.status = "active" /\ view.answer # None
      /\ nextLocked' = TRUE /\ view' = view /\ events' = events
      /\ ui'.session = ui.session /\ ui'.questions = ui.questions
      /\ \/ /\ view.index < Len(view.questions)
            /\ ui'.index = ui.index + 1 /\ ui'.status = ui.status
            /\ ui'.selection = None /\ ui'.answer = None
         \/ /\ view.index >= Len(view.questions)
            /\ ui'.index = ui.index /\ ui'.selection = ui.selection
            /\ ui'.answer = ui.answer
            /\ ui'.status = ui.status \/ ui'.status = "summary"
  BY WentNext
<1>3. /\ ui.session \in Nat /\ ui.index \in Nat \ {0} /\ Len(ui.questions) \in Nat
      /\ \A e \in events : e.eventId[2] \in Nat
  BY PageNumbers, EventNumbers DEF Typed
<1>4. ShowsOneCard(ui)'
  BY <1>1, <1>2, <1>3 DEF CardInv, ShowsOneCard, OnCard
<1>5. InStep'
  <2>1. CASE ui'.status = ui.status /\ ui'.index = ui.index
    <3>1. SameCard'
      BY <1>1, <1>2, <1>3, <2>1 DEF SameCard, CardInv, ShowsOneCard
    <3> QED BY <3>1 DEF InStep
  <2>2. CASE ~(ui'.status = ui.status /\ ui'.index = ui.index)
    <3>1. MovedOn'
      BY <1>1, <1>2, <2>2 DEF MovedOn
    <3> QED BY <3>1 DEF InStep
  <2> QED BY <2>1, <2>2
<1>6. EventsBehind'
  BY <1>1, <1>2, <1>3 DEF CardInv, EventsBehind
<1> QED BY <1>2, <1>4, <1>5, <1>6 DEF CardInv, ShowsOneCard, OnCard

LEMMA CardStays == Typed /\ CardInv /\ [Next]_vars => CardInv'
<1> SUFFICES ASSUME Typed, CardInv, [Next]_vars PROVE CardInv'
  OBVIOUS
<1>1. ASSUME UNCHANGED <<ui, view, answerLocked, nextLocked>>, events' \subseteq events
      PROVE  CardInv'
  BY <1>1 DEF CardInv, ShowsOneCard, InStep, SameCard, MovedOn, LeftSummary,
              EventsBehind, OnCard
<1>2. CASE UNCHANGED vars \/ StartReported \/ StorageFails \/ StorageRecovers
  BY <1>1, <1>2 DEF vars, StartReported, StorageFails, StorageRecovers
<1>3. ASSUME NEW e \in events, OtherTabOverwrites(e) PROVE CardInv'
  BY <1>1, <1>3 DEF OtherTabOverwrites
<1>4. ASSUME HandleRetryPersistence PROVE CardInv'
  <2>1. /\ view.confidence \in Confidences /\ CommitPendingAnswer(view.confidence)
        /\ view.status = "active"
    BY <1>4 DEF HandleRetryPersistence, Typed, Page
  <2> QED BY <2>1, SubmitKeepsCard
<1>5. ASSUME NEW c \in Confidences, HandleConfidence(c) PROVE CardInv'
  BY <1>5, SubmitKeepsCard DEF HandleConfidence
<1> QED BY <1>2, <1>3, <1>4, <1>5, RouteKeepsCard, AgainKeepsCard, RenderKeepsCard,
           SelectKeepsCard, NextKeepsCard DEF Next, Learner

-----------------------------------------------------------------------------
(* The answers on the page and the events in the log *)

LEMMA AnswersAtFirst == Init => AnswerInv
BY DEF Init, AnswerInv, OneEventPerCard, Listed, AnswersStored, NoCardSkipped,
       FeedbackMeansSaved, Blank

LEMMA StartKeepsAnswers ==
  ASSUME Typed, CardInv, AnswerInv, NEW words \in Queues, StartSession(words),
         UNCHANGED <<events, overwrites>>
  PROVE  AnswerInv'
<1>1. /\ ui'.answer = None /\ ui'.answers = << >>
      /\ \/ ui'.status = "empty"
         \/ /\ ui'.status = "active" /\ ui'.session = ui.session + 1 /\ ui'.index = 1
  BY Started
<1>2. \A e \in events : e.eventId[1] \in Nat /\ e.eventId[1] <= ui.session
  BY EventNumbers DEF CardInv, EventsBehind, Typed
<1>3. ui.session \in Nat
  BY PageNumbers
<1>4. Listed' /\ AnswersStored'
  BY <1>1, <1>2, <1>3 DEF Listed, AnswersStored
<1>5. NoCardSkipped'
  BY <1>1 DEF NoCardSkipped
<1>6. FeedbackMeansSaved' /\ OneEventPerCard'
  BY <1>1 DEF AnswerInv, FeedbackMeansSaved, OneEventPerCard
<1> QED BY <1>4, <1>5, <1>6 DEF AnswerInv

\* What does not touch the answers may only take events away, and says so.
LEMMA LookingKeepsAnswers ==
  ASSUME AnswerInv, overwrites \in Nat,
         ui'.status = ui.status, ui'.index = ui.index, ui'.session = ui.session,
         ui'.questions = ui.questions, ui'.answer = ui.answer,
         ui'.answers = ui.answers, events' \subseteq events,
         UNCHANGED <<events, overwrites>> \/ overwrites' = overwrites + 1
  PROVE  AnswerInv'
<1>1. OneEventPerCard' /\ Listed' /\ AnswersStored' /\ FeedbackMeansSaved'
  BY DEF AnswerInv, OneEventPerCard, Listed, AnswersStored, FeedbackMeansSaved
<1>2. NoCardSkipped'
  BY DEF AnswerInv, NoCardSkipped
<1> QED BY <1>1, <1>2 DEF AnswerInv

\* An answer that is saved joins the answers of the page: its card had none.
LEMMA SubmitKeepsAnswers ==
  ASSUME Typed, CardInv, AnswerInv, NEW c \in Confidences, CommitPendingAnswer(c),
         view.status = "active"
  PROVE  AnswerInv'
<1> DEFINE event == EventOf(c)
<1>1. /\ overwrites' = overwrites /\ ui.answer = None /\ ui.status = "active"
      /\ OnCard(event, ui) /\ event.eventId = ui.selection.eventId
  BY SubmitsOpenCard
<1>2. /\ event \in Event /\ event # None
      /\ ui'.status = ui.status /\ ui'.questions = ui.questions
      /\ ui'.index = ui.index /\ ui'.session = ui.session
      /\ \/ events' = events
         \/ events' = events \cup {event} /\ StoredAs(event.eventId) = {}
      /\ \/ /\ event \in events' /\ ui'.answer = event
            /\ ui'.answers = IF \E i \in DOMAIN ui.answers :
                                  ui.answers[i].eventId = event.eventId
                             THEN ui.answers ELSE Append(ui.answers, event)
         \/ ui'.answer = ui.answer /\ ui'.answers = ui.answers
  BY Submitted
<1> HIDE DEF event
<1>3. ui.index \in Nat \ {0} /\ ui.session \in Nat /\ ui.answers \in Seq(Event)
  BY PageNumbers DEF Typed, Page
<1>4. ~\E i \in DOMAIN ui.answers : ui.answers[i].eventId = event.eventId
  BY <1>1 DEF AnswerInv, Listed, OnCard
<1>5. \A e \in events : OnCard(e, ui) => e.eventId = event.eventId
  BY <1>1 DEF CardInv, EventsBehind, OnCard
<1>6. OneEventPerCard'
  <2>1. CASE events' = events
    BY <2>1 DEF AnswerInv, OneEventPerCard
  <2>2. CASE events' = events \cup {event} /\ StoredAs(event.eventId) = {}
    <3>1. \A e \in events : ~OnCard(e, ui)
      BY <1>5, <2>2 DEF StoredAs
    <3> QED BY <1>1, <2>2, <3>1 DEF AnswerInv, OneEventPerCard, OnCard
  <2> QED BY <1>2, <2>1, <2>2
<1>7. CASE ui'.answer = ui.answer /\ ui'.answers = ui.answers
  <2>1. Listed'
    <3>1. ASSUME NEW e \in events', e.eventId[1] = ui.session,
                 e.eventId[2] = ui.index => ui.answer # None
          PROVE  \E i \in DOMAIN ui.answers : ui.answers[i] = e
      <4>1. e # event
        BY <1>1, <3>1 DEF OnCard
      <4> QED BY <1>1, <1>2, <3>1, <4>1 DEF AnswerInv, Listed
    <3> QED BY <1>1, <1>2, <1>7, <3>1 DEF AnswerInv, Listed
  <2>2. AnswersStored'
    BY <1>1, <1>2, <1>7 DEF AnswerInv, AnswersStored
  <2>3. NoCardSkipped'
    BY <1>1, <1>2, <1>7 DEF AnswerInv, NoCardSkipped
  <2>4. FeedbackMeansSaved'
    BY <1>1, <1>7 DEF FeedbackMeansSaved
  <2> QED BY <1>6, <2>1, <2>2, <2>3, <2>4 DEF AnswerInv
<1>8. CASE /\ event \in events' /\ ui'.answer = event
           /\ ui'.answers = Append(ui.answers, event)
  <2> DEFINE n == Len(ui.answers)
             longer == Append(ui.answers, event)
  <2>1. /\ DOMAIN longer = 1..(n + 1) /\ DOMAIN ui.answers = 1..n /\ n \in Nat
        /\ longer[n + 1] = event /\ Len(longer) = n + 1
        /\ \A i \in 1..n : longer[i] = ui.answers[i]
    BY <1>2, <1>3
  <2> HIDE DEF n, longer
  <2>2. ui'.answers = longer
    BY <1>8 DEF longer
  <2>3. /\ \A i \in 1..n : /\ ui.answers[i].eventId[1] = ui.session
                           /\ ui.answers[i].eventId[2] <= ui.index
                           /\ ui.answers[i].eventId[2] # ui.index
        /\ \A i, j \in 1..n :
             ui.answers[i].eventId[2] = ui.answers[j].eventId[2] => i = j
        /\ \A e \in events :
             e.eventId[1] = ui.session /\ e.eventId[2] # ui.index =>
               \E i \in 1..n : ui.answers[i] = e
    BY <1>1, <2>1 DEF AnswerInv, Listed
  <2>0. /\ \A i \in 1..(n + 1) : i \in 1..n \/ i = n + 1
        /\ longer[n + 1].eventId[1] = ui.session /\ longer[n + 1].eventId[2] = ui.index
    BY <1>1, <2>1 DEF OnCard
  <2>4. Listed'
    <3>1. ASSUME NEW i \in 1..(n + 1)
          PROVE  longer[i].eventId[1] = ui.session /\ longer[i].eventId[2] <= ui.index
      <4>1. CASE i \in 1..n
        BY <2>1, <2>3, <4>1
      <4>2. CASE i = n + 1
        BY <1>3, <2>0, <4>2
      <4> QED BY <2>0, <4>1, <4>2
    <3>2. ASSUME NEW i \in 1..(n + 1), NEW j \in 1..(n + 1),
                 longer[i].eventId[2] = longer[j].eventId[2]
          PROVE  i = j
      BY <1>1, <2>1, <2>3, <3>2 DEF OnCard
    <3>3. ASSUME NEW e \in events', e.eventId[1] = ui.session
          PROVE  \E i \in 1..(n + 1) : longer[i] = e
      <4>1. CASE e.eventId[2] # ui.index
        <5>1. e \in events
          BY <1>1, <1>2, <4>1 DEF OnCard
        <5> QED BY <2>1, <2>3, <3>3, <4>1, <5>1
      <4>2. CASE e.eventId[2] = ui.index
        <5>1. e = event
          BY <1>1, <1>6, <1>8, <3>3, <4>2 DEF OneEventPerCard, OnCard
        <5> QED BY <2>1, <5>1
      <4> QED BY <4>1, <4>2
    <3>4. /\ ui'.status = ui.status /\ ui'.session = ui.session
          /\ ui'.index = ui.index /\ DOMAIN ui'.answers = 1..(n + 1)
          /\ ui'.answers = longer /\ ui'.answer # None
      BY <1>2, <1>8, <2>1, <2>2
    <3> QED BY <3>1, <3>2, <3>3, <3>4 DEF Listed
  <2>5. AnswersStored'
    BY <1>1, <1>2, <1>8, <2>1, <2>2 DEF AnswerInv, AnswersStored
  <2>6. NoCardSkipped'
    <3>1. overwrites = 0 =>
            /\ n = ui.index - 1
            /\ \A i \in 1..n : ui.answers[i].eventId[1] = ui.session
                               /\ ui.answers[i].eventId[2] = i
      BY <1>1, <2>1 DEF AnswerInv, NoCardSkipped, n
    <3>2. overwrites = 0 =>
            /\ Len(longer) = ui.index
            /\ \A i \in 1..(n + 1) : longer[i].eventId[1] = ui.session
                                     /\ longer[i].eventId[2] = i
      <4> SUFFICES ASSUME overwrites = 0
                   PROVE  /\ n + 1 = ui.index
                          /\ \A i \in 1..(n + 1) : /\ longer[i].eventId[1] = ui.session
                                                  /\ longer[i].eventId[2] = i
        BY <2>1
      <4>1. n + 1 = ui.index
        BY <1>3, <2>1, <3>1
      <4>2. ASSUME NEW i \in 1..n
            PROVE  longer[i].eventId[1] = ui.session /\ longer[i].eventId[2] = i
        BY <2>1, <3>1
      <4> QED BY <2>0, <4>1, <4>2
    <3> QED BY <1>1, <1>2, <1>8, <2>1, <2>2, <3>2 DEF NoCardSkipped
  <2>7. FeedbackMeansSaved'
    BY <1>8 DEF FeedbackMeansSaved
  <2> QED BY <1>6, <2>4, <2>5, <2>6, <2>7 DEF AnswerInv
<1> QED BY <1>2, <1>4, <1>7, <1>8

\* While nothing was overwritten, the committed answers are all the answers.
LEMMA AllCommitted ==
  ASSUME Typed, AnswerInv, ui = view, ui.status = "active", overwrites = 0
  PROVE  Committed(view) = ui.answers
<1>1. ui.answers \in Seq(Event) /\ Committed(view) = Filtered(ui.answers, Kept(ui))
  BY CommittedType
<1>2. \A i \in DOMAIN ui.answers :
        ui.answers[i] \in events /\ ui.answers[i].eventId[1] = ui.session
  BY DEF AnswerInv, AnswersStored, Listed
<1>3. Kept(ui) = DOMAIN ui.answers
  BY <1>2 DEF Kept, StoredAs
<1> QED BY <1>1, <1>3, FilteredWhole

LEMMA NextKeepsAnswers ==
  ASSUME Typed, CardInv, AnswerInv, HandleNext PROVE AnswerInv'
<1> DEFINE answers == Committed(view)
<1>1. ui = view /\ ui.status = "active" /\ ui.answer # None
      /\ events' = events /\ overwrites' = overwrites
  BY NextOnScreen, WentNext
<1>2. /\ ui.index \in Nat \ {0} /\ Len(ui.questions) \in Nat /\ ui.session \in Nat
      /\ \A e \in events : e.eventId[2] \in Nat
      /\ ui.index <= Len(ui.questions)
  BY <1>1, PageNumbers, EventNumbers DEF Typed, CardInv, ShowsOneCard
<1>3. ui.answers \in Seq(Event) /\ \A i \in DOMAIN ui.answers : ui.answers[i] \in Event
  BY DEF Typed, Page
<1>4. CASE /\ ui'.session = ui.session /\ ui'.questions = ui.questions
           /\ ui'.index = ui.index + 1 /\ ui'.status = ui.status
           /\ ui'.answer = None /\ ui'.answers = ui.answers
  <2>1. /\ \A i \in DOMAIN ui.answers :
             /\ ui.answers[i].eventId[1] = ui.session
             /\ ui.answers[i].eventId[2] <= ui.index
             /\ ui.answers[i].eventId[2] \in Nat
        /\ \A i, j \in DOMAIN ui.answers :
             ui.answers[i].eventId[2] = ui.answers[j].eventId[2] => i = j
        /\ \A e \in events :
             e.eventId[1] = ui.session => \E i \in DOMAIN ui.answers : ui.answers[i] = e
    BY <1>1, <1>3, EventNumbers DEF AnswerInv, Listed
  <2>2. Listed'
    BY <1>1, <1>2, <1>4, <2>1 DEF Listed
  <2>3. AnswersStored'
    BY <1>1, <1>4 DEF AnswerInv, AnswersStored
  <2>4. overwrites = 0 =>
          /\ Len(ui.answers) = ui.index
          /\ \A i \in DOMAIN ui.answers :
               ui.answers[i].eventId[1] = ui.session /\ ui.answers[i].eventId[2] = i
    BY <1>1 DEF AnswerInv, NoCardSkipped
  <2>5. NoCardSkipped'
    BY <1>1, <1>2, <1>4, <2>4 DEF NoCardSkipped
  <2>6. FeedbackMeansSaved' /\ OneEventPerCard'
    BY <1>1, <1>4 DEF AnswerInv, FeedbackMeansSaved, OneEventPerCard
  <2> QED BY <2>2, <2>3, <2>5, <2>6 DEF AnswerInv
<1>5. CASE /\ ui'.session = ui.session /\ ui'.questions = ui.questions
           /\ ui.index >= Len(ui.questions)
           /\ ui'.index = ui.index /\ ui'.answer = ui.answer
           /\ ui'.status \in {"active", "summary"} /\ ui'.answers = answers
  <2>1. answers = Filtered(ui.answers, Kept(ui)) /\ Kept(ui) \in SUBSET DOMAIN ui.answers
    BY <1>1, CommittedType
  <2>2. overwrites = 0 => answers = ui.answers
    BY <1>1, AllCommitted
  <2> DEFINE n == Cardinality(Kept(ui))
  <2>3. /\ DOMAIN answers = 1..n
        /\ \E place \in Bijection(1..n, Kept(ui)) :
             \A k \in 1..n : answers[k] = ui.answers[place[k]]
    BY <1>3, <2>1, FilteredPlaces
  <2> HIDE DEF n, answers
  <2>4. PICK place \in Bijection(1..n, Kept(ui)) :
          \A k \in 1..n : answers[k] = ui.answers[place[k]]
    BY <2>3
  <2>5. /\ \A k \in 1..n : place[k] \in DOMAIN ui.answers
        /\ \A k, m \in 1..n : place[k] = place[m] => k = m
        /\ \A i \in Kept(ui) : \E k \in 1..n : place[k] = i
    BY <2>1 DEF Bijection, Injection, Surjection, IsInjective
  <2>6. Listed'
    <3>1. ASSUME NEW k \in 1..n
          PROVE  /\ answers[k].eventId[1] = ui.session
                 /\ answers[k].eventId[2] <= ui.index
      BY <1>1, <2>4, <2>5 DEF AnswerInv, Listed
    <3>2. ASSUME NEW k \in 1..n, NEW m \in 1..n,
                 answers[k].eventId[2] = answers[m].eventId[2]
          PROVE  k = m
      <4>1. place[k] = place[m]
        BY <1>1, <2>4, <2>5, <3>2 DEF AnswerInv, Listed
      <4> QED BY <2>5, <4>1
    <3>3. ASSUME NEW e \in events, e.eventId[1] = ui.session
          PROVE  \E k \in 1..n : answers[k] = e
      <4>1. PICK i \in DOMAIN ui.answers : ui.answers[i] = e
        BY <1>1, <3>3 DEF AnswerInv, Listed
      <4>2. i \in Kept(ui)
        BY <3>3, <4>1 DEF Kept, StoredAs
      <4> QED BY <2>4, <2>5, <4>1, <4>2
    <3> QED BY <1>1, <1>5, <2>3, <3>1, <3>2, <3>3 DEF Listed
  <2>7. AnswersStored'
    BY <1>1, <1>5, <2>2 DEF AnswerInv, AnswersStored
  <2>8. overwrites = 0 =>
          /\ Len(ui.answers) = ui.index
          /\ \A i \in DOMAIN ui.answers :
               ui.answers[i].eventId[1] = ui.session /\ ui.answers[i].eventId[2] = i
    BY <1>1 DEF AnswerInv, NoCardSkipped
  <2>9. NoCardSkipped'
    <3>1. ui.index = Len(ui.questions)
      BY <1>2, <1>5
    <3> QED BY <1>1, <1>5, <2>2, <2>8, <3>1 DEF NoCardSkipped
  <2>10. FeedbackMeansSaved' /\ OneEventPerCard'
    BY <1>1, <1>5 DEF AnswerInv, FeedbackMeansSaved, OneEventPerCard
  <2> QED BY <2>6, <2>7, <2>9, <2>10 DEF AnswerInv
<1> HIDE DEF answers
<1> QED BY <1>1, <1>4, <1>5, WentNext DEF answers

LEMMA AnswersStay == Typed /\ CardInv /\ AnswerInv /\ [Next]_vars => AnswerInv'
<1> SUFFICES ASSUME Typed, CardInv, AnswerInv, [Next]_vars PROVE AnswerInv'
  OBVIOUS
<1>1. overwrites \in Nat
  BY DEF Typed
<1>2. CASE UNCHANGED vars \/ Render \/ StartReported \/ StorageFails \/ StorageRecovers
  <2>1. ui' = ui /\ events' = events /\ overwrites' = overwrites
    BY <1>2 DEF vars, env, Render, StartReported, StorageFails, StorageRecovers
  <2> QED BY <1>1, <2>1, LookingKeepsAnswers
<1>3. ASSUME NEW e \in events, OtherTabOverwrites(e) PROVE AnswerInv'
  <2>1. ui' = ui /\ events' \subseteq events /\ overwrites' = overwrites + 1
    BY <1>3 DEF OtherTabOverwrites
  <2> QED BY <1>1, <2>1, LookingKeepsAnswers
<1>4. ASSUME NEW words \in Queues, RouteLoads(words) \/ ReviewAgain(words)
      PROVE  AnswerInv'
  BY <1>4, StartKeepsAnswers DEF RouteLoads, ReviewAgain, env
<1>5. ASSUME NEW r \in Results, NEW token \in Tokens, HandleSelect(r, token)
      PROVE  AnswerInv'
  <2>1. events' = events /\ overwrites' = overwrites
    BY <1>5 DEF HandleSelect, env
  <2> QED BY <1>1, <1>5, <2>1, Selected, LookingKeepsAnswers
<1>6. ASSUME HandleRetryPersistence PROVE AnswerInv'
  <2>1. /\ view.confidence \in Confidences /\ CommitPendingAnswer(view.confidence)
        /\ view.status = "active"
    BY <1>6 DEF HandleRetryPersistence, Typed, Page
  <2> QED BY <2>1, SubmitKeepsAnswers
<1>7. ASSUME NEW c \in Confidences, HandleConfidence(c) PROVE AnswerInv'
  BY <1>7, SubmitKeepsAnswers DEF HandleConfidence
<1> QED BY <1>2, <1>3, <1>4, <1>5, <1>6, <1>7, NextKeepsAnswers DEF Next, Learner

-----------------------------------------------------------------------------
(* The summary and the pack's progress *)

\* When a card is answered, the committed answers are the session's events.
LEMMA CommittedAreEvents ==
  ASSUME Typed, AnswerInv, ui = view, ui.status = "active", ui.answer # None
  PROVE  LET answers == Committed(view) IN
         /\ Len(answers) = Cardinality(EventsOf(ui.session))
         /\ Cardinality({i \in DOMAIN answers : answers[i].result = "correct"}) =
              Cardinality({e \in EventsOf(ui.session) : e.result = "correct"})
<1> DEFINE answers == Committed(view)
           n == Cardinality(Kept(ui))
           mine == EventsOf(ui.session)
<1>1. /\ answers = Filtered(ui.answers, Kept(ui)) /\ ui.answers \in Seq(Event)
      /\ Kept(ui) \in SUBSET DOMAIN ui.answers
  BY CommittedType
<1>2. /\ n \in Nat /\ answers \in Seq(Event) /\ Len(answers) = n /\ DOMAIN answers = 1..n
      /\ \E place \in Bijection(1..n, Kept(ui)) :
           \A k \in 1..n : answers[k] = ui.answers[place[k]]
  BY <1>1, FilteredPlaces
<1> HIDE DEF answers, n
<1>3. PICK place \in Bijection(1..n, Kept(ui)) :
        \A k \in 1..n : answers[k] = ui.answers[place[k]]
  BY <1>2
<1>4. /\ \A k \in 1..n : place[k] \in Kept(ui) /\ place[k] \in DOMAIN ui.answers
      /\ \A k, m \in 1..n : place[k] = place[m] => k = m
      /\ \A i \in Kept(ui) : \E k \in 1..n : place[k] = i
  BY <1>1 DEF Bijection, Injection, Surjection, IsInjective
<1>5. /\ \A e \in mine : \E i \in DOMAIN ui.answers : ui.answers[i] = e
      /\ \A i, j \in DOMAIN ui.answers :
           ui.answers[i].eventId[2] = ui.answers[j].eventId[2] => i = j
  BY DEF AnswerInv, Listed, EventsOf
<1>6. ASSUME NEW i \in Kept(ui) PROVE ui.answers[i] \in mine
  <2>1. PICK e \in events : e.eventId = ui.answers[i].eventId
    BY DEF Kept, StoredAs
  <2>2. e \in mine
    BY <2>1 DEF Kept, EventsOf
  <2>3. PICK j \in DOMAIN ui.answers : ui.answers[j] = e
    BY <1>5, <2>2
  <2>4. i = j
    BY <1>1, <1>5, <2>1, <2>3
  <2> QED BY <2>2, <2>3, <2>4
<1>7. ASSUME NEW e \in mine PROVE \E k \in 1..n : answers[k] = e
  <2>1. PICK i \in DOMAIN ui.answers : ui.answers[i] = e
    BY <1>5
  <2>2. i \in Kept(ui)
    BY <2>1 DEF Kept, StoredAs, EventsOf
  <2> QED BY <1>3, <1>4, <2>1, <2>2
<1>8. /\ \A k \in 1..n : answers[k] \in mine
      /\ \A k, m \in 1..n : answers[k] = answers[m] => k = m
  <2>1. ASSUME NEW k \in 1..n, NEW m \in 1..n, answers[k] = answers[m] PROVE k = m
    <3>1. place[k] = place[m]
      BY <1>3, <1>4, <1>5, <2>1
    <3> QED BY <1>4, <3>1
  <2> QED BY <1>3, <1>4, <1>6, <2>1
<1> HIDE DEF mine
<1>9. n = Cardinality(mine)
  <2> DEFINE each == [k \in 1..n |-> answers[k]]
  <2>1. each \in Bijection(1..n, mine)
    BY <1>7, <1>8 DEF Bijection, Injection, Surjection, IsInjective
  <2>2. IsFiniteSet(1..n) /\ Cardinality(1..n) = n /\ ExistsBijection(1..n, mine)
    BY <1>2, <2>1, FS_Interval DEF ExistsBijection
  <2> QED BY <2>2, FS_Bijection
<1>10. Cardinality({k \in 1..n : answers[k].result = "correct"}) =
         Cardinality({e \in mine : e.result = "correct"})
  <2> DEFINE right == {k \in 1..n : answers[k].result = "correct"}
             rightEvents == {e \in mine : e.result = "correct"}
             each == [k \in right |-> answers[k]]
  <2>1. each \in Bijection(right, rightEvents)
    BY <1>7, <1>8 DEF Bijection, Injection, Surjection, IsInjective
  <2>2. right \subseteq 1..n
    OBVIOUS
  <2>3. IsFiniteSet(1..n)
    BY <1>2, FS_Interval
  <2> HIDE DEF right, rightEvents
  <2>4. IsFiniteSet(right) /\ ExistsBijection(right, rightEvents)
    BY <2>1, <2>2, <2>3, FS_Subset DEF ExistsBijection
  <2>5. Cardinality(right) = Cardinality(rightEvents)
    BY <2>4, FS_Bijection
  <2> QED BY <2>5 DEF right, rightEvents
<1> QED BY <1>2, <1>9, <1>10 DEF answers, mine

LEMMA SummaryStep ==
  ASSUME Typed, CardInv, AnswerInv, [Next]_vars,
         ui.status = "active", ui'.status = "summary"
  PROVE  /\ ui'.summary.reviewed = Cardinality(EventsOf(ui.session))
         /\ ui'.summary.correct =
              Cardinality({e \in EventsOf(ui.session) : e.result = "correct"})
<1>1. CASE HandleNext
  <2>1. ui = view /\ ui.answer # None /\ ui'.summary = SummaryOf(Committed(view))
    BY <1>1, NextOnScreen, WentNext
  <2>2. /\ Len(Committed(view)) = Cardinality(EventsOf(ui.session))
        /\ Cardinality({i \in DOMAIN Committed(view) :
                          Committed(view)[i].result = "correct"}) =
             Cardinality({e \in EventsOf(ui.session) : e.result = "correct"})
    BY <2>1, CommittedAreEvents
  <2> QED BY <2>1, <2>2 DEF SummaryOf
<1>2. ASSUME UNCHANGED ui PROVE FALSE
  BY <1>2
<1>3. ASSUME NEW words \in Queues, RouteLoads(words) \/ ReviewAgain(words) PROVE FALSE
  BY <1>3, Started DEF RouteLoads, ReviewAgain
<1>4. ASSUME NEW r \in Results, NEW token \in Tokens, HandleSelect(r, token)
      PROVE  FALSE
  BY <1>4, Selected
<1>5. ASSUME NEW c \in Confidences, CommitPendingAnswer(c) PROVE FALSE
  BY <1>5, Submitted
<1>6. ASSUME HandleRetryPersistence PROVE FALSE
  <2>1. view.confidence \in Confidences /\ CommitPendingAnswer(view.confidence)
    BY <1>6 DEF HandleRetryPersistence, Typed, Page
  <2> QED BY <1>5, <2>1
<1> QED BY <1>1, <1>2, <1>3, <1>4, <1>5, <1>6
        DEF Next, Learner, HandleConfidence, Render, StartReported, StorageFails,
            StorageRecovers, OtherTabOverwrites, vars

\* The stored events of the sessions that were completed
Completed == {e \in events : <<"complete", e.eventId[1]>> \in pushed}

LEMMA CompleteAtFirst == Init => CompleteInv
<1>1. Init => {e \in events : <<"complete", e.eventId[1]>> \in pushed} = {}
  BY DEF Init
<1>2. Cardinality({}) = 0
  BY FS_EmptySet
<1>3. Init => PackCountsReviews
  BY <1>1, <1>2 DEF Init, PackCountsReviews
<1> QED BY <1>3 DEF Init, CompleteInv, Blank

\* What counts no session and completes none
LEMMA NothingCompleted ==
  ASSUME Typed, CompleteInv, Completed' = Completed,
         packReviewed' = packReviewed,
         \A s : <<"complete", s>> \in pushed' => <<"complete", s>> \in pushed,
         overwrites' = overwrites,
         \/ ui'.session = ui.session /\ ui'.status = ui.status /\ recorded' = recorded
         \/ /\ recorded' = None
            /\ \/ ui'.session = ui.session /\ ui'.status = "empty"
               \/ ui'.session = ui.session + 1
  PROVE  CompleteInv'
<1>1. PackCountsReviews'
  BY DEF CompleteInv, PackCountsReviews, Completed
<1>2. ui.session \in Nat
  BY PageNumbers
<1>3. ASSUME NEW s \in Nat, <<"complete", s>> \in pushed'
      PROVE  s < ui'.session \/ (s = ui'.session /\ ui'.status # "active")
  BY <1>2, <1>3 DEF CompleteInv
<1>4. ui'.status = "active" => recorded' = None
  BY DEF CompleteInv
<1> QED BY <1>1, <1>3, <1>4 DEF CompleteInv

LEMMA SubmitCompletesNothing ==
  ASSUME Typed, CardInv, CompleteInv, NEW c \in Confidences, CommitPendingAnswer(c),
         view.status = "active"
  PROVE  CompleteInv'
<1> DEFINE event == EventOf(c)
<1>1. /\ UNCHANGED <<recorded, packReviewed, overwrites>>
      /\ ui.status = "active" /\ OnCard(event, ui)
  BY SubmitsOpenCard
<1>2. /\ ui'.status = ui.status /\ ui'.session = ui.session
      /\ events' = events \/ events' = events \cup {event}
      /\ pushed' = pushed \/ pushed' = pushed \cup {<<"answer", event.eventId>>}
  BY Submitted
<1> HIDE DEF event
<1>3. \A s : <<"complete", s>> \in pushed' <=> <<"complete", s>> \in pushed
  BY <1>2
<1>4. <<"complete", event.eventId[1]>> \notin pushed
  <2>1. ui.session \in Nat
    BY PageNumbers
  <2> QED BY <1>1, <2>1 DEF CompleteInv, OnCard
<1>5. Completed' = Completed
  BY <1>2, <1>3, <1>4 DEF Completed
<1> QED BY <1>1, <1>2, <1>3, <1>5, NothingCompleted

\* A completed session adds its events to those its pack has counted.
LEMMA SummaryCounts ==
  ASSUME Typed, CardInv, AnswerInv, CompleteInv, HandleNext,
         ui'.status = "summary", ShowSummary(Committed(view))
  PROVE  CompleteInv'
<1> DEFINE answers == Committed(view)
           mine == EventsOf(ui.session)
<1>1. /\ ui = view /\ ui.status = "active" /\ ui.answer # None
      /\ events' = events /\ overwrites' = overwrites
      /\ ui'.session = ui.session /\ ui.index >= Len(ui.questions)
  BY NextOnScreen, WentNext, PageNumbers
<1>2. ui.session \in Nat /\ ui.index \in Nat /\ Len(ui.questions) \in Nat
  BY PageNumbers
<1>3. \A s \in Nat : <<"complete", s>> \in pushed => s < ui.session
  BY <1>1 DEF CompleteInv
<1>4. pushed' = pushed \/ pushed' = pushed \cup {<<"complete", ui.session>>}
  BY <1>1 DEF ShowSummary
<1>5. ASSUME NEW s \in Nat, <<"complete", s>> \in pushed'
      PROVE  s < ui'.session \/ (s = ui'.session /\ ui'.status # "active")
  BY <1>1, <1>3, <1>4, <1>5
<1>6. ASSUME IsPack, overwrites = 0
      PROVE  packReviewed' = Cardinality(Completed')
  <2>1. recorded = None /\ ui.session # None
    BY <1>1, <1>2, SessionAssumption DEF CompleteInv
  <2>2. /\ packReviewed' = packReviewed + Len(answers)
        /\ pushed' = IF Len(answers) = Len(ui.questions)
                     THEN pushed \cup {<<"complete", ui.session>>} ELSE pushed
    BY <1>1, <1>6, <2>1 DEF ShowSummary
  <2>3. answers = ui.answers
    BY <1>1, <1>6, AllCommitted
  <2>4. Len(answers) = Len(ui.questions)
    <3>1. Len(ui.answers) = ui.index
      BY <1>1, <1>6 DEF AnswerInv, NoCardSkipped
    <3>2. ui.index <= Len(ui.questions)
      BY <1>1 DEF CardInv, ShowsOneCard
    <3> QED BY <1>1, <1>2, <2>3, <3>1, <3>2
  <2>5. Len(answers) = Cardinality(mine)
    BY <1>1, CommittedAreEvents
  <2>6. packReviewed = Cardinality(Completed)
    BY <1>6 DEF CompleteInv, PackCountsReviews, Completed
  <2> HIDE DEF answers
  <2>7. Completed' = Completed \cup mine
    BY <1>1, <2>2, <2>4 DEF Completed, EventsOf
  <2>8. Completed \cap mine = {}
    BY <1>2, <1>3 DEF Completed, EventsOf
  <2>9. IsFiniteSet(Completed) /\ IsFiniteSet(mine)
    <3>1. Completed \in SUBSET events /\ mine \in SUBSET events
      BY DEF Completed, EventsOf
    <3> QED BY <3>1, FS_Subset DEF Typed
  <2> HIDE DEF mine
  <2>10. Cardinality(Completed \cup mine) = Cardinality(Completed) + Cardinality(mine)
    <3>1. /\ Cardinality(Completed) \in Nat /\ Cardinality(mine) \in Nat
          /\ Cardinality(Completed \cap mine) = 0
      BY <2>8, <2>9, FS_CardinalityType, FS_EmptySet
    <3>2. Cardinality(Completed \cup mine) =
            Cardinality(Completed) + Cardinality(mine) - Cardinality(Completed \cap mine)
      BY <2>9, FS_Union
    <3> QED BY <3>1, <3>2
  <2> QED BY <2>2, <2>5, <2>6, <2>7, <2>10
<1>7. PackCountsReviews'
  BY <1>1, <1>6 DEF PackCountsReviews, Completed
<1> QED BY <1>5, <1>7 DEF CompleteInv

LEMMA CompleteStays ==
  Typed /\ CardInv /\ AnswerInv /\ CompleteInv /\ [Next]_vars => CompleteInv'
<1> SUFFICES ASSUME Typed, CardInv, AnswerInv, CompleteInv, [Next]_vars
             PROVE  CompleteInv'
  OBVIOUS
<1>1. CASE UNCHANGED vars \/ Render \/ StorageFails \/ StorageRecovers
  <2>1. UNCHANGED <<ui, recorded, events, packReviewed, pushed, overwrites>>
    BY <1>1 DEF vars, env, Render, StorageFails, StorageRecovers
  <2> QED BY <2>1, NothingCompleted DEF Completed
<1>2. CASE StartReported
  <2>1. /\ UNCHANGED <<ui, recorded, events, packReviewed, overwrites>>
        /\ pushed' = pushed \cup {<<"start", view.session>>}
    BY <1>2 DEF env, StartReported
  <2>2. \A s : <<"complete", s>> \in pushed' <=> <<"complete", s>> \in pushed
    BY <2>1
  <2>3. Completed' = Completed
    BY <2>1, <2>2 DEF Completed
  <2> QED BY <2>1, <2>2, <2>3, NothingCompleted
<1>3. ASSUME NEW words \in Queues, RouteLoads(words) \/ ReviewAgain(words)
      PROVE  CompleteInv'
  <2>1. /\ StartSession(words)
        /\ UNCHANGED <<events, packReviewed, pushed, overwrites>>
    BY <1>3 DEF RouteLoads, ReviewAgain, env
  <2>2. /\ recorded' = None
        /\ \/ ui'.session = ui.session /\ ui'.status = "empty"
           \/ ui'.session = ui.session + 1
    BY <2>1, Started
  <2> QED BY <2>1, <2>2, NothingCompleted DEF Completed
<1>4. ASSUME NEW r \in Results, NEW token \in Tokens, HandleSelect(r, token)
      PROVE  CompleteInv'
  <2>1. /\ UNCHANGED <<recorded, events, packReviewed, pushed, overwrites>>
        /\ ui'.session = ui.session /\ ui'.status = ui.status
    BY <1>4, Selected DEF HandleSelect, env
  <2> QED BY <2>1, NothingCompleted DEF Completed
<1>5. ASSUME HandleRetryPersistence PROVE CompleteInv'
  <2>1. /\ view.confidence \in Confidences /\ CommitPendingAnswer(view.confidence)
        /\ view.status = "active"
    BY <1>5 DEF HandleRetryPersistence, Typed, Page
  <2> QED BY <2>1, SubmitCompletesNothing
<1>6. ASSUME NEW c \in Confidences, HandleConfidence(c) PROVE CompleteInv'
  BY <1>6, SubmitCompletesNothing DEF HandleConfidence
<1>7. CASE HandleNext
  <2>1. CASE ui'.status = "summary" /\ ShowSummary(Committed(view))
    BY <1>7, <2>1, SummaryCounts
  <2>2. CASE ~(ui'.status = "summary" /\ ShowSummary(Committed(view)))
    <3>1. /\ UNCHANGED <<recorded, packReviewed, pushed, events, overwrites>>
          /\ ui'.session = ui.session /\ ui'.status = ui.status
      BY <1>7, <2>2, WentNext DEF PackNotRecorded
    <3> QED BY <3>1, NothingCompleted DEF Completed
  <2> QED BY <2>1, <2>2
<1>8. ASSUME NEW e \in events, OtherTabOverwrites(e) PROVE CompleteInv'
  <2>1. UNCHANGED <<ui, recorded, pushed>> /\ overwrites' = overwrites + 1
    BY <1>8 DEF OtherTabOverwrites
  <2>2. PackCountsReviews'
    BY <2>1 DEF PackCountsReviews, Typed
  <2> QED BY <2>1, <2>2 DEF CompleteInv
<1> QED BY <1>1, <1>2, <1>3, <1>4, <1>5, <1>6, <1>7, <1>8 DEF Next, Learner

-----------------------------------------------------------------------------
(* Theorems *)

LEMMA SessionInvariant == Spec => [](Typed /\ CardInv /\ AnswerInv /\ CompleteInv)
<1>1. Init => Typed /\ CardInv /\ AnswerInv /\ CompleteInv
  BY TypedAtFirst, CardAtFirst, AnswersAtFirst, CompleteAtFirst
<1>2. Typed /\ CardInv /\ AnswerInv /\ CompleteInv /\ [Next]_vars
        => (Typed /\ CardInv /\ AnswerInv /\ CompleteInv)'
  BY TypedStays, CardStays, AnswersStay, CompleteStays
<1> QED BY <1>1, <1>2, PTL DEF Spec

\* However fast the learner clicks, whatever fails, is retried or is overwritten,
\* a card of a session never has two stored events (commitPendingAnswer).
THEOREM CardsLeaveOneEvent == Spec => []OneEventPerCard
<1>1. AnswerInv => OneEventPerCard
  BY DEF AnswerInv
<1> QED BY <1>1, SessionInvariant, PTL

\* The cards before the one on the screen, and all of them in the summary, have
\* their answer, in their order (handleNext behind nextActionLocked).
THEOREM CardsAreNotSkipped == Spec => []NoCardSkipped
<1>1. AnswerInv => NoCardSkipped
  BY DEF AnswerInv
<1> QED BY <1>1, SessionInvariant, PTL

\* The feedback the page shows is of an answer that is stored.
THEOREM FeedbackIsOfSaved == Spec => []FeedbackMeansSaved
<1>1. AnswerInv => FeedbackMeansSaved
  BY DEF AnswerInv
<1> QED BY <1>1, SessionInvariant, PTL

\* A pack's progress counts the stored answers of the completed sessions, once.
THEOREM PackProgressIsExact == Spec => []PackCountsReviews
<1>1. CompleteInv => PackCountsReviews
  BY DEF CompleteInv
<1> QED BY <1>1, SessionInvariant, PTL

\* The summary counts what the log holds of the session when it is built, also
\* when another tab has overwritten some of it (getCommittedSessionAnswers).
THEOREM SummaryIsOfTheLog == Spec => SummaryMatchesLog
<1>1. Typed /\ CardInv /\ AnswerInv /\ [Next]_vars =>
        [ui.status = "active" /\ ui'.status = "summary" =>
           /\ ui'.summary.reviewed = Cardinality(EventsOf(ui.session))
           /\ ui'.summary.correct =
                Cardinality({e \in EventsOf(ui.session) : e.result = "correct"})]_vars
  BY SummaryStep
<1> QED BY <1>1, SessionInvariant, PTL DEF Spec, SummaryMatchesLog
==============================================================================
