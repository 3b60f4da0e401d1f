---------------------------- MODULE ReviewSession ----------------------------
(***************************************************************************)
(* One mounted review page: the session state machine of                    *)
(* src/src/components/views/review-session-view.tsx.                        *)
(*                                                                          *)
(* React runs an event handler on the state of the last render ("view") and *)
(* collects its updates ("ui") until the next render; refs are read and     *)
(* written at once.  Several clicks can come before a render: a handler     *)
(* must not do twice what the learner asked for once.                       *)
(*                                                                          *)
(* Storage keeps the promise of ReviewLog: an answer is stored as a whole,  *)
(* not at all, or, with a fatal error, in part; here a stored answer is the *)
(* event with its eventId.  Another tab may overwrite events, the documented*)
(* limit of the storage.  The pack's progress is a localStorage key of its  *)
(* own (src/src/lib/packs/progress.ts).                                     *)
(***************************************************************************)
EXTENDS Integers, Sequences, FiniteSets

CONSTANTS
  Queues,        \* the words a route may offer: sequences, repetitions included
  SessionLimit,  \* sessionLimit: cards in a session
  IsPack,        \* the route carries a packId
  Tokens,        \* the random part of an eventId
  Confidences,   \* the confidence buttons
  MaxSessions,   \* bound: sessions started in this mounted page
  MaxOutages,    \* bound: how often storage stops accepting writes
  MaxOverwrites, \* bound: how often another tab overwrites an event
  None           \* null

Results == {"correct", "wrong"}

\* The selected option of the card with that index in that session ...
Selection == [eventId: Nat \X Nat \X Tokens, result: Results]

\* ... and, with the learner's confidence, its review event
Event == [eventId: Nat \X Nat \X Tokens, result: Results, confidence: Confidences]

ASSUME SessionAssumption ==
  /\ \A words \in Queues : words \in Seq({words[i] : i \in DOMAIN words})
  /\ SessionLimit \in Nat \ {0}
  /\ IsPack \in BOOLEAN
  /\ MaxSessions \in Nat /\ MaxOutages \in Nat /\ MaxOverwrites \in Nat
  /\ None \notin Nat \cup Confidences \cup Selection \cup Event

VARIABLES
  ui,            \* the state the next render will show
  view,          \* the state of the last render
  answerLocked,  \* answerSubmissionLocked.current
  nextLocked,    \* nextActionLocked.current
  recorded,      \* completionRecordedSessionId.current
  events,        \* the review events stored by this page
  torn,          \* eventIds a fatal error left without their state or statistics
  packReviewed,  \* reviewedCount of the pack's progress
  pushed,        \* the events in the dataLayer: its pushes are deduplicated
  writable,      \* localStorage accepts writes
  outages,       \* how often it stopped to
  overwrites     \* how often another tab overwrote an event

vars == <<ui, view, answerLocked, nextLocked, recorded, events, torn,
          packReviewed, pushed, writable, outages, overwrites>>

env == <<writable, outages, overwrites>>

\* A page before the effect that loads the session has run
Blank == [status |-> "loading", questions |-> << >>, index |-> 1, session |-> 0,
          selection |-> None, confidence |-> None, answer |-> None,
          answers |-> << >>, error |-> "none", summary |-> None]

\* Array.prototype.filter: the elements of s at the positions kept, in order
Filtered(s, kept) ==
  [k \in 1..Cardinality(kept) |->
     s[CHOOSE i \in kept : Cardinality({j \in kept : j <= i}) = k]]

\* dedupeBySlug keeps the first card of a word
DedupeBySlug(words) ==
  Filtered(words, {i \in DOMAIN words : \A j \in 1..(i - 1) : words[j] # words[i]})

Questions(words) ==
  LET kept == DedupeBySlug(words)
  IN SubSeq(kept, 1, IF Len(kept) < SessionLimit THEN Len(kept) ELSE SessionLimit)

IsLast(u) == u.index >= Len(u.questions)

-----------------------------------------------------------------------------
(* startSession and loadLocalSession: on mount, when the route changes, and *)
(* by "Review again" *)

\* mutant of StartSession: the second session gets the id of the first
StartSameSession(words) ==
  /\ ui' = [Blank EXCEPT
       !.status = IF words = << >> THEN "empty" ELSE "active",
       !.questions = Questions(words), !.session = 1]
  /\ answerLocked' = FALSE
  /\ recorded' = None

\* A route without words keeps the index and the session of the page
StartSession(words) ==
  /\ IF words = << >>
     THEN ui' = [Blank EXCEPT !.status = "empty", !.index = ui.index,
                              !.session = ui.session]
     ELSE /\ ui.session < MaxSessions
          /\ ui' = [Blank EXCEPT !.status = "active",
                                 !.questions = Questions(words),
                                 !.session = ui.session + 1]
  /\ answerLocked' = FALSE
  /\ recorded' = None

\* The effect of a mount or of a new route, and the render that follows it
RouteLoads(words) ==
  /\ ui = view
  /\ StartSession(words)
  /\ view' = ui'
  /\ nextLocked' = FALSE
  /\ UNCHANGED <<events, torn, packReviewed, pushed, env>>

\* The button of the summary
ReviewAgain(words) ==
  /\ view.status = "summary"
  /\ StartSession(words)
  /\ nextLocked' = FALSE
  /\ UNCHANGED <<view, events, torn, packReviewed, pushed, env>>

\* React renders; the effect on [currentIndex, status] releases the next lock
Render ==
  /\ view # ui
  /\ view' = ui
  /\ nextLocked' = (nextLocked /\ ui.index = view.index /\ ui.status = view.status)
  /\ UNCHANGED <<ui, answerLocked, recorded, events, torn, packReviewed, pushed,
                 env>>

\* The timer of the reviewStart event
StartReported ==
  /\ view.status = "active"
  /\ <<"start", view.session>> \notin pushed
  /\ pushed' = pushed \cup {<<"start", view.session>>}
  /\ UNCHANGED <<ui, view, answerLocked, nextLocked, recorded, events, torn,
                 packReviewed, env>>

-----------------------------------------------------------------------------
(* Answering a card *)

HandleSelect(result, token) ==
  /\ view.status = "active"
  /\ view.answer = None
  /\ view.selection = None
  /\ ui' = [ui EXCEPT
       !.selection = [eventId |-> <<view.session, view.index, token>>,
                      result |-> result],
       !.confidence = None, !.error = "none"]
  /\ UNCHANGED <<view, answerLocked, nextLocked, recorded, events, torn,
                 packReviewed, pushed, env>>

\* The stored event of the selection the handler sees
EventOf(confidence) ==
  [eventId |-> view.selection.eventId, result |-> view.selection.result,
   confidence |-> confidence]

StoredAs(id) == {e \in events : e.eventId = id}

\* The answer was stored now, or is a replay of the same answer
Saved(event) ==
  /\ events' = events \cup {event}
  /\ answerLocked' = TRUE
  /\ ui' = [ui EXCEPT
       !.confidence = event.confidence, !.error = "none", !.answer = event,
       !.answers = IF \E i \in DOMAIN @ : @[i].eventId = event.eventId
                   THEN @ ELSE Append(@, event)]
  /\ pushed' = pushed \cup {<<"answer", event.eventId>>}

\* mutant of NotSaved: the catch block leaves the submission locked
NotSavedStillLocked(event, kind) ==
  /\ answerLocked' = TRUE
  /\ ui' = [ui EXCEPT !.confidence = event.confidence, !.error = kind]
  /\ UNCHANGED pushed

\* mutant of NotSaved: the page shows the answer before it is saved
NotSavedButShown(event, kind) ==
  /\ answerLocked' = FALSE
  /\ ui' = [ui EXCEPT !.confidence = event.confidence, !.error = kind,
                      !.answer = event]
  /\ UNCHANGED pushed

\* applyReviewAnswer threw: the page keeps the card and offers a retry
NotSaved(event, kind) ==
  /\ answerLocked' = FALSE
  /\ ui' = [ui EXCEPT !.confidence = event.confidence, !.error = kind]
  /\ UNCHANGED pushed

\* A write fails and is rolled back; or the rollback fails as well: it may
\* leave the event, and the event may lack its state or statistics
WriteFails(event) ==
  /\ ~writable
  /\ \/ UNCHANGED <<events, torn>> /\ NotSaved(event, "retryable")
     \/ /\ \/ UNCHANGED <<events, torn>>
           \/ /\ events' = events \cup {event}
              /\ torn' \in {torn, torn \cup {event.eventId}}
        /\ NotSaved(event, "fatal")

\* mutant of CommitPendingAnswer: every attempt has an eventId of its own
CommitWithFreshId(confidence) ==
  \E token \in Tokens :
    LET event == [EventOf(confidence) EXCEPT !.eventId[3] = token] IN
    /\ view.selection # None
    /\ view.answer = None
    /\ ~answerLocked
    /\ \/ writable /\ Saved(event) /\ UNCHANGED torn
       \/ WriteFails(event)
    /\ UNCHANGED <<view, nextLocked, recorded, packReviewed, env>>

CommitPendingAnswer(confidence) ==
  LET event  == EventOf(confidence)
      stored == StoredAs(event.eventId)
      replay == stored = {event} /\ event.eventId \notin torn IN
  /\ view.selection # None
  /\ view.answer = None
  /\ ~answerLocked
  /\ \/ replay /\ Saved(event) /\ UNCHANGED torn
     \/ stored = {} /\ writable /\ Saved(event) /\ UNCHANGED torn
     \/ stored = {} /\ WriteFails(event)
     \/ /\ stored # {} /\ ~replay            \* the duplicate is rejected
        /\ UNCHANGED <<events, torn>>
        /\ NotSaved(event, "retryable")
  /\ UNCHANGED <<view, nextLocked, recorded, packReviewed, env>>

HandleConfidence(confidence) ==
  /\ view.status = "active"
  /\ view.confidence = None
  /\ CommitPendingAnswer(confidence)

HandleRetryPersistence ==
  /\ view.status = "active"
  /\ view.error # "none"
  /\ view.confidence # None
  /\ CommitPendingAnswer(view.confidence)

-----------------------------------------------------------------------------
(* The next card and the summary *)

NextCard ==
  /\ ~IsLast(view)
  /\ ui' = [ui EXCEPT !.index = @ + 1, !.selection = None, !.confidence = None,
                      !.answer = None, !.error = "none"]
  /\ answerLocked' = FALSE
  /\ UNCHANGED <<recorded, packReviewed, pushed>>

\* mutant of Committed: the answers on the screen are taken as stored
AllAnswers(u) == u.answers

\* getCommittedSessionAnswers: the answers whose event is in the log
Committed(u) ==
  LET stored(a) == a.eventId[1] = u.session /\ StoredAs(a.eventId) # {}
  IN Filtered(u.answers, {i \in DOMAIN u.answers : stored(u.answers[i])})

\* buildCompletedSummary
SummaryOf(answers) ==
  [reviewed |-> Len(answers),
   correct |-> Cardinality({i \in DOMAIN answers : answers[i].result = "correct"})]

\* recordPackReviewCompleted throws out of the handler: what it had set so far
\* is rendered, the rest is not done
PackNotRecorded(answers) ==
  /\ IsPack /\ recorded # view.session
  /\ ~writable
  /\ ui' = [ui EXCEPT !.answers = answers, !.summary = SummaryOf(answers)]
  /\ UNCHANGED <<recorded, packReviewed, pushed>>

ShowSummary(answers) ==
  /\ IF IsPack /\ recorded # view.session
     THEN /\ writable
          /\ packReviewed' = packReviewed + Len(answers)
          /\ recorded' = view.session
     ELSE UNCHANGED <<packReviewed, recorded>>
  /\ pushed' = IF Len(answers) = Len(view.questions)
               THEN pushed \cup {<<"complete", view.session>>} ELSE pushed
  /\ ui' = [ui EXCEPT !.answers = answers, !.summary = SummaryOf(answers),
                      !.status = "summary"]

\* mutant of HandleNext: the next action is not locked
HandleNextUnlocked ==
  /\ view.status = "active"
  /\ view.answer # None
  /\ \/ NextCard
     \/ /\ IsLast(view)
        /\ PackNotRecorded(Committed(view)) \/ ShowSummary(Committed(view))
        /\ UNCHANGED answerLocked
  /\ UNCHANGED <<view, nextLocked, events, torn, env>>

HandleNext ==
  /\ view.status = "active"
  /\ view.answer # None
  /\ ~nextLocked
  /\ nextLocked' = TRUE
  /\ \/ NextCard
     \/ /\ IsLast(view)
        /\ PackNotRecorded(Committed(view)) \/ ShowSummary(Committed(view))
        /\ UNCHANGED answerLocked
  /\ UNCHANGED <<view, events, torn, env>>

-----------------------------------------------------------------------------
(* The browser around the page *)

StorageFails ==
  /\ writable /\ outages < MaxOutages
  /\ writable' = FALSE
  /\ outages' = outages + 1
  /\ UNCHANGED <<ui, view, answerLocked, nextLocked, recorded, events, torn,
                 packReviewed, pushed, overwrites>>

StorageRecovers ==
  /\ ~writable
  /\ writable' = TRUE
  /\ UNCHANGED <<ui, view, answerLocked, nextLocked, recorded, events, torn,
                 packReviewed, pushed, outages, overwrites>>

\* A commit of another tab, based on an older snapshot of the log
OtherTabOverwrites(e) ==
  /\ overwrites < MaxOverwrites
  /\ overwrites' = overwrites + 1
  /\ events' = events \ {e}
  /\ UNCHANGED <<ui, view, answerLocked, nextLocked, recorded, torn,
                 packReviewed, pushed, writable, outages>>

Init ==
  /\ ui = Blank
  /\ view = Blank
  /\ answerLocked = FALSE
  /\ nextLocked = FALSE
  /\ recorded = None
  /\ events = {}
  /\ torn = {}
  /\ packReviewed = 0
  /\ pushed = {}
  /\ writable = TRUE
  /\ outages = 0
  /\ overwrites = 0

Learner ==
  \/ \E r \in Results, t \in Tokens : HandleSelect(r, t)
  \/ \E c \in Confidences : HandleConfidence(c)
  \/ HandleRetryPersistence
  \/ HandleNext

Next ==
  \/ \E words \in Queues : RouteLoads(words) \/ ReviewAgain(words)
  \/ Render
  \/ StartReported
  \/ Learner
  \/ StorageFails \/ StorageRecovers
  \/ \E e \in events : OtherTabOverwrites(e)

Spec == Init /\ [][Next]_vars

\* React renders, storage does not refuse for ever, and the learner goes on
\* with the card on the screen
FairSpec ==
  /\ Spec
  /\ WF_vars(Render)
  /\ WF_vars(StorageRecovers)
  /\ WF_vars(\E r \in Results, t \in Tokens : HandleSelect(r, t))
  /\ WF_vars(\E c \in Confidences : HandleConfidence(c))
  /\ WF_vars(HandleRetryPersistence)
  /\ WF_vars(HandleNext)
-----------------------------------------------------------------------------
(* Correctness *)

EventsOf(session) == {e \in events : e.eventId[1] = session}

\* However fast the learner clicks, whatever fails and is retried, a card of a
\* session leaves one stored event at most.
OneEventPerCard ==
  \A e, f \in events :
    (e.eventId[1] = f.eventId[1] /\ e.eventId[2] = f.eventId[2]) => e = f

\* Feedback, and the release of the next card, mean that the answer on the
\* screen is stored (as long as no other tab overwrote it).
FeedbackMeansSaved ==
  ui.answer # None /\ overwrites = 0 => ui.answer \in events

\* The learner never skips a card: all the cards before the one on the screen,
\* and in the summary all of them, have their answer, in their order.
NoCardSkipped ==
  LET done == CASE ui.status = "summary" -> Len(ui.questions)
                [] ui.answer # None -> ui.index
                [] OTHER -> ui.index - 1
  IN ui.status \in {"active", "summary"} /\ overwrites = 0 =>
       /\ Len(ui.answers) = done
       /\ \A i \in DOMAIN ui.answers :
            ui.answers[i].eventId[1] = ui.session /\ ui.answers[i].eventId[2] = i

\* The summary counts what the log holds for the session when it is built: not
\* the answers another tab has overwritten, none twice, none that failed.
SummaryMatchesLog ==
  [][ui.status = "active" /\ ui'.status = "summary" =>
       /\ ui'.summary.reviewed = Cardinality(EventsOf(ui.session))
       /\ ui'.summary.correct =
            Cardinality({e \in EventsOf(ui.session) : e.result = "correct"})]_vars

\* The pack's progress counts the stored answers of the completed sessions,
\* each once.
PackCountsReviews ==
  IsPack /\ overwrites = 0 =>
    packReviewed =
      Cardinality({e \in events : <<"complete", e.eventId[1]>> \in pushed})

\* A fatal error left the event of the card's selection where no retry gets past
\* it: torn, or stored with another confidence than the page now retries with
\* (clicked before the render that would have disabled the button).
CannotBeRetried ==
  /\ ui.selection # None /\ ui.error # "none"
  /\ \E e \in StoredAs(ui.selection.eventId) :
       e.eventId \in torn \/ e.confidence # ui.confidence

\* A learner who goes on reaches the summary: no failure, retry or double click
\* leaves the page with a card that cannot be finished, but the event of a fatal
\* error (the documented need for intervention) that no retry gets past.
SessionEnds ==
  ui.status = "active" ~> (ui.status = "summary" \/ []CannotBeRetried)

\* "Summary renders after the final committed in-memory answer".
SummaryRenders ==
  (ui.status = "active" /\ ui.answer # None /\ IsLast(ui)) ~> ui.status = "summary"
==============================================================================
