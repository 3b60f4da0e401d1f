---------------------------- MODULE ServerSrsSync ----------------------------
(***************************************************************************)
(* src/src/lib/server-srs-sync/spike: the in-memory service that will keep  *)
(* accounts in step with their devices.                                     *)
(*                                                                          *)
(* Devices retry: a write envelope arrives any number of times, early or    *)
(* late, alone or as an item of a queue batch, and after other envelopes    *)
(* have used its key, its word or its eventId.  The service answers every   *)
(* write from the key it carries (processedIdempotencyKeys) and derives     *)
(* review state, daily statistics and pack progress from the accepted       *)
(* events with the engine of SrsEngine.                                     *)
(*                                                                          *)
(* Handlers run to their end; a batch is one handler that runs the others   *)
(* item by item, a step each, with nothing in between.                      *)
(***************************************************************************)
EXTENDS SrsEngine, Sequences, FiniteSets, SequencesExt

CONSTANTS
  Users, Words, Packs,
  Envelopes,  \* the single writes that may arrive
  Batches,    \* the sync_pending_local_queue envelopes that may arrive
  None        \* an absent row, key, user or pack

VARIABLES
  savedWords,    \* saved rows, by user and slug
  reviewState,   \* review state, by user and slug
  reviewEvents,  \* the accepted events, in the order of serverSequence
  dailyStats,    \* daily statistics, by user and date
  packProgress,  \* pack progress, by user and pack
  processed,     \* processedIdempotencyKeys
  syncVersion,   \* the sync cursor
  batch,         \* the batch whose items are being processed
  reply          \* the last response, and the envelope it answers

account == <<savedWords, reviewState, reviewEvents, dailyStats, packProgress>>
vars == <<account, processed, syncVersion, batch, reply>>

\* A queued item without a user is its sender's
OfSender(item, b) == [item.write EXCEPT !.user = b.user]

Queued == UNION {Range(b.items) : b \in Batches}
Writes == Envelopes \cup {i.write : i \in Queued}
         \cup {OfSender(i, b) : i \in Queued, b \in Batches}
Keys   == {m.key : m \in Writes \cup Batches} \ {None}
Events == {m \in Writes : m.operation = "submit_review_event"}
Dates  == {DateOf(m.answer.createdAt) : m \in Events}

\* The envelopes are records with the fields their operation needs, and no
\* write passes for a batch.
ASSUME EnvelopesAssumption ==
  /\ \A m \in Writes \cup Batches :
       /\ {"key", "user", "operation"} \subseteq DOMAIN m
       /\ m = [f \in DOMAIN m |-> m[f]]
       /\ m.user \in Users \cup {None}
  /\ \A m \in Writes :
       CASE m.operation = "save_word" -> m.slug \in Words /\ m.savedAt \in Nat
         [] m.operation = "archive_word" -> m.slug \in Words /\ m.archivedAt \in Nat
         [] m.operation = "submit_review_event" ->
              /\ EngineAnswer(m.answer) /\ m.answer.slug \in Words
              /\ m.pack \in Packs \cup {None}
         [] OTHER -> m.operation = "unsupported"
  /\ \A b \in Batches :
       b.operation = "sync_pending_local_queue" /\ b.items \in Seq(Queued)

-----------------------------------------------------------------------------
(* Responses and the keys that remember them *)

Ok(state, cursor, duplicateOf) ==
  [status |-> "ok", state |-> state, cursor |-> cursor,
   duplicateOf |-> duplicateOf, results |-> << >>]

Error(code) == [status |-> code, state |-> None, cursor |-> None,
                duplicateOf |-> None, results |-> << >>]

\* createIdempotencyPayloadFingerprint: all but the key
Fingerprint(m) == [m EXCEPT !.key = None]

\* rememberResponse
Remember(m, response) ==
  /\ processed' = [processed EXCEPT ![m.key] =
       [fingerprint |-> Fingerprint(m), response |-> response]]
  /\ reply' = [to |-> m, response |-> response]

\* validateWriteEnvelope
IsIncomplete(m) == m.key = None \/ m.user = None

RejectIncomplete(m) ==
  /\ IsIncomplete(m)
  /\ reply' = [to |-> m, response |-> Error(IF m.key = None
                 THEN "validation_error" ELSE "unauthenticated")]
  /\ UNCHANGED <<account, processed, syncVersion>>

\* mutant of IsNew: only accepted writes are remembered
IsNotAccepted(m) ==
  /\ ~IsIncomplete(m)
  /\ processed[m.key] # None => processed[m.key].response.status # "ok"

\* mutant of IsNew: the key is not looked up
IsComplete(m) == ~IsIncomplete(m)

IsNew(m) == ~IsIncomplete(m) /\ processed[m.key] = None

\* getProcessedResponse
AnswerFromKey(m) ==
  /\ ~IsIncomplete(m)
  /\ processed[m.key] # None
  /\ reply' = [to |-> m, response |->
       IF processed[m.key].fingerprint = Fingerprint(m)
       THEN [processed[m.key].response EXCEPT !.duplicateOf = m.key]
       ELSE Error("idempotency_conflict")]
  /\ UNCHANGED <<account, processed, syncVersion>>

\* A write the service cannot carry out: the refusal is remembered as well
Refuse(m) ==
  /\ IsNew(m)
  /\ Remember(m, Error("validation_error"))
  /\ UNCHANGED <<account, syncVersion>>

-----------------------------------------------------------------------------
(* saveWord and archiveWord *)

IsActive(at) == savedWords[at] # None /\ savedWords[at].active

\* toServerSavedWord
SavedRow(existing, m) ==
  [active |-> TRUE, archivedAt |-> None, lastSavedAt |-> m.savedAt,
   saves |-> IF existing = None THEN <<m.savedAt>>
             ELSE Append(existing.saves, m.savedAt),
   version |-> IF existing = None THEN 1 ELSE existing.version + 1]

\* mutant of SaveWord: the cursor advances for duplicates too
SaveWordAlwaysAdvances(m) ==
  LET at   == <<m.user, m.slug>>
      item == IF reviewState[at] = None THEN NewItem(m.savedAt)
              ELSE reviewState[at] IN
  /\ IsNew(m) /\ m.valid
  /\ savedWords' = IF IsActive(at) THEN savedWords
                   ELSE [savedWords EXCEPT ![at] = SavedRow(@, m)]
  /\ reviewState' = [reviewState EXCEPT ![at] = item]
  /\ syncVersion' = syncVersion + 1
  /\ Remember(m, Ok(item, syncVersion', None))
  /\ UNCHANGED <<reviewEvents, dailyStats, packProgress>>

\* mutant of SaveWord: saving again starts the word from the beginning
SaveWordResets(m) ==
  LET at == <<m.user, m.slug>> IN
  /\ IsNew(m) /\ m.valid
  /\ savedWords' = IF IsActive(at) THEN savedWords
                   ELSE [savedWords EXCEPT ![at] = SavedRow(@, m)]
  /\ reviewState' = [reviewState EXCEPT ![at] =
       IF IsActive(at) THEN @ ELSE NewItem(m.savedAt)]
  /\ syncVersion' = IF IsActive(at) THEN syncVersion ELSE syncVersion + 1
  /\ Remember(m, Ok(reviewState'[at], syncVersion', None))
  /\ UNCHANGED <<reviewEvents, dailyStats, packProgress>>

SaveWord(m) ==
  LET at   == <<m.user, m.slug>>
      item == IF reviewState[at] = None THEN NewItem(m.savedAt)
              ELSE reviewState[at] IN
  /\ IsNew(m) /\ m.valid
  /\ savedWords' = IF IsActive(at) THEN savedWords
                   ELSE [savedWords EXCEPT ![at] = SavedRow(@, m)]
  /\ reviewState' = [reviewState EXCEPT ![at] = item]
  /\ syncVersion' = IF IsActive(at) /\ reviewState[at] # None
                    THEN syncVersion ELSE syncVersion + 1
  /\ Remember(m, Ok(item, syncVersion', None))
  /\ UNCHANGED <<reviewEvents, dailyStats, packProgress>>

ArchivedRow(existing, m) ==
  [existing EXCEPT !.active = FALSE, !.archivedAt = m.archivedAt,
                   !.version = @ + 1]

ArchiveWord(m) ==
  LET at == <<m.user, m.slug>> IN
  /\ IsNew(m)
  /\ savedWords[at] # None
  /\ savedWords' = [savedWords EXCEPT ![at] = ArchivedRow(@, m)]
  /\ syncVersion' = syncVersion + 1
  /\ Remember(m, Ok(None, syncVersion', None))
  /\ UNCHANGED <<reviewState, reviewEvents, dailyStats, packProgress>>

-----------------------------------------------------------------------------
(* submitReviewEvent *)

\* mutant of StoredEvents: eventIds are looked up under the key they came with
EventsOfKey(m) == {i \in DOMAIN reviewEvents : reviewEvents[i].key = m.key}

\* findReviewEventById
StoredEvents(m) ==
  {i \in DOMAIN reviewEvents :
     /\ reviewEvents[i].user = m.user
     /\ reviewEvents[i].answer.eventId = m.answer.eventId}

\* The event is known under another key: nothing is compared, it is accepted
AcceptKnownEvent(m) ==
  \E i \in StoredEvents(m) :
    LET event == reviewEvents[i] IN
    /\ IsNew(m) /\ m.valid
    /\ Remember(m, Ok(reviewState[<<m.user, event.answer.slug>>], syncVersion,
                      event.key))
    /\ UNCHANGED <<account, syncVersion>>

\* mutant of PackAfter: a wrong answer is no progress
PackAfterCorrect(row, a) ==
  LET old == IF row = None THEN [reviewed |-> 0, correct |-> 0, from |-> << >>]
             ELSE row
  IN [reviewed |-> old.reviewed + One(a.result = "correct"),
      correct |-> old.correct + One(a.result = "correct"),
      from |-> Append(old.from, a.eventId)]

\* upsertPackProgressFromReviewEvent
PackAfter(row, a) ==
  LET old == IF row = None THEN [reviewed |-> 0, correct |-> 0, from |-> << >>]
             ELSE row
  IN [reviewed |-> old.reviewed + 1,
      correct |-> old.correct + One(a.result = "correct"),
      from |-> Append(old.from, a.eventId)]

\* toServerDailyStats, of reduceServerReviewEvent with countSession always set
StatsAfter(row, item, next, a) ==
  [stats |-> DailyStatsAfter(IF row = None THEN EmptyDailyStats ELSE row.stats,
                             item, next, a, TRUE),
   from |-> IF row = None THEN <<a.eventId>> ELSE Append(row.from, a.eventId)]

AcceptEvent(m) ==
  LET a    == m.answer
      at   == <<m.user, a.slug>>
      item == IF reviewState[at] = None THEN NewItem(a.createdAt)
              ELSE reviewState[at]
      next == ItemAfter(item, a) IN
  /\ IsNew(m) /\ m.valid
  /\ StoredEvents(m) = {}
  /\ reviewEvents' = Append(reviewEvents,
       [user |-> m.user, key |-> m.key, answer |-> a, pack |-> m.pack])
  /\ reviewState' = [reviewState EXCEPT ![at] = next]
  /\ dailyStats' = [dailyStats EXCEPT
       ![<<m.user, DateOf(a.createdAt)>>] = StatsAfter(@, item, next, a)]
  /\ packProgress' = IF m.pack = None THEN packProgress
                     ELSE [packProgress EXCEPT
                             ![<<m.user, m.pack>>] = PackAfter(@, a)]
  /\ syncVersion' = syncVersion + 1
  /\ Remember(m, Ok(next, syncVersion', None))
  /\ UNCHANGED savedWords

-----------------------------------------------------------------------------
(* A write arrives *)

\* Which handler, and which of its returns
Write(m) ==
  \/ RejectIncomplete(m)
  \/ AnswerFromKey(m)
  \/ m.operation = "save_word" /\ (SaveWord(m) \/ (~m.valid /\ Refuse(m)))
  \/ /\ m.operation = "archive_word"
     /\ \/ ArchiveWord(m)
        \/ /\ m.user # None /\ savedWords[<<m.user, m.slug>>] = None
           /\ Refuse(m)
  \/ /\ m.operation = "submit_review_event"
     /\ \/ AcceptEvent(m)
        \/ AcceptKnownEvent(m)
        \/ ~m.valid /\ Refuse(m)

Receive(m) ==
  /\ batch = None
  /\ Write(m)
  /\ UNCHANGED batch

-----------------------------------------------------------------------------
(* syncPendingLocalQueue *)

StartBatch(b) ==
  /\ batch = None
  /\ IsNew(b)
  /\ batch' = [envelope |-> b, left |-> b.items, results |-> << >>]
  /\ UNCHANGED <<account, processed, syncVersion, reply>>

RepeatBatch(b) ==
  /\ batch = None
  /\ RejectIncomplete(b) \/ AnswerFromKey(b)
  /\ UNCHANGED batch

\* The bucket of an item's response
ResultOf(response) ==
  IF response.status # "ok" THEN "rejected"
  ELSE IF response.duplicateOf = None THEN "synced" ELSE "conflict_resolved"

FileResult(result) ==
  batch' = [batch EXCEPT !.left = Tail(@), !.results = Append(@, result)]

ItemWrite(item) ==
  IF item.write.user = None THEN OfSender(item, batch.envelope) ELSE item.write

\* mutant of SkipRetryable: an item to be retried ends the batch
StopAtRetryable ==
  /\ batch # None /\ batch.left # << >>
  /\ Head(batch.left).retryable
  /\ batch' = [batch EXCEPT !.left = << >>,
                            !.results = Append(@, "retryable_error")]
  /\ UNCHANGED <<account, processed, syncVersion, reply>>

SkipRetryable ==
  /\ batch # None /\ batch.left # << >>
  /\ Head(batch.left).retryable
  /\ FileResult("retryable_error")
  /\ UNCHANGED <<account, processed, syncVersion, reply>>

RejectUnsupported ==
  /\ batch # None /\ batch.left # << >>
  /\ ~Head(batch.left).retryable
  /\ Head(batch.left).write.operation = "unsupported"
  /\ FileResult("rejected")
  /\ UNCHANGED <<account, processed, syncVersion, reply>>

WriteItem ==
  /\ batch # None /\ batch.left # << >>
  /\ ~Head(batch.left).retryable
  /\ Head(batch.left).write.operation # "unsupported"
  /\ Write(ItemWrite(Head(batch.left)))
  /\ FileResult(ResultOf(reply'.response))

FinishBatch ==
  /\ batch # None /\ batch.left = << >>
  /\ Remember(batch.envelope,
              [Ok(None, syncVersion, None) EXCEPT !.results = batch.results])
  /\ batch' = None
  /\ UNCHANGED <<account, syncVersion>>

-----------------------------------------------------------------------------
Init ==
  /\ savedWords = [at \in Users \X Words |-> None]
  /\ reviewState = [at \in Users \X Words |-> None]
  /\ reviewEvents = << >>
  /\ dailyStats = [at \in Users \X Dates |-> None]
  /\ packProgress = [at \in Users \X Packs |-> None]
  /\ processed = [k \in Keys |-> None]
  /\ syncVersion = 0
  /\ batch = None
  /\ reply = None

Next ==
  \/ \E m \in Envelopes : Receive(m)
  \/ \E b \in Batches : StartBatch(b) \/ RepeatBatch(b)
  \/ SkipRetryable \/ RejectUnsupported \/ WriteItem \/ FinishBatch

Spec == Init /\ [][Next]_vars
-----------------------------------------------------------------------------
(* Correctness *)

Rows == [active: BOOLEAN, archivedAt: Nat \cup {None}, lastSavedAt: Nat,
         saves: Seq(Nat), version: Nat]
StoredEvent == [user: Users, key: Keys, answer: {m.answer : m \in Events},
                pack: Packs \cup {None}]
EventId == {m.answer.eventId : m \in Events}
Stats == [stats: DailyStats, from: Seq(EventId)]
Progress == [reviewed: Nat, correct: Nat, from: Seq(EventId)]
Buckets == {"synced", "conflict_resolved", "rejected", "retryable_error"}
Responses ==
  [status: {"ok", "validation_error", "unauthenticated", "idempotency_conflict"},
   state: Item \cup {None}, cursor: Nat \cup {None},
   duplicateOf: Keys \cup {None}, results: Seq(Buckets)]
Memo == [fingerprint: {Fingerprint(m) : m \in Writes \cup Batches},
         response: Responses]

ASSUME NoneAssumption ==
  None \notin Users \cup Packs \cup Rows \cup Item \cup Stats \cup Progress \cup Memo

AccountOK ==
  /\ savedWords \in [Users \X Words -> Rows \cup {None}]
  /\ reviewState \in [Users \X Words -> Item \cup {None}]
  /\ reviewEvents \in Seq(StoredEvent)
  /\ dailyStats \in [Users \X Dates -> Stats \cup {None}]
  /\ packProgress \in [Users \X Packs -> Progress \cup {None}]
  /\ syncVersion \in Nat

RepliesOK ==
  /\ processed \in [Keys -> Memo \cup {None}]
  /\ reply # None => reply.response \in Responses

BatchOK ==
  batch # None =>
    /\ batch \in [envelope: Batches, left: Seq(Queued), results: Seq(Buckets)]
    /\ ~IsIncomplete(batch.envelope)

TypeOK == AccountOK /\ RepliesOK /\ BatchOK

\* An event is accepted once: whatever is retried, reordered or sent under a
\* second key, no two stored events of a user share an eventId, and no two
\* stored events a key.
OnceEach ==
  \A i, j \in DOMAIN reviewEvents :
    \/ reviewEvents[i].user = reviewEvents[j].user
       /\ reviewEvents[i].answer.eventId = reviewEvents[j].answer.eventId
    \/ reviewEvents[i].key = reviewEvents[j].key
    => i = j

\* Positions in reviewEvents
EventsOfWord(u, w) ==
  {i \in DOMAIN reviewEvents :
     reviewEvents[i].user = u /\ reviewEvents[i].answer.slug = w}
EventsOfDate(u, d) ==
  {i \in DOMAIN reviewEvents :
     reviewEvents[i].user = u /\ DateOf(reviewEvents[i].answer.createdAt) = d}
EventsOfPack(u, p) ==
  {i \in DOMAIN reviewEvents : reviewEvents[i].user = u /\ reviewEvents[i].pack = p}
CorrectOf(events) == {i \in events : reviewEvents[i].answer.result = "correct"}

\* What the first i accepted events make of a word that was new at createdAt
Replay(u, w, createdAt) ==
  LET state[i \in 0..Len(reviewEvents)] ==
        IF i = 0 THEN NewItem(createdAt)
        ELSE IF i \in EventsOfWord(u, w)
        THEN ItemAfter(state[i - 1], reviewEvents[i].answer)
        ELSE state[i - 1]
  IN state

\* The review state of a word is its accepted events replayed by the engine in
\* the order of serverSequence: no save, archive, retry, duplicate or refused
\* write leaves a mark on it.
StateIsReplay ==
  \A u \in Users, w \in Words :
    LET item == reviewState[<<u, w>>] IN
    IF item = None THEN EventsOfWord(u, w) = {}
    ELSE item = Replay(u, w, item.createdAt)[Len(reviewEvents)]

\* from lists the eventIds of the events, in their order
Lists(from, events) ==
  /\ Len(from) = Cardinality(events)
  /\ \A i \in events :
       from[Cardinality({j \in events : j <= i})] = reviewEvents[i].answer.eventId

\* Daily statistics and pack progress count the accepted events, each once.
RollupsFollowEvents ==
  \A u \in Users :
    /\ \A d \in Dates :
         LET row == dailyStats[<<u, d>>]  on == EventsOfDate(u, d) IN
         IF row = None THEN on = {}
         ELSE /\ Lists(row.from, on)
              /\ row.stats.reviewed = Cardinality(on)
              /\ row.stats.correct = Cardinality(CorrectOf(on))
              /\ row.stats.wrong = Cardinality(on \ CorrectOf(on))
    /\ \A p \in Packs :
         LET row == packProgress[<<u, p>>]  in == EventsOfPack(u, p) IN
         IF row = None THEN in = {}
         ELSE /\ Lists(row.from, in)
              /\ row.reviewed = Cardinality(in)
              /\ row.correct = Cardinality(CorrectOf(in))

IsRetry(m) == processed[m.key] # None /\ processed[m.key].fingerprint = Fingerprint(m)

\* "Retries must return the original accepted server result", and change
\* nothing: a write that comes again under its key is answered as it was the
\* first time.
RetryReturnsOriginal ==
  [][\A m \in Writes \cup Batches :
       (reply' # reply /\ reply'.to = m /\ ~IsIncomplete(m) /\ IsRetry(m)) =>
         /\ UNCHANGED <<account, processed, syncVersion>>
         /\ reply'.response =
              [processed[m.key].response EXCEPT !.duplicateOf = m.key]]_vars

\* An archived word is opened again only by a save that is carried out for the
\* first time, never by a late retry of an older one.
ArchivedUntilSavedAgain ==
  [][\A at \in Users \X Words :
       (savedWords[at] # None /\ ~IsActive(at) /\ IsActive(at)') =>
         \E m \in Writes :
           /\ m.operation = "save_word" /\ at = <<m.user, m.slug>>
           /\ ~IsIncomplete(m)
           /\ processed[m.key] = None /\ processed'[m.key] # None]_vars

\* The cursor moves exactly when the account moves: a device that hydrates
\* when the cursor changed misses nothing and never hydrates in vain.
CursorTracksAccount ==
  [][syncVersion' = syncVersion + One(account' # account)]_vars

\* What was answered with ok is there: the event, the saved row with its review
\* state; and a batch reports its items in their order, an item as accepted
\* only when its write was.
Carried(m) ==
  /\ m.operation = "submit_review_event" => StoredEvents(m) # {}
  /\ m.operation \in {"save_word", "archive_word"} =>
       savedWords[<<m.user, m.slug>>] # None /\ reviewState[<<m.user, m.slug>>] # None
  /\ m.operation = "sync_pending_local_queue" =>
       LET results == processed[m.key].response.results IN
       /\ Len(results) = Len(m.items)
       /\ \A i \in DOMAIN results :
            results[i] \in {"synced", "conflict_resolved"} =>
              processed[m.items[i].write.key].response.status = "ok"

AcceptedIsCarried ==
  \A m \in Writes \cup Batches :
    (~IsIncomplete(m) /\ IsRetry(m) /\ processed[m.key].response.status = "ok")
      => Carried(m)

==============================================================================
