------------------------- MODULE ServerSrsSync_proofs -------------------------
(***************************************************************************)
(* For every set of users, words, packs, writes and batches: the service's  *)
(* state is well formed, an event is accepted once, a retry gets the first  *)
(* answer and changes nothing, an archived word is opened again only by a   *)
(* new save, and the cursor moves exactly with the account.  A migration is *)
(* a use of the service like any other: all of it holds with them too, and  *)
(* what a plan shows of the account it was made for is what its run adds.   *)
(***************************************************************************)
EXTENDS GuestMigration, SrsEngine_proofs, FiniteSetTheorems, TLAPS

-----------------------------------------------------------------------------
(* Envelopes and their fingerprints *)

\* A fingerprint with its key is the envelope it was taken of.
LEMMA FingerprintTells ==
  ASSUME NEW m \in Writes \cup Batches, NEW n \in Writes \cup Batches,
         m.key = n.key, Fingerprint(m) = Fingerprint(n)
  PROVE  m = n
<1>1. /\ "key" \in DOMAIN m /\ m = [f \in DOMAIN m |-> m[f]]
      /\ "key" \in DOMAIN n /\ n = [f \in DOMAIN n |-> n[f]]
  BY EnvelopesAssumption
<1>2. /\ DOMAIN Fingerprint(m) = DOMAIN m
      /\ \A f \in DOMAIN m : f # "key" => Fingerprint(m)[f] = m[f]
  BY <1>1 DEF Fingerprint
<1>3. /\ DOMAIN Fingerprint(n) = DOMAIN n
      /\ \A f \in DOMAIN n : f # "key" => Fingerprint(n)[f] = n[f]
  BY <1>1 DEF Fingerprint
<1>4. DOMAIN m = DOMAIN n /\ m["key"] = n["key"]
  BY <1>2, <1>3
<1>5. \A f \in DOMAIN m : m[f] = n[f]
  BY <1>2, <1>3, <1>4
<1> QED BY <1>1, <1>4, <1>5

\* The operation is in the fingerprint.
LEMMA FingerprintOperation ==
  \A m \in Writes \cup Batches : Fingerprint(m).operation = m.operation
<1> SUFFICES ASSUME NEW m \in Writes \cup Batches
             PROVE  Fingerprint(m).operation = m.operation
  OBVIOUS
<1>1. "operation" \in DOMAIN m
  BY EnvelopesAssumption
<1> QED BY <1>1 DEF Fingerprint

LEMMA WriteOperations ==
  \A m \in Writes :
    m.operation \in {"save_word", "archive_word", "submit_review_event", "unsupported"}
BY EnvelopesAssumption

LEMMA WritePassesForNoBatch ==
  \A m \in Writes, b \in Batches : Fingerprint(m) # Fingerprint(b)
<1> SUFFICES ASSUME NEW m \in Writes, NEW b \in Batches
             PROVE  Fingerprint(m).operation # Fingerprint(b).operation
  OBVIOUS
<1>1. b.operation = "sync_pending_local_queue"
  BY EnvelopesAssumption
<1> QED BY <1>1, FingerprintOperation, WriteOperations

-----------------------------------------------------------------------------
(* Responses and the keys that remember them *)

LEMMA OkType ==
  ASSUME NEW state \in Item \cup {None}, NEW cursor \in Nat,
         NEW duplicateOf \in Keys \cup {None}
  PROVE  Ok(state, cursor, duplicateOf) \in Responses
BY DEF Ok, Responses, Buckets

LEMMA ErrorType ==
  \A code \in {"validation_error", "unauthenticated", "idempotency_conflict"} :
    Error(code) \in Responses
BY DEF Error, Responses, Buckets

LEMMA KeysAreKeys ==
  ASSUME NEW m \in Writes \cup Batches, ~IsIncomplete(m)
  PROVE  m.key \in Keys /\ m.user \in Users
BY EnvelopesAssumption DEF Keys, IsIncomplete

\* The key of m is remembered, with m's fingerprint, and no other key changes.
AddsMemo(m) ==
  /\ m.key \in Keys
  /\ processed'[m.key] # None
  /\ processed'[m.key].fingerprint = Fingerprint(m)
  /\ \A k \in Keys : k # m.key => processed'[k] = processed[k]
  /\ reply'.to = m /\ processed'[m.key].response = reply'.response

\* A response is remembered under its key.
LEMMA RememberKeeps ==
  ASSUME RepliesOK, NEW m \in Writes \cup Batches, ~IsIncomplete(m),
         NEW response \in Responses, Remember(m, response)
  PROVE  RepliesOK' /\ AddsMemo(m)
<1> DEFINE memo == [fingerprint |-> Fingerprint(m), response |-> response]
<1>1. m.key \in Keys
  BY KeysAreKeys
<1>2. memo \in Memo /\ memo # None
  BY NoneAssumption DEF Memo
<1>3. /\ processed' = [processed EXCEPT ![m.key] = memo]
      /\ reply' = [to |-> m, response |-> response]
  BY DEF Remember
<1>4. processed \in [Keys -> Memo \cup {None}]
  BY DEF RepliesOK
<1> HIDE DEF memo
<1>5. /\ processed' \in [Keys -> Memo \cup {None}]
      /\ processed'[m.key] = memo
      /\ \A k \in Keys : k # m.key => processed'[k] = processed[k]
  BY <1>1, <1>2, <1>3, <1>4
<1>6. /\ reply'.response = response /\ response \in Responses
      /\ reply'.to = m
  BY <1>3
<1>7. memo.fingerprint = Fingerprint(m) /\ memo.response = response
  BY DEF memo
<1> QED BY <1>1, <1>2, <1>5, <1>6, <1>7 DEF RepliesOK, AddsMemo

\* An envelope without its key or user changes the reply only.
LEMMA RejectIncompleteKeeps ==
  ASSUME RepliesOK, NEW m, RejectIncomplete(m) PROVE RepliesOK'
BY ErrorType DEF RejectIncomplete, RepliesOK

\* So does an envelope under a known key.
LEMMA AnswerFromKeyKeeps ==
  ASSUME RepliesOK, NEW m \in Writes \cup Batches, AnswerFromKey(m)
  PROVE  RepliesOK'
<1>1. m.key \in Keys
  BY KeysAreKeys DEF AnswerFromKey
<1>2. processed[m.key] \in Memo
  BY <1>1 DEF RepliesOK, AnswerFromKey
<1>3. [processed[m.key].response EXCEPT !.duplicateOf = m.key] \in Responses
  BY <1>1, <1>2 DEF Memo, Responses
<1>4. reply'.response \in Responses
  BY <1>3, ErrorType DEF AnswerFromKey
<1> QED BY <1>4 DEF AnswerFromKey, RepliesOK

\* And a refusal.
LEMMA RefuseKeeps ==
  ASSUME RepliesOK, NEW m \in Writes \cup Batches, Refuse(m)
  PROVE  RepliesOK' /\ AddsMemo(m)
BY ErrorType, RememberKeeps DEF Refuse, IsNew

-----------------------------------------------------------------------------
(* Type correctness of the account, write by write *)

\* A saved row is active.
LEMMA SavedRowType ==
  ASSUME NEW existing \in Rows \cup {None}, NEW m, m.savedAt \in Nat
  PROVE  SavedRow(existing, m) \in Rows /\ SavedRow(existing, m).active = TRUE
<1>1. CASE existing = None
  BY <1>1 DEF SavedRow, Rows
<1>2. CASE existing \in Rows
  <2>1. existing # None
    BY <1>2, NoneAssumption
  <2> QED BY <1>2, <2>1 DEF SavedRow, Rows
<1> QED BY <1>1, <1>2

LEMMA SaveWordKeeps ==
  ASSUME AccountOK, RepliesOK, NEW m \in Writes, m.operation = "save_word",
         SaveWord(m)
  PROVE  AccountOK' /\ RepliesOK' /\ AddsMemo(m)
<1> DEFINE at   == <<m.user, m.slug>>
           item == IF reviewState[at] = None THEN NewItem(m.savedAt)
                   ELSE reviewState[at]
           row  == SavedRow(savedWords[at], m)
<1>1. m.user \in Users /\ m.slug \in Words /\ m.savedAt \in Nat
  BY KeysAreKeys, EnvelopesAssumption DEF SaveWord, IsNew
<1>2. at \in Users \X Words
  BY <1>1
<1>3. savedWords[at] \in Rows \cup {None} /\ reviewState[at] \in Item \cup {None}
  BY <1>2 DEF AccountOK
<1>4. item \in Item
  BY <1>1, <1>3, NewItemType
<1>5. row \in Rows
  BY <1>1, <1>3, SavedRowType
<1>6. /\ savedWords' = IF IsActive(at) THEN savedWords
                       ELSE [savedWords EXCEPT ![at] = row]
      /\ reviewState' = [reviewState EXCEPT ![at] = item]
      /\ syncVersion' \in {syncVersion, syncVersion + 1}
      /\ Remember(m, Ok(item, syncVersion', None))
      /\ UNCHANGED <<reviewEvents, dailyStats, packProgress>>
  BY DEF SaveWord
<1> HIDE DEF at, item, row
<1>7. savedWords' \in [Users \X Words -> Rows \cup {None}]
  BY <1>2, <1>5, <1>6 DEF AccountOK
<1>8. reviewState' \in [Users \X Words -> Item \cup {None}]
  BY <1>2, <1>4, <1>6 DEF AccountOK
<1>9. syncVersion' \in Nat
  BY <1>6 DEF AccountOK
<1>10. RepliesOK' /\ AddsMemo(m)
  <2>1. Ok(item, syncVersion', None) \in Responses
    BY <1>4, <1>9, OkType
  <2> QED BY <1>6, <2>1, RememberKeeps DEF SaveWord, IsNew
<1> QED BY <1>6, <1>7, <1>8, <1>9, <1>10 DEF AccountOK

LEMMA ArchivedRowType ==
  ASSUME NEW old \in Rows, NEW m, m.archivedAt \in Nat
  PROVE  ArchivedRow(old, m) \in Rows
<1> DEFINE closed == [old EXCEPT !.active = FALSE]
           dated  == [closed EXCEPT !.archivedAt = m.archivedAt]
           row    == [dated EXCEPT !.version = old.version + 1]
<1>1. closed \in Rows /\ closed.version = old.version
  BY DEF Rows
<1> HIDE DEF closed
<1>2. dated \in Rows /\ dated.version = old.version
  BY <1>1 DEF Rows
<1> HIDE DEF dated
<1>3. row \in Rows
  BY <1>2 DEF Rows
<1>4. ArchivedRow(old, m) = row
  BY DEF ArchivedRow, row, dated, closed
<1> QED BY <1>3, <1>4

LEMMA ArchivedRowVersion ==
  ASSUME NEW old \in Rows, NEW m
  PROVE  /\ ArchivedRow(old, m).version = old.version + 1
         /\ ArchivedRow(old, m).active = FALSE
BY DEF ArchivedRow, Rows

LEMMA ArchiveWordKeeps ==
  ASSUME AccountOK, RepliesOK, NEW m \in Writes, m.operation = "archive_word",
         ArchiveWord(m)
  PROVE  AccountOK' /\ RepliesOK' /\ AddsMemo(m)
<1> DEFINE at  == <<m.user, m.slug>>
           old == savedWords[at]
           row == ArchivedRow(old, m)
<1>1. m.user \in Users /\ m.slug \in Words /\ m.archivedAt \in Nat
  BY KeysAreKeys, EnvelopesAssumption DEF ArchiveWord, IsNew
<1>2. at \in Users \X Words
  BY <1>1
<1>3. old \in Rows
  BY <1>2 DEF AccountOK, ArchiveWord
<1>4. row \in Rows
  BY <1>1, <1>3, ArchivedRowType
<1>5. /\ savedWords' = [savedWords EXCEPT ![at] = row]
      /\ syncVersion' = syncVersion + 1
      /\ Remember(m, Ok(None, syncVersion', None))
      /\ UNCHANGED <<reviewState, reviewEvents, dailyStats, packProgress>>
  BY DEF ArchiveWord
<1> HIDE DEF at, old, row
<1>6. savedWords' \in [Users \X Words -> Rows \cup {None}]
  BY <1>2, <1>4, <1>5 DEF AccountOK
<1>7. syncVersion' \in Nat
  BY <1>5 DEF AccountOK
<1>8. RepliesOK' /\ AddsMemo(m)
  <2>1. Ok(None, syncVersion', None) \in Responses
    BY <1>7, OkType
  <2> QED BY <1>5, <2>1, RememberKeeps DEF ArchiveWord, IsNew
<1> QED BY <1>5, <1>6, <1>7, <1>8 DEF AccountOK

-----------------------------------------------------------------------------
(* Review events *)

LEMMA KnownEvent ==
  ASSUME AccountOK, NEW i \in DOMAIN reviewEvents
  PROVE  /\ reviewEvents[i] \in StoredEvent
         /\ reviewEvents[i].answer.slug \in Words
<1>1. reviewEvents[i] \in StoredEvent
  BY DEF AccountOK
<1>2. \E m \in Events : reviewEvents[i].answer = m.answer
  BY <1>1 DEF StoredEvent
<1> QED BY <1>1, <1>2, EnvelopesAssumption DEF Events

LEMMA AcceptKnownEventKeeps ==
  ASSUME AccountOK, RepliesOK, NEW m \in Writes, AcceptKnownEvent(m)
  PROVE  AccountOK' /\ RepliesOK' /\ AddsMemo(m)
<1>1. PICK i \in StoredEvents(m) :
        /\ IsNew(m)
        /\ Remember(m, Ok(reviewState[<<m.user, reviewEvents[i].answer.slug>>],
                          syncVersion, reviewEvents[i].key))
        /\ UNCHANGED <<account, syncVersion>>
  BY DEF AcceptKnownEvent
<1> DEFINE at == <<m.user, reviewEvents[i].answer.slug>>
<1>2. i \in DOMAIN reviewEvents
  BY DEF StoredEvents
<1>3. /\ m.user \in Users
      /\ reviewEvents[i].key \in Keys
      /\ reviewEvents[i].answer.slug \in Words
  BY <1>1, <1>2, KnownEvent, KeysAreKeys DEF IsNew, StoredEvent
<1>4. reviewState[at] \in Item \cup {None}
  BY <1>3 DEF AccountOK
<1>5. syncVersion \in Nat
  BY DEF AccountOK
<1> HIDE DEF at
<1>6. Ok(reviewState[at], syncVersion, reviewEvents[i].key) \in Responses
  BY <1>3, <1>4, <1>5, OkType
<1>7. RepliesOK' /\ AddsMemo(m)
  BY <1>1, <1>6, RememberKeeps DEF IsNew, at
<1> QED BY <1>1, <1>7 DEF AccountOK, account

\* Daily statistics stay daily statistics, pack progress pack progress.
LEMMA StatsAfterType ==
  ASSUME NEW row \in Stats \cup {None}, NEW item, NEW next, NEW a, a.eventId \in EventId
  PROVE  StatsAfter(row, item, next, a) \in Stats
<1> DEFINE old   == IF row = None THEN EmptyDailyStats ELSE row.stats
           stats == DailyStatsAfter(old, item, next, a, TRUE)
           from  == IF row = None THEN <<a.eventId>> ELSE Append(row.from, a.eventId)
<1>1. row \in Stats => row # None
  BY NoneAssumption
<1>2. old \in DailyStats
  BY <1>1 DEF EmptyDailyStats, DailyStats, Stats
<1>3. stats \in DailyStats
  BY <1>2, DailyStatsAfterType
<1>4. from \in Seq(EventId)
  BY <1>1 DEF Stats
<1>5. StatsAfter(row, item, next, a) = [stats |-> stats, from |-> from]
  BY DEF StatsAfter
<1> HIDE DEF old, stats, from
<1> QED BY <1>3, <1>4, <1>5 DEF Stats

LEMMA PackAfterType ==
  ASSUME NEW row \in Progress \cup {None}, NEW a, a.eventId \in EventId
  PROVE  PackAfter(row, a) \in Progress
<1>1. One(a.result = "correct") \in Nat
  BY OneType
<1>2. CASE row = None
  BY <1>1, <1>2 DEF PackAfter, Progress
<1>3. CASE row \in Progress
  <2>1. row # None
    BY <1>3, NoneAssumption
  <2> QED BY <1>1, <1>3, <2>1 DEF PackAfter, Progress
<1> QED BY <1>2, <1>3

LEMMA AcceptEventKeeps ==
  ASSUME AccountOK, RepliesOK, NEW m \in Writes, m.operation = "submit_review_event",
         AcceptEvent(m)
  PROVE  AccountOK' /\ RepliesOK' /\ AddsMemo(m)
<1> DEFINE a     == m.answer
           at    == <<m.user, a.slug>>
           day   == <<m.user, DateOf(a.createdAt)>>
           item  == IF reviewState[at] = None THEN NewItem(a.createdAt)
                    ELSE reviewState[at]
           next  == ItemAfter(item, a)
           event == [user |-> m.user, key |-> m.key, answer |-> a, pack |-> m.pack]
<1>1. /\ m \in Events
      /\ m.user \in Users /\ m.key \in Keys
      /\ EngineAnswer(a) /\ a.slug \in Words /\ m.pack \in Packs \cup {None}
      /\ a.createdAt \in Nat
  BY KeysAreKeys, EnvelopesAssumption DEF AcceptEvent, IsNew, Events, EngineAnswer
<1>2. at \in Users \X Words /\ day \in Users \X Dates /\ a.eventId \in EventId
  BY <1>1 DEF Dates, EventId
<1>3. reviewState[at] \in Item \cup {None}
  BY <1>2 DEF AccountOK
<1>4. item \in Item
  BY <1>1, <1>3, NewItemType
<1>5. next \in Item
  BY <1>1, <1>4, ItemAfterType
<1>6. event \in StoredEvent
  BY <1>1 DEF StoredEvent
<1>7. /\ reviewEvents' = Append(reviewEvents, event)
      /\ reviewState' = [reviewState EXCEPT ![at] = next]
      /\ dailyStats' = [dailyStats EXCEPT ![day] = StatsAfter(@, item, next, a)]
      /\ packProgress' = IF m.pack = None THEN packProgress
                         ELSE [packProgress EXCEPT ![<<m.user, m.pack>>] = PackAfter(@, a)]
      /\ syncVersion' = syncVersion + 1
      /\ Remember(m, Ok(next, syncVersion', None))
      /\ UNCHANGED savedWords
  BY DEF AcceptEvent
<1>8. dailyStats[day] \in Stats \cup {None}
  BY <1>2 DEF AccountOK
<1>9. StatsAfter(dailyStats[day], item, next, a) \in Stats
  BY <1>2, <1>8, StatsAfterType
<1>10. packProgress' \in [Users \X Packs -> Progress \cup {None}]
  <2>1. CASE m.pack = None
    BY <1>7, <2>1 DEF AccountOK
  <2>2. CASE m.pack # None
    <3> DEFINE pack == <<m.user, m.pack>>
    <3>1. pack \in Users \X Packs
      BY <1>1, <2>2
    <3>2. packProgress[pack] \in Progress \cup {None}
      BY <3>1 DEF AccountOK
    <3>3. PackAfter(packProgress[pack], a) \in Progress
      BY <1>2, <3>2, PackAfterType
    <3>4. packProgress' = [packProgress EXCEPT ![pack] = PackAfter(packProgress[pack], a)]
      BY <1>7, <2>2
    <3> HIDE DEF pack
    <3> QED BY <3>1, <3>3, <3>4 DEF AccountOK
  <2> QED BY <2>1, <2>2
<1> HIDE DEF a, at, day, item, next, event
<1>11. reviewEvents' \in Seq(StoredEvent)
  BY <1>6, <1>7 DEF AccountOK
<1>12. reviewState' \in [Users \X Words -> Item \cup {None}]
  BY <1>2, <1>5, <1>7 DEF AccountOK
<1>13. dailyStats' \in [Users \X Dates -> Stats \cup {None}]
  BY <1>2, <1>7, <1>9 DEF AccountOK
<1>14. syncVersion' \in Nat
  BY <1>7 DEF AccountOK
<1>15. RepliesOK' /\ AddsMemo(m)
  <2>1. Ok(next, syncVersion', None) \in Responses
    BY <1>5, <1>14, OkType
  <2> QED BY <1>7, <2>1, RememberKeeps DEF AcceptEvent, IsNew
<1> QED BY <1>7, <1>10, <1>11, <1>12, <1>13, <1>14, <1>15 DEF AccountOK

-----------------------------------------------------------------------------
(* Every write *)

\* The outcomes of a write, with what its operation gives them
LEMMA WriteCases ==
  ASSUME NEW m \in Writes, Write(m)
  PROVE  \/ RejectIncomplete(m)
         \/ AnswerFromKey(m)
         \/ Refuse(m)
         \/ m.operation = "save_word" /\ SaveWord(m)
         \/ m.operation = "archive_word" /\ ArchiveWord(m)
         \/ m.operation = "submit_review_event" /\ AcceptKnownEvent(m)
         \/ m.operation = "submit_review_event" /\ AcceptEvent(m)
BY DEF Write

LEMMA WriteKeeps ==
  ASSUME AccountOK, RepliesOK, NEW m \in Writes, Write(m)
  PROVE  AccountOK' /\ RepliesOK'
<1>1. CASE RejectIncomplete(m)
  BY <1>1, RejectIncompleteKeeps DEF RejectIncomplete, AccountOK, account
<1>2. CASE AnswerFromKey(m)
  BY <1>2, AnswerFromKeyKeeps DEF AnswerFromKey, AccountOK, account
<1>3. CASE Refuse(m)
  BY <1>3, RefuseKeeps DEF Refuse, AccountOK, account
<1> QED BY <1>1, <1>2, <1>3, WriteCases, SaveWordKeeps, ArchiveWordKeeps,
           AcceptKnownEventKeeps, AcceptEventKeeps

\* A write under a known key, or without its key, remembers nothing; any other
\* is new and remembers its response.
LEMMA WriteRemembers ==
  ASSUME AccountOK, RepliesOK, NEW m \in Writes, Write(m)
  PROVE  \/ RejectIncomplete(m)
         \/ AnswerFromKey(m)
         \/ IsNew(m) /\ AddsMemo(m)
<1>1. CASE Refuse(m)
  BY <1>1, RefuseKeeps DEF Refuse
<1>2. CASE m.operation = "save_word" /\ SaveWord(m)
  BY <1>2, SaveWordKeeps DEF SaveWord
<1>3. CASE m.operation = "archive_word" /\ ArchiveWord(m)
  BY <1>3, ArchiveWordKeeps DEF ArchiveWord
<1>4. CASE AcceptKnownEvent(m)
  BY <1>4, AcceptKnownEventKeeps DEF AcceptKnownEvent
<1>5. CASE m.operation = "submit_review_event" /\ AcceptEvent(m)
  BY <1>5, AcceptEventKeeps DEF AcceptEvent
<1> QED BY <1>1, <1>2, <1>3, <1>4, <1>5, WriteCases

\* What the next item of a batch writes is a write.
LEMMA ItemWriteIsWrite ==
  ASSUME BatchOK, batch # None, batch.left # << >>
  PROVE  /\ ItemWrite(Head(batch.left)) \in Writes
         /\ Tail(batch.left) \in Seq(Queued)
<1>1. batch.left \in Seq(Queued) /\ batch.envelope \in Batches
  BY DEF BatchOK
<1> DEFINE item == Head(batch.left)
<1>2. item \in Queued /\ Tail(batch.left) \in Seq(Queued)
  BY <1>1
<1> HIDE DEF item
<1>3. ItemWrite(item) \in Writes
  <2>1. CASE item.write.user = None
    <3>1. ItemWrite(item) = OfSender(item, batch.envelope)
      BY <2>1 DEF ItemWrite
    <3> QED BY <1>1, <1>2, <3>1 DEF Writes
  <2>2. CASE item.write.user # None
    <3>1. ItemWrite(item) = item.write
      BY <2>2 DEF ItemWrite
    <3> QED BY <1>2, <3>1 DEF Writes
  <2> QED BY <2>1, <2>2
<1> QED BY <1>2, <1>3 DEF item

\* Filing an item's result keeps the batch well formed.
LEMMA FileResultKeeps ==
  ASSUME BatchOK, batch # None, batch.left # << >>,
         NEW result \in Buckets, FileResult(result)
  PROVE  BatchOK' /\ batch'.envelope = batch.envelope
<1> DEFINE Open == [envelope: Batches, left: Seq(Queued), results: Seq(Buckets)]
           cut  == [batch EXCEPT !.left = Tail(batch.left)]
           new  == [cut EXCEPT !.results = Append(batch.results, result)]
<1>1. batch \in Open /\ Tail(batch.left) \in Seq(Queued)
  BY ItemWriteIsWrite DEF BatchOK
<1>2. Append(batch.results, result) \in Seq(Buckets)
  BY <1>1
<1>3. cut \in Open /\ cut.envelope = batch.envelope
  BY <1>1
<1> HIDE DEF cut
<1>4. new \in Open /\ new.envelope = batch.envelope
  BY <1>2, <1>3
<1>5. batch' = new
  BY DEF FileResult, new, cut
<1> QED BY <1>4, <1>5 DEF BatchOK, IsIncomplete

LEMMA ResultOfType == \A response : ResultOf(response) \in Buckets
BY DEF ResultOf, Buckets

\* The batch's own response is a response.
LEMMA FinishBatchKeeps ==
  ASSUME TypeOK, FinishBatch
  PROVE  RepliesOK' /\ AddsMemo(batch.envelope)
<1> DEFINE ok       == Ok(None, syncVersion, None)
           response == [ok EXCEPT !.results = batch.results]
<1>1. batch.results \in Seq(Buckets) /\ batch.envelope \in Batches
      /\ ~IsIncomplete(batch.envelope)
  BY DEF TypeOK, BatchOK, FinishBatch
<1>2. ok \in Responses
  BY OkType DEF TypeOK, AccountOK
<1> HIDE DEF ok
<1>3. response \in Responses
  BY <1>1, <1>2 DEF Responses
<1>4. Remember(batch.envelope, response)
  BY DEF FinishBatch, response, ok
<1> HIDE DEF response
<1> QED BY <1>1, <1>3, <1>4, RememberKeeps DEF TypeOK

-----------------------------------------------------------------------------
(* Type correctness *)

LEMMA TypeStep == TypeOK /\ [Next]_vars => TypeOK'
<1> SUFFICES ASSUME TypeOK, [Next]_vars PROVE TypeOK'
  OBVIOUS
<1> USE DEF TypeOK
<1>1. ASSUME NEW m \in Envelopes, Receive(m) PROVE TypeOK'
  <2>1. m \in Writes /\ Write(m) /\ UNCHANGED batch
    BY <1>1 DEF Writes, Receive
  <2>2. AccountOK' /\ RepliesOK'
    BY <2>1, WriteKeeps
  <2> QED BY <2>1, <2>2 DEF BatchOK
<1>2. ASSUME NEW b \in Batches, StartBatch(b) PROVE TypeOK'
  <2>1. /\ batch' = [envelope |-> b, left |-> b.items, results |-> << >>]
        /\ UNCHANGED <<account, processed, syncVersion, reply>>
        /\ ~IsIncomplete(b)
    BY <1>2 DEF StartBatch, IsNew
  <2>2. BatchOK'
    BY <2>1, EnvelopesAssumption DEF BatchOK, IsIncomplete
  <2> QED BY <2>1, <2>2 DEF AccountOK, RepliesOK, account
<1>3. ASSUME NEW b \in Batches, RepeatBatch(b) PROVE TypeOK'
  <2>1. UNCHANGED <<account, syncVersion, batch>>
    BY <1>3 DEF RepeatBatch, RejectIncomplete, AnswerFromKey
  <2>2. RepliesOK'
    BY <1>3, RejectIncompleteKeeps, AnswerFromKeyKeeps DEF RepeatBatch
  <2> QED BY <2>1, <2>2 DEF AccountOK, BatchOK, account
<1>4. ASSUME NEW result \in Buckets, batch # None, batch.left # << >>,
             FileResult(result), UNCHANGED <<account, processed, syncVersion, reply>>
      PROVE  TypeOK'
  BY <1>4, FileResultKeeps DEF AccountOK, RepliesOK, account
<1>5. CASE SkipRetryable
  BY <1>4, <1>5 DEF SkipRetryable, Buckets
<1>6. CASE RejectUnsupported
  BY <1>4, <1>6 DEF RejectUnsupported, Buckets
<1>7. CASE WriteItem
  <2>1. AccountOK' /\ RepliesOK'
    BY <1>7, ItemWriteIsWrite, WriteKeeps DEF WriteItem
  <2>2. BatchOK'
    BY <1>7, ResultOfType, FileResultKeeps DEF WriteItem
  <2> QED BY <2>1, <2>2
<1>8. CASE FinishBatch
  BY <1>8, FinishBatchKeeps DEF FinishBatch, AccountOK, BatchOK, account
<1>9. CASE UNCHANGED vars
  BY <1>9 DEF vars, account, AccountOK, RepliesOK, BatchOK
<1> QED BY <1>1, <1>2, <1>3, <1>5, <1>6, <1>7, <1>8, <1>9 DEF Next

LEMMA TypeInit == Init => TypeOK
BY DEF Init, TypeOK, AccountOK, RepliesOK, BatchOK

\* Type correctness of the account, the remembered responses and the batch, for
\* every set of users, words, packs, writes and batches.
THEOREM ServerTypeCorrect == Spec => []TypeOK
BY TypeInit, TypeStep, PTL DEF Spec

-----------------------------------------------------------------------------
(* The steps of the service: a write of a device or of a batch's item, or a  *)
(* step that leaves the account as it is                                     *)

LEMMA NextCases ==
  ASSUME TypeOK, [Next]_vars
  PROVE  \/ \E m \in Writes : Write(m)
         \/ \E b \in Batches : /\ RejectIncomplete(b) \/ AnswerFromKey(b)
                               /\ UNCHANGED batch
         \/ FinishBatch
         \/ UNCHANGED <<account, processed, syncVersion, reply>>
<1>1. ASSUME NEW m \in Envelopes, Receive(m) PROVE m \in Writes /\ Write(m)
  BY <1>1 DEF Writes, Receive
<1>2. CASE WriteItem
  BY <1>2, ItemWriteIsWrite DEF WriteItem, TypeOK
<1>3. CASE \E b \in Batches : StartBatch(b) \/ RepeatBatch(b)
  BY <1>3 DEF StartBatch, RepeatBatch
<1> QED BY <1>1, <1>2, <1>3 DEF Next, vars, SkipRetryable, RejectUnsupported

\* What is remembered stays remembered.
LEMMA MemosStay ==
  ASSUME TypeOK, [Next]_vars
  PROVE  \A k \in Keys : processed[k] # None => processed'[k] # None
<1> USE DEF TypeOK
<1>1. ASSUME NEW m \in Writes, Write(m)
      PROVE  \A k \in Keys : processed[k] # None => processed'[k] # None
  BY <1>1, WriteRemembers DEF AddsMemo, RejectIncomplete, AnswerFromKey
<1>2. CASE FinishBatch
  BY <1>2, FinishBatchKeeps DEF AddsMemo
<1>3. CASE \E b \in Batches : RejectIncomplete(b) \/ AnswerFromKey(b)
  BY <1>3 DEF RejectIncomplete, AnswerFromKey
<1> QED BY <1>1, <1>2, <1>3, NextCases

-----------------------------------------------------------------------------
(* An event is accepted once *)

\* The key of a stored event is remembered: the strengthening that makes
\* OnceEach inductive, for a new key is then the key of no stored event.
KeysRemembered ==
  \A i \in DOMAIN reviewEvents : processed[reviewEvents[i].key] # None

OnceInv == TypeOK /\ OnceEach /\ KeysRemembered

LEMMA EventsChange ==
  ASSUME NEW m \in Writes, Write(m)
  PROVE  \/ m.operation = "submit_review_event" /\ AcceptEvent(m)
         \/ reviewEvents' = reviewEvents
BY WriteCases DEF RejectIncomplete, AnswerFromKey, Refuse, SaveWord, ArchiveWord,
                  AcceptKnownEvent, account

LEMMA AcceptEventOnce ==
  ASSUME OnceInv, NEW m \in Writes, m.operation = "submit_review_event",
         AcceptEvent(m)
  PROVE  OnceEach' /\ KeysRemembered'
<1> DEFINE event == [user |-> m.user, key |-> m.key, answer |-> m.answer,
                     pack |-> m.pack]
           n == Len(reviewEvents)
<1>1. reviewEvents \in Seq(StoredEvent)
  BY DEF OnceInv, TypeOK, AccountOK
<1>2. reviewEvents' = Append(reviewEvents, event)
  BY DEF AcceptEvent
<1>3. /\ DOMAIN reviewEvents = 1..n /\ n \in Nat
      /\ DOMAIN reviewEvents' = 1..(n + 1)
      /\ \A i \in 1..n : reviewEvents'[i] = reviewEvents[i]
      /\ reviewEvents'[n + 1] = event
  BY <1>1, <1>2
<1>4. \A i \in 1..n : reviewEvents[i].key \in Keys
  BY <1>3, KnownEvent DEF OnceInv, TypeOK, StoredEvent
<1>5. AddsMemo(m) /\ IsNew(m)
  BY AcceptEventKeeps DEF OnceInv, TypeOK, AcceptEvent
<1>6. \A i \in 1..n : /\ reviewEvents[i].key # m.key
                      /\ ~(/\ reviewEvents[i].user = m.user
                           /\ reviewEvents[i].answer.eventId = m.answer.eventId)
  BY <1>3, <1>5 DEF OnceInv, KeysRemembered, IsNew, AcceptEvent, StoredEvents
<1>7. event.user = m.user /\ event.key = m.key /\ event.answer = m.answer
  OBVIOUS
<1> HIDE DEF event, n
<1>8. OnceEach'
  <2> SUFFICES ASSUME NEW i \in 1..(n + 1), NEW j \in 1..(n + 1),
                      \/ /\ reviewEvents'[i].user = reviewEvents'[j].user
                         /\ reviewEvents'[i].answer.eventId = reviewEvents'[j].answer.eventId
                      \/ reviewEvents'[i].key = reviewEvents'[j].key
               PROVE  i = j
    BY <1>3 DEF OnceEach
  <2>1. CASE i \in 1..n /\ j \in 1..n
    BY <1>3, <2>1 DEF OnceInv, OnceEach
  <2>2. CASE i = n + 1 /\ j \in 1..n
    BY <1>3, <1>6, <1>7, <2>2
  <2>3. CASE i \in 1..n /\ j = n + 1
    BY <1>3, <1>6, <1>7, <2>3
  <2> QED BY <1>3, <2>1, <2>2, <2>3
<1>9. KeysRemembered'
  <2> SUFFICES ASSUME NEW i \in 1..(n + 1)
               PROVE  processed'[reviewEvents'[i].key] # None
    BY <1>3 DEF KeysRemembered
  <2>1. CASE i = n + 1
    BY <1>3, <1>5, <1>7, <2>1 DEF AddsMemo
  <2>2. CASE i \in 1..n
    <3>1. processed[reviewEvents[i].key] # None /\ reviewEvents'[i] = reviewEvents[i]
      BY <1>3, <2>2 DEF OnceInv, KeysRemembered
    <3> QED BY <1>4, <1>5, <1>6, <2>2, <3>1 DEF AddsMemo
  <2> QED BY <1>3, <2>1, <2>2
<1> QED BY <1>8, <1>9

LEMMA OnceStep == OnceInv /\ [Next]_vars => OnceInv'
<1> SUFFICES ASSUME OnceInv, [Next]_vars PROVE OnceEach' /\ KeysRemembered'
  BY TypeStep DEF OnceInv
<1>1. TypeOK
  BY DEF OnceInv
<1>2. ASSUME reviewEvents' = reviewEvents PROVE OnceEach' /\ KeysRemembered'
  <2>1. \A i \in DOMAIN reviewEvents : reviewEvents[i].key \in Keys
    BY <1>1, KnownEvent DEF TypeOK, StoredEvent
  <2>2. KeysRemembered'
    BY <1>1, <1>2, <2>1, MemosStay DEF OnceInv, KeysRemembered
  <2> QED BY <1>2, <2>2 DEF OnceInv, OnceEach
<1>3. ASSUME NEW m \in Writes, Write(m) PROVE OnceEach' /\ KeysRemembered'
  BY <1>2, <1>3, EventsChange, AcceptEventOnce
<1>4. reviewEvents' = reviewEvents \/ \E m \in Writes : Write(m)
  BY <1>1, NextCases DEF RejectIncomplete, AnswerFromKey, FinishBatch, account
<1> QED BY <1>2, <1>3, <1>4

LEMMA OnceInit == Init => OnceInv
<1> SUFFICES ASSUME Init PROVE OnceInv
  OBVIOUS
<1>1. reviewEvents = << >> /\ DOMAIN << >> = {}
  BY DEF Init
<1> QED BY <1>1, TypeInit DEF OnceInv, OnceEach, KeysRemembered

\* However envelopes are retried, reordered, batched or sent under a second key,
\* no two accepted events of a user share an eventId, and no two a key
\* (getProcessedResponse and findReviewEventById).
THEOREM EventsAcceptedOnce == Spec => []OnceEach
<1>1. Spec => []OnceInv
  BY OnceInit, OnceStep, PTL DEF Spec
<1>2. OnceInv => OnceEach
  BY DEF OnceInv
<1> QED BY <1>1, <1>2, PTL

-----------------------------------------------------------------------------
(* A retry gets the first answer *)

\* While a batch runs its own answer is not remembered: were it, FinishBatch
\* would answer the batch a second time.
BatchUnanswered == batch # None => ~IsRetry(batch.envelope)

RetryInv == TypeOK /\ BatchUnanswered

\* A write never makes a batch's fingerprint remembered.
LEMMA WriteIsNoBatch ==
  ASSUME TypeOK, NEW m \in Writes, Write(m), NEW b \in Batches,
         ~IsIncomplete(b), ~IsRetry(b)
  PROVE  ~IsRetry(b)'
<1>1. b.key \in Keys
  BY KeysAreKeys
<1>2. Fingerprint(m) # Fingerprint(b)
  BY WritePassesForNoBatch
<1> QED BY <1>1, <1>2, WriteRemembers
        DEF TypeOK, IsRetry, AddsMemo, RejectIncomplete, AnswerFromKey

LEMMA RetryStep == RetryInv /\ [Next]_vars => RetryInv'
<1> SUFFICES ASSUME RetryInv, [Next]_vars PROVE BatchUnanswered'
  BY TypeStep DEF RetryInv
<1> USE DEF RetryInv
<1>1. ASSUME batch # None, batch'.envelope = batch.envelope,
             UNCHANGED processed
      PROVE  BatchUnanswered'
  BY <1>1 DEF BatchUnanswered, IsRetry
<1>2. CASE SkipRetryable \/ RejectUnsupported
  <2>1. PICK result \in Buckets : FileResult(result)
    BY <1>2 DEF SkipRetryable, RejectUnsupported, Buckets
  <2>2. batch'.envelope = batch.envelope
    BY <1>2, <2>1, FileResultKeeps DEF TypeOK, SkipRetryable, RejectUnsupported
  <2> QED BY <1>1, <1>2, <2>2 DEF SkipRetryable, RejectUnsupported
<1>3. CASE WriteItem
  <2> DEFINE m == ItemWrite(Head(batch.left))
  <2>1. m \in Writes /\ Write(m)
    BY <1>3, ItemWriteIsWrite DEF WriteItem, TypeOK
  <2>2. batch'.envelope = batch.envelope
    BY <1>3, ResultOfType, FileResultKeeps DEF WriteItem, TypeOK
  <2>3. /\ batch # None /\ batch.envelope \in Batches /\ ~IsIncomplete(batch.envelope)
        /\ ~IsRetry(batch.envelope)
    BY <1>3 DEF WriteItem, TypeOK, BatchOK, BatchUnanswered
  <2> HIDE DEF m
  <2>4. ~IsRetry(batch.envelope)'
    <3> DEFINE b == batch.envelope
    <3> HIDE DEF b
    <3>1. b \in Batches /\ ~IsIncomplete(b) /\ ~IsRetry(b)
      BY <2>3 DEF b, IsRetry
    <3>2. processed'[b.key] = None \/ processed'[b.key].fingerprint # Fingerprint(b)
      BY <2>1, <3>1, WriteIsNoBatch DEF IsRetry
    <3> QED BY <2>2, <3>2 DEF b, IsRetry
  <2> QED BY <2>4 DEF BatchUnanswered
<1>4. ASSUME NEW b \in Batches, StartBatch(b) PROVE BatchUnanswered'
  <2>1. batch'.envelope = b /\ UNCHANGED processed /\ processed[b.key] = None
    BY <1>4 DEF StartBatch, IsNew
  <2> QED BY <2>1 DEF BatchUnanswered, IsRetry
<1>5. ASSUME batch' = None PROVE BatchUnanswered'
  BY <1>5 DEF BatchUnanswered
<1>6. CASE UNCHANGED vars
  BY <1>6 DEF vars, BatchUnanswered, IsRetry, Fingerprint
<1> QED BY <1>2, <1>3, <1>4, <1>5, <1>6
        DEF Next, Receive, RepeatBatch, FinishBatch

LEMMA RetryActionHolds ==
  ASSUME RetryInv, [Next]_vars, NEW m \in Writes \cup Batches,
         reply' # reply, reply'.to = m, ~IsIncomplete(m), IsRetry(m)
  PROVE  /\ UNCHANGED <<account, processed, syncVersion>>
         /\ reply'.response = [processed[m.key].response EXCEPT !.duplicateOf = m.key]
<1> USE DEF RetryInv
<1>1. processed[m.key] # None /\ processed[m.key].fingerprint = Fingerprint(m)
  BY DEF IsRetry
<1>2. ASSUME NEW n \in Writes, Write(n) PROVE AnswerFromKey(m)
  <2>1. n = m
    BY <1>2, WriteRemembers DEF TypeOK, AddsMemo, RejectIncomplete, AnswerFromKey
  <2> QED BY <1>1, <1>2, <2>1, WriteRemembers DEF TypeOK, IsNew, RejectIncomplete
<1>3. ASSUME NEW b \in Batches, RejectIncomplete(b) \/ AnswerFromKey(b)
      PROVE  AnswerFromKey(m)
  BY <1>3 DEF RejectIncomplete, AnswerFromKey
<1>4. ~FinishBatch
  <2> SUFFICES ASSUME FinishBatch PROVE FALSE
    OBVIOUS
  <2>1. m = batch.envelope
    BY FinishBatchKeeps DEF AddsMemo
  <2> QED BY <2>1 DEF BatchUnanswered, FinishBatch
<1>5. AnswerFromKey(m)
  BY <1>2, <1>3, <1>4, NextCases
<1> QED BY <1>1, <1>5 DEF AnswerFromKey

\* "Retries must return the original accepted server result": a write or batch
\* that comes again under its key is answered from processedIdempotencyKeys as it
\* was the first time, and changes nothing.
THEOREM RetriesReturnOriginal == Spec => RetryReturnsOriginal
<1>1. Init => RetryInv
  BY TypeInit DEF Init, RetryInv, BatchUnanswered
<1>2. RetryInv /\ [Next]_vars =>
        [\A m \in Writes \cup Batches :
           (reply' # reply /\ reply'.to = m /\ ~IsIncomplete(m) /\ IsRetry(m)) =>
             /\ UNCHANGED <<account, processed, syncVersion>>
             /\ reply'.response =
                  [processed[m.key].response EXCEPT !.duplicateOf = m.key]]_vars
  BY RetryActionHolds
<1> QED BY <1>1, <1>2, RetryStep, PTL DEF Spec, RetryReturnsOriginal

-----------------------------------------------------------------------------
(* The cursor, and archived words *)

\* What a write does to the cursor and to the saved rows
LEMMA WriteMovesCursor ==
  ASSUME TypeOK, NEW m \in Writes, Write(m)
  PROVE  syncVersion' = syncVersion + One(account' # account)
<1>1. AccountOK
  BY DEF TypeOK
<1>2. syncVersion \in Nat
  BY <1>1 DEF AccountOK
<1>3. ASSUME UNCHANGED <<account, syncVersion>>
      PROVE  syncVersion' = syncVersion + One(account' # account)
  BY <1>2, <1>3 DEF One
<1>4. ASSUME account' # account, syncVersion' = syncVersion + 1
      PROVE  syncVersion' = syncVersion + One(account' # account)
  BY <1>4 DEF One
<1>5. CASE m.operation = "save_word" /\ SaveWord(m)
  <2> DEFINE at   == <<m.user, m.slug>>
             item == IF reviewState[at] = None THEN NewItem(m.savedAt)
                     ELSE reviewState[at]
             row  == SavedRow(savedWords[at], m)
  <2>1. m.user \in Users /\ m.slug \in Words /\ m.savedAt \in Nat
    BY <1>5, KeysAreKeys, EnvelopesAssumption DEF SaveWord, IsNew
  <2>2. at \in Users \X Words
    BY <2>1
  <2>3. /\ savedWords' = IF IsActive(at) THEN savedWords
                         ELSE [savedWords EXCEPT ![at] = row]
        /\ reviewState' = [reviewState EXCEPT ![at] = item]
        /\ syncVersion' = IF IsActive(at) /\ reviewState[at] # None
                          THEN syncVersion ELSE syncVersion + 1
        /\ UNCHANGED <<reviewEvents, dailyStats, packProgress>>
    BY <1>5 DEF SaveWord
  <2>4. item # None /\ (reviewState[at] # None => item = reviewState[at])
    BY <2>1, NewItemType, NoneAssumption
  <2>5. savedWords[at] \in Rows \cup {None}
    BY <1>1, <2>2 DEF AccountOK
  <2>6. row \in Rows /\ row.active = TRUE /\ row # None
    BY <2>1, <2>5, SavedRowType, NoneAssumption
  <2> HIDE DEF at, item, row
  <2>7. CASE IsActive(at) /\ reviewState[at] # None
    <3>1. reviewState' = reviewState
      BY <1>1, <2>2, <2>3, <2>4, <2>7 DEF AccountOK
    <3> QED BY <1>3, <2>3, <2>7, <3>1 DEF account
  <2>8. CASE reviewState[at] = None
    <3>1. reviewState'[at] = item
      BY <1>1, <2>2, <2>3 DEF AccountOK
    <3> QED BY <1>4, <2>3, <2>4, <2>8, <3>1 DEF account
  <2>9. CASE ~IsActive(at)
    <3>1. savedWords'[at] = row
      BY <1>1, <2>2, <2>3, <2>9 DEF AccountOK
    <3>2. savedWords' # savedWords
      BY <2>6, <2>9, <3>1 DEF IsActive
    <3> QED BY <1>4, <2>3, <2>9, <3>2 DEF account
  <2> QED BY <2>7, <2>8, <2>9
<1>6. CASE m.operation = "archive_word" /\ ArchiveWord(m)
  <2> DEFINE at  == <<m.user, m.slug>>
             row == ArchivedRow(savedWords[at], m)
  <2>1. m.user \in Users /\ m.slug \in Words
    BY <1>6, KeysAreKeys, EnvelopesAssumption DEF ArchiveWord, IsNew
  <2>2. at \in Users \X Words
    BY <2>1
  <2>3. /\ savedWords[at] \in Rows
        /\ savedWords' = [savedWords EXCEPT ![at] = row]
        /\ syncVersion' = syncVersion + 1
    BY <1>1, <1>6, <2>2 DEF AccountOK, ArchiveWord
  <2>4. row.version = savedWords[at].version + 1
    BY <2>3, ArchivedRowVersion
  <2> HIDE DEF at, row
  <2>5. savedWords'[at] = row /\ savedWords[at].version \in Nat
    BY <1>1, <2>2, <2>3 DEF AccountOK, Rows
  <2>6. savedWords' # savedWords
    BY <2>4, <2>5
  <2> QED BY <1>4, <2>3, <2>6 DEF account
<1>7. CASE m.operation = "submit_review_event" /\ AcceptEvent(m)
  <2> DEFINE event == [user |-> m.user, key |-> m.key, answer |-> m.answer,
                       pack |-> m.pack]
  <2>1. reviewEvents' = Append(reviewEvents, event) /\ syncVersion' = syncVersion + 1
    BY <1>7 DEF AcceptEvent
  <2> HIDE DEF event
  <2>2. Len(reviewEvents') = Len(reviewEvents) + 1 /\ Len(reviewEvents) \in Nat
    BY <1>1, <2>1 DEF AccountOK
  <2>3. reviewEvents' # reviewEvents
    BY <2>2
  <2> QED BY <1>4, <2>1, <2>3 DEF account
<1> QED BY <1>3, <1>5, <1>6, <1>7, WriteCases
        DEF RejectIncomplete, AnswerFromKey, Refuse, AcceptKnownEvent

\* The cursor moves exactly when the account does (advanceSyncCursor).
THEOREM CursorFollowsAccount == Spec => CursorTracksAccount
<1>1. TypeOK /\ [Next]_vars =>
        [syncVersion' = syncVersion + One(account' # account)]_vars
  <2> SUFFICES ASSUME TypeOK, [Next]_vars
               PROVE  syncVersion' = syncVersion + One(account' # account)
    OBVIOUS
  <2>1. syncVersion \in Nat
    BY DEF TypeOK, AccountOK
  <2>2. ASSUME UNCHANGED <<account, syncVersion>>
        PROVE  syncVersion' = syncVersion + One(account' # account)
    BY <2>1, <2>2 DEF One
  <2> QED BY <2>2, NextCases, WriteMovesCursor
          DEF RejectIncomplete, AnswerFromKey, FinishBatch
<1> QED BY <1>1, TypeInit, TypeStep, PTL DEF Spec, CursorTracksAccount

\* A word that becomes active was saved, under a new key.
LEMMA OpenedBySave ==
  ASSUME TypeOK, NEW m \in Writes, Write(m), NEW at \in Users \X Words,
         ~IsActive(at), IsActive(at)'
  PROVE  m.operation = "save_word" /\ SaveWord(m) /\ at = <<m.user, m.slug>>
<1>1. AccountOK
  BY DEF TypeOK
<1>2. ASSUME UNCHANGED savedWords PROVE FALSE
  BY <1>2 DEF IsActive
<1>3. CASE m.operation = "save_word" /\ SaveWord(m)
  <2> DEFINE here == <<m.user, m.slug>>
             row  == SavedRow(savedWords[here], m)
  <2>1. savedWords' = savedWords \/ savedWords' = [savedWords EXCEPT ![here] = row]
    BY <1>3 DEF SaveWord
  <2>2. here \in Users \X Words
    BY <1>3, KeysAreKeys, EnvelopesAssumption DEF SaveWord, IsNew
  <2> HIDE DEF here, row
  <2>3. at # here => savedWords'[at] = savedWords[at]
    BY <1>1, <2>1, <2>2 DEF AccountOK
  <2> QED BY <1>3, <2>3 DEF IsActive, here
<1>4. CASE m.operation = "archive_word" /\ ArchiveWord(m)
  <2> DEFINE here == <<m.user, m.slug>>
             row  == ArchivedRow(savedWords[here], m)
  <2>1. m.user \in Users /\ m.slug \in Words
    BY <1>4, KeysAreKeys, EnvelopesAssumption DEF ArchiveWord, IsNew
  <2>2. here \in Users \X Words
    BY <2>1
  <2>3. savedWords[here] \in Rows /\ savedWords' = [savedWords EXCEPT ![here] = row]
    BY <1>1, <1>4, <2>2 DEF AccountOK, ArchiveWord
  <2>4. row.active = FALSE
    BY <2>3, ArchivedRowVersion
  <2> HIDE DEF here, row
  <2>5. savedWords'[at] = IF at = here THEN row ELSE savedWords[at]
    BY <1>1, <2>2, <2>3 DEF AccountOK
  <2> QED BY <2>4, <2>5 DEF IsActive
<1> QED BY <1>2, <1>3, <1>4, WriteCases
        DEF RejectIncomplete, AnswerFromKey, Refuse, AcceptKnownEvent, AcceptEvent, account

\* An archived word is opened again only by a save the service has not answered
\* before, never by the late retry of an older one.
THEOREM ArchivedStaysArchived == Spec => ArchivedUntilSavedAgain
<1>1. ASSUME TypeOK, [Next]_vars, NEW at \in Users \X Words,
             savedWords[at] # None, ~IsActive(at), IsActive(at)'
      PROVE  \E m \in Writes :
               /\ m.operation = "save_word" /\ at = <<m.user, m.slug>>
               /\ ~IsIncomplete(m)
               /\ processed[m.key] = None /\ processed'[m.key] # None
  <2>1. PICK m \in Writes : Write(m)
    <3>1. savedWords' # savedWords
      BY <1>1 DEF IsActive
    <3> QED BY <1>1, <3>1, NextCases
            DEF RejectIncomplete, AnswerFromKey, FinishBatch, account
  <2>2. m.operation = "save_word" /\ SaveWord(m) /\ at = <<m.user, m.slug>>
    BY <1>1, <2>1, OpenedBySave
  <2>3. AddsMemo(m) /\ IsNew(m)
    BY <1>1, <2>2, SaveWordKeeps DEF TypeOK, SaveWord
  <2> QED BY <2>2, <2>3 DEF AddsMemo, IsNew
<1>2. TypeOK /\ [Next]_vars =>
        [\A at \in Users \X Words :
           (savedWords[at] # None /\ ~IsActive(at) /\ IsActive(at)') =>
             \E m \in Writes :
               /\ m.operation = "save_word" /\ at = <<m.user, m.slug>>
               /\ ~IsIncomplete(m)
               /\ processed[m.key] = None /\ processed'[m.key] # None]_vars
  BY <1>1
<1> QED BY <1>2, TypeInit, TypeStep, PTL DEF Spec, ArchivedUntilSavedAgain

-----------------------------------------------------------------------------
(* What was answered with ok is there *)

\* The envelope has an answer, and it is ok.
WasAccepted(m) ==
  ~IsIncomplete(m) /\ IsRetry(m) /\ processed[m.key].response.status = "ok"

AnsweredOk(key) ==
  key \in Keys /\ processed[key] # None /\ processed[key].response.status = "ok"

\* A saved word has its review state: what an archive of the word relies on.
SavedHasState ==
  \A at \in Users \X Words : savedWords[at] # None => reviewState[at] # None

WritesCarried ==
  \A m \in Writes : WasAccepted(m) => Carried(m)

\* An item reported as accepted was.
ItemsAnswered(items, results) ==
  \A i \in DOMAIN results :
    results[i] \in {"synced", "conflict_resolved"} => AnsweredOk(items[i].write.key)

BatchesCarried ==
  \A b \in Batches : WasAccepted(b) =>
    /\ Len(processed[b.key].response.results) = Len(b.items)
    /\ ItemsAnswered(b.items, processed[b.key].response.results)

\* While a batch runs, its results and the items left make up its items.
BatchInStep ==
  batch # None =>
    LET items == batch.envelope.items IN
    /\ Len(items) = Len(batch.results) + Len(batch.left)
    /\ \A j \in DOMAIN batch.left : batch.left[j] = items[Len(batch.results) + j]
    /\ ItemsAnswered(items, batch.results)

CarriedInv ==
  RetryInv /\ SavedHasState /\ WritesCarried /\ BatchesCarried /\ BatchInStep

\* A key answered with ok stays so, even when a batch takes the key of one of its
\* items for its own answer.
LEMMA AnswersStay ==
  ASSUME TypeOK, [Next]_vars, NEW key, AnsweredOk(key)
  PROVE  AnsweredOk(key)'
<1> USE DEF TypeOK
<1>1. key \in Keys /\ processed[key] # None /\ processed[key].response.status = "ok"
  BY DEF AnsweredOk
<1>2. ASSUME processed'[key] = processed[key] PROVE AnsweredOk(key)'
  BY <1>1, <1>2 DEF AnsweredOk
<1>3. ASSUME NEW m \in Writes, Write(m) PROVE AnsweredOk(key)'
  BY <1>1, <1>2, <1>3, WriteRemembers
     DEF AddsMemo, RejectIncomplete, AnswerFromKey, IsNew
<1>4. CASE FinishBatch
  <2>1. AddsMemo(batch.envelope)
    BY <1>4, FinishBatchKeeps
  <2>2. reply'.response.status = "ok"
    BY <1>4 DEF FinishBatch, Remember, Ok
  <2>3. CASE key = batch.envelope.key
    BY <1>1, <2>1, <2>2, <2>3 DEF AddsMemo, AnsweredOk
  <2> QED BY <1>1, <1>2, <2>1, <2>3 DEF AddsMemo
<1>5. ASSUME UNCHANGED processed PROVE AnsweredOk(key)'
  BY <1>2, <1>5
<1> QED BY <1>3, <1>4, <1>5, NextCases DEF RejectIncomplete, AnswerFromKey

\* A write makes no other envelope accepted.
LEMMA AcceptedBefore ==
  ASSUME TypeOK, NEW m \in Writes, Write(m), NEW n \in Writes \cup Batches,
         WasAccepted(n)'
  PROVE  \/ WasAccepted(n) /\ processed'[n.key] = processed[n.key]
         \/ n = m /\ IsNew(m)
<1> USE DEF TypeOK
<1>1. ~IsIncomplete(n) /\ n.key \in Keys
  BY KeysAreKeys DEF WasAccepted, IsIncomplete
<1>2. /\ processed'[n.key] # None
      /\ processed'[n.key].fingerprint = Fingerprint(n)
      /\ processed'[n.key].response.status = "ok"
  BY DEF WasAccepted, IsRetry, Fingerprint
<1>3. ASSUME processed'[n.key] = processed[n.key] PROVE WasAccepted(n)
  BY <1>1, <1>2, <1>3 DEF WasAccepted, IsRetry
<1>4. CASE IsNew(m) /\ AddsMemo(m) /\ m.key = n.key
  BY <1>2, <1>4, FingerprintTells DEF AddsMemo
<1> QED BY <1>1, <1>3, <1>4, WriteRemembers DEF AddsMemo, RejectIncomplete, AnswerFromKey

WordsKept ==
  \A at \in Users \X Words :
    /\ savedWords[at] # None => savedWords'[at] # None
    /\ reviewState[at] # None => reviewState'[at] # None

\* Nothing a write does takes back what was carried out.
LEMMA CarriedStays ==
  ASSUME TypeOK, SavedHasState, NEW m \in Writes, Write(m)
  PROVE  /\ \A n : StoredEvents(n) # {} => StoredEvents(n)' # {}
         /\ WordsKept /\ SavedHasState'
<1> DEFINE Kept == /\ \A n : StoredEvents(n) # {} => StoredEvents(n)' # {}
                   /\ WordsKept /\ SavedHasState'
<1>1. AccountOK
  BY DEF TypeOK
<1>2. ASSUME UNCHANGED reviewEvents
      PROVE  \A n : StoredEvents(n) # {} => StoredEvents(n)' # {}
  BY <1>2 DEF StoredEvents
<1>3. ASSUME UNCHANGED account PROVE Kept
  BY <1>2, <1>3 DEF account, WordsKept, SavedHasState
<1>4. CASE m.operation = "save_word" /\ SaveWord(m)
  <2> DEFINE here == <<m.user, m.slug>>
             item == IF reviewState[here] = None THEN NewItem(m.savedAt)
                     ELSE reviewState[here]
             row  == SavedRow(savedWords[here], m)
  <2>1. m.user \in Users /\ m.slug \in Words /\ m.savedAt \in Nat
    BY <1>4, KeysAreKeys, EnvelopesAssumption DEF SaveWord, IsNew
  <2>2. here \in Users \X Words
    BY <2>1
  <2>3. item # None
    BY <2>1, NewItemType, NoneAssumption
  <2>4. savedWords[here] \in Rows \cup {None}
    BY <1>1, <2>2 DEF AccountOK
  <2>5. row # None
    BY <2>1, <2>4, SavedRowType, NoneAssumption
  <2>6. /\ savedWords' = IF IsActive(here) THEN savedWords
                         ELSE [savedWords EXCEPT ![here] = row]
        /\ reviewState' = [reviewState EXCEPT ![here] = item]
        /\ UNCHANGED reviewEvents
    BY <1>4 DEF SaveWord
  <2> HIDE DEF here, item, row
  <2>7. \A at \in Users \X Words :
          /\ savedWords'[at] \in {savedWords[at], row}
          /\ at # here => savedWords'[at] = savedWords[at]
          /\ reviewState'[at] = IF at = here THEN item ELSE reviewState[at]
    BY <1>1, <2>2, <2>6 DEF AccountOK
  <2>8. \A at \in Users \X Words : savedWords'[at] # None => reviewState'[at] # None
    BY <2>3, <2>7 DEF SavedHasState
  <2> QED BY <1>2, <2>3, <2>5, <2>6, <2>7, <2>8 DEF WordsKept, SavedHasState
<1>5. CASE m.operation = "archive_word" /\ ArchiveWord(m)
  <2> DEFINE here == <<m.user, m.slug>>
             row  == ArchivedRow(savedWords[here], m)
  <2>1. m.user \in Users /\ m.slug \in Words /\ m.archivedAt \in Nat
    BY <1>5, KeysAreKeys, EnvelopesAssumption DEF ArchiveWord, IsNew
  <2>2. here \in Users \X Words
    BY <2>1
  <2>3. /\ savedWords[here] \in Rows /\ savedWords[here] # None
        /\ savedWords' = [savedWords EXCEPT ![here] = row]
        /\ UNCHANGED <<reviewState, reviewEvents>>
    BY <1>1, <1>5, <2>2 DEF AccountOK, ArchiveWord
  <2>4. row # None
    BY <2>1, <2>3, ArchivedRowType, NoneAssumption
  <2> HIDE DEF here, row
  <2>5. \A at \in Users \X Words :
          savedWords'[at] = IF at = here THEN row ELSE savedWords[at]
    BY <1>1, <2>2, <2>3 DEF AccountOK
  <2> QED BY <1>2, <2>3, <2>4, <2>5 DEF WordsKept, SavedHasState
<1>6. CASE m.operation = "submit_review_event" /\ AcceptEvent(m)
  <2> DEFINE here  == <<m.user, m.answer.slug>>
             item  == IF reviewState[here] = None THEN NewItem(m.answer.createdAt)
                      ELSE reviewState[here]
             next  == ItemAfter(item, m.answer)
             event == [user |-> m.user, key |-> m.key, answer |-> m.answer,
                       pack |-> m.pack]
  <2>1. /\ m.user \in Users /\ m.answer.slug \in Words
        /\ EngineAnswer(m.answer) /\ m.answer.createdAt \in Nat
    BY <1>6, KeysAreKeys, EnvelopesAssumption DEF AcceptEvent, IsNew, EngineAnswer
  <2>2. here \in Users \X Words
    BY <2>1
  <2>3. reviewState[here] \in Item \cup {None}
    BY <1>1, <2>2 DEF AccountOK
  <2>4. item \in Item
    BY <2>1, <2>3, NewItemType
  <2>5. next # None
    BY <2>1, <2>4, ItemAfterType, NoneAssumption
  <2>6. /\ reviewEvents' = Append(reviewEvents, event)
        /\ reviewState' = [reviewState EXCEPT ![here] = next]
        /\ UNCHANGED savedWords
    BY <1>6 DEF AcceptEvent
  <2> HIDE DEF here, item, next, event
  <2>7. \A at \in Users \X Words :
          reviewState'[at] = IF at = here THEN next ELSE reviewState[at]
    BY <1>1, <2>2, <2>6 DEF AccountOK
  <2>8. /\ DOMAIN reviewEvents \subseteq DOMAIN reviewEvents'
        /\ \A i \in DOMAIN reviewEvents : reviewEvents'[i] = reviewEvents[i]
    <3>1. reviewEvents \in Seq(StoredEvent)
      BY <1>1 DEF AccountOK
    <3> QED BY <2>6, <3>1
  <2>9. \A n : StoredEvents(n) \subseteq StoredEvents(n)'
    BY <2>8 DEF StoredEvents
  <2>10. \A n : StoredEvents(n) # {} => StoredEvents(n)' # {}
    BY <2>9
  <2> QED BY <2>5, <2>6, <2>7, <2>10 DEF WordsKept, SavedHasState
<1> QED BY <1>3, <1>4, <1>5, <1>6, WriteCases
        DEF RejectIncomplete, AnswerFromKey, Refuse, AcceptKnownEvent

\* What a new write is answered with ok, it carried out.
LEMMA NewIsCarried ==
  ASSUME TypeOK, SavedHasState, NEW m \in Writes, Write(m), IsNew(m), WasAccepted(m)'
  PROVE  Carried(m)'
<1>1. AccountOK /\ m.user \in Users /\ m.key \in Keys
  BY KeysAreKeys DEF TypeOK, IsNew
<1>2. reply'.response.status = "ok"
  BY <1>1, WriteRemembers DEF TypeOK, IsNew, RejectIncomplete, AnswerFromKey, AddsMemo, WasAccepted
<1>3. ~RejectIncomplete(m) /\ ~AnswerFromKey(m)
  BY DEF IsNew, RejectIncomplete, AnswerFromKey
<1>4. ~Refuse(m)
  BY <1>2 DEF Refuse, Remember, Error
<1>5. CASE m.operation = "save_word" /\ SaveWord(m)
  <2> DEFINE here == <<m.user, m.slug>>
             item == IF reviewState[here] = None THEN NewItem(m.savedAt)
                     ELSE reviewState[here]
             row  == SavedRow(savedWords[here], m)
  <2>1. m.slug \in Words /\ m.savedAt \in Nat
    BY <1>5, EnvelopesAssumption
  <2>2. here \in Users \X Words
    BY <1>1, <2>1
  <2>3. item # None
    BY <2>1, NewItemType, NoneAssumption
  <2>4. savedWords[here] \in Rows \cup {None}
    BY <1>1, <2>2 DEF AccountOK
  <2>5. row # None
    BY <2>1, <2>4, SavedRowType, NoneAssumption
  <2>6. /\ savedWords' = IF IsActive(here) THEN savedWords
                         ELSE [savedWords EXCEPT ![here] = row]
        /\ reviewState' = [reviewState EXCEPT ![here] = item]
    BY <1>5 DEF SaveWord
  <2> HIDE DEF here, item, row
  <2>7. savedWords'[here] # None /\ reviewState'[here] # None
    BY <1>1, <2>2, <2>3, <2>5, <2>6 DEF AccountOK, IsActive
  <2> QED BY <1>5, <2>7 DEF Carried, here
<1>6. CASE m.operation = "archive_word" /\ ArchiveWord(m)
  <2> DEFINE here == <<m.user, m.slug>>
  <2>1. here \in Users \X Words
    BY <1>1, <1>6, EnvelopesAssumption
  <2>2. savedWords[here] # None
    BY <1>6 DEF ArchiveWord
  <2>3. reviewState[here] # None
    BY <2>1, <2>2 DEF SavedHasState
  <2> HIDE DEF here
  <2>4. savedWords'[here] # None /\ reviewState'[here] # None
    BY <2>1, <2>2, <2>3, CarriedStays DEF WordsKept
  <2> QED BY <1>6, <2>4 DEF Carried, here
<1>7. CASE m.operation = "submit_review_event" /\ AcceptKnownEvent(m)
  <2>1. StoredEvents(m) # {}
    BY <1>7 DEF AcceptKnownEvent
  <2>2. StoredEvents(m)' # {}
    BY <2>1, CarriedStays
  <2> QED BY <1>7, <2>2 DEF Carried
<1>8. CASE m.operation = "submit_review_event" /\ AcceptEvent(m)
  <2> DEFINE event == [user |-> m.user, key |-> m.key, answer |-> m.answer,
                       pack |-> m.pack]
             n == Len(reviewEvents)
  <2>1. reviewEvents' = Append(reviewEvents, event)
    BY <1>8 DEF AcceptEvent
  <2>2. event.user = m.user /\ event.answer = m.answer
    OBVIOUS
  <2>3. reviewEvents \in Seq(StoredEvent) /\ n \in Nat
    BY <1>1 DEF AccountOK
  <2> HIDE DEF event
  <2>4. n + 1 \in DOMAIN reviewEvents' /\ reviewEvents'[n + 1] = event
    BY <2>1, <2>3
  <2> HIDE DEF n
  <2>5. n + 1 \in StoredEvents(m)'
    BY <2>2, <2>4 DEF StoredEvents
  <2> QED BY <1>8, <2>5 DEF Carried
<1> QED BY <1>3, <1>4, <1>5, <1>6, <1>7, <1>8, WriteCases

\* What a write was carried out for stays.
LEMMA WriteStaysCarried ==
  ASSUME TypeOK, SavedHasState, NEW m \in Writes, Write(m), NEW n \in Writes,
         ~IsIncomplete(n), Carried(n)
  PROVE  Carried(n)'
<1>1. CASE n.operation = "submit_review_event"
  BY <1>1, CarriedStays DEF Carried
<1>2. CASE n.operation \in {"save_word", "archive_word"}
  <2>1. <<n.user, n.slug>> \in Users \X Words
    BY <1>2, KeysAreKeys, EnvelopesAssumption
  <2>2. /\ savedWords[<<n.user, n.slug>>] # None
        /\ reviewState[<<n.user, n.slug>>] # None
    BY <1>2 DEF Carried
  <2>3. /\ savedWords'[<<n.user, n.slug>>] # None
        /\ reviewState'[<<n.user, n.slug>>] # None
    BY <2>1, <2>2, CarriedStays DEF WordsKept
  <2> QED BY <1>2, <2>3 DEF Carried
<1>3. CASE n.operation = "unsupported"
  BY <1>3 DEF Carried
<1> QED BY <1>1, <1>2, <1>3, WriteOperations

\* Accepted items stay accepted.
LEMMA ItemsStayAnswered ==
  ASSUME TypeOK, [Next]_vars, NEW items, NEW results, ItemsAnswered(items, results)
  PROVE  ItemsAnswered(items, results)'
BY AnswersStay DEF ItemsAnswered

\* A write.
LEMMA WriteCarries ==
  ASSUME CarriedInv, [Next]_vars, NEW m \in Writes, Write(m)
  PROVE  SavedHasState' /\ WritesCarried' /\ BatchesCarried'
<1> USE DEF CarriedInv, RetryInv
<1>1. SavedHasState'
  BY CarriedStays
<1>2. WritesCarried'
  <2> SUFFICES ASSUME NEW n \in Writes, WasAccepted(n)'
               PROVE  Carried(n)'
    BY DEF WritesCarried
  <2>1. CASE WasAccepted(n)
    <3>1. Carried(n) /\ ~IsIncomplete(n)
      BY <2>1 DEF WritesCarried, WasAccepted
    <3> QED BY <3>1, WriteStaysCarried
  <2>2. CASE n = m /\ IsNew(m)
    BY <2>2, NewIsCarried
  <2> QED BY <2>1, <2>2, AcceptedBefore
<1>3. ASSUME NEW b \in Batches, WasAccepted(b)'
      PROVE  /\ Len(processed'[b.key].response.results) = Len(b.items)
             /\ ItemsAnswered(b.items, processed[b.key].response.results)'
  <2>1. b # m
    BY EnvelopesAssumption, WriteOperations
  <2>2. WasAccepted(b) /\ processed'[b.key] = processed[b.key]
    BY <1>3, <2>1, AcceptedBefore
  <2>3. PICK results : results = processed[b.key].response.results
    OBVIOUS
  <2>4. Len(results) = Len(b.items) /\ ItemsAnswered(b.items, results)
    BY <2>2, <2>3 DEF BatchesCarried
  <2>5. ItemsAnswered(b.items, results)'
    BY <2>4, ItemsStayAnswered
  <2>6. processed'[b.key].response.results = results
    BY <2>2, <2>3
  <2>7. ItemsAnswered(b.items, processed[b.key].response.results)'
    BY <2>5, <2>6 DEF ItemsAnswered
  <2> QED BY <2>4, <2>6, <2>7
<1> QED BY <1>1, <1>2, <1>3 DEF BatchesCarried

LEMMA NothingCarries ==
  ASSUME CarriedInv, UNCHANGED <<account, processed>>
  PROVE  SavedHasState' /\ WritesCarried' /\ BatchesCarried'
<1>1. SavedHasState'
  BY DEF CarriedInv, SavedHasState, account
<1>2. WritesCarried'
  <2> SUFFICES ASSUME NEW m \in Writes, WasAccepted(m)' PROVE Carried(m)'
    BY DEF WritesCarried
  <2>1. WasAccepted(m)
    BY DEF WasAccepted, IsRetry, Fingerprint
  <2>2. Carried(m)
    BY <2>1 DEF CarriedInv, WritesCarried
  <2> QED BY <2>2 DEF Carried, StoredEvents, account
<1>3. BatchesCarried'
  BY DEF CarriedInv, BatchesCarried, WasAccepted, IsRetry, Fingerprint,
         ItemsAnswered, AnsweredOk
<1> QED BY <1>1, <1>2, <1>3

\* The end of a batch.
LEMMA FinishCarries ==
  ASSUME CarriedInv, [Next]_vars, FinishBatch
  PROVE  SavedHasState' /\ WritesCarried' /\ BatchesCarried'
<1> USE DEF CarriedInv, RetryInv
<1> DEFINE b == batch.envelope
<1>1. TypeOK /\ b \in Batches /\ ~IsIncomplete(b)
  BY DEF TypeOK, BatchOK, FinishBatch
<1>2. AddsMemo(b)
  BY FinishBatchKeeps
<1>3. processed'[b.key].response.results = batch.results
  <2> DEFINE ok == Ok(None, syncVersion, None)
  <2>1. ok \in Responses
    BY OkType DEF TypeOK, AccountOK
  <2>2. reply'.response = [ok EXCEPT !.results = batch.results]
    BY DEF FinishBatch, Remember
  <2> HIDE DEF ok
  <2>3. reply'.response.results = batch.results
    BY <2>1, <2>2 DEF Responses
  <2> QED BY <1>2, <2>3 DEF AddsMemo
<1>4. UNCHANGED account
  BY DEF FinishBatch
<1>5. /\ Len(b.items) = Len(batch.results)
      /\ ItemsAnswered(b.items, batch.results)
  <2>1. batch # None /\ Len(batch.left) = 0
    BY DEF FinishBatch
  <2>2. Len(batch.results) \in Nat
    BY <2>1 DEF TypeOK, BatchOK
  <2> QED BY <2>1, <2>2 DEF BatchInStep
<1> HIDE DEF b
<1>6. SavedHasState'
  BY <1>4 DEF SavedHasState, account
<1>7. ASSUME NEW n \in Writes \cup Batches, WasAccepted(n)'
      PROVE  \/ WasAccepted(n) /\ processed'[n.key] = processed[n.key]
             \/ n = b
  <2>1. ~IsIncomplete(n) /\ n.key \in Keys
    BY <1>7, KeysAreKeys DEF WasAccepted, IsIncomplete
  <2>2. /\ processed'[n.key] # None
        /\ processed'[n.key].fingerprint = Fingerprint(n)
        /\ processed'[n.key].response.status = "ok"
    BY <1>7 DEF WasAccepted, IsRetry, Fingerprint
  <2>3. CASE n.key = b.key
    BY <1>1, <1>2, <2>2, <2>3, FingerprintTells DEF AddsMemo
  <2>4. CASE n.key # b.key
    BY <1>2, <2>1, <2>2, <2>4 DEF AddsMemo, WasAccepted, IsRetry
  <2> QED BY <2>3, <2>4
<1>8. WritesCarried'
  <2> SUFFICES ASSUME NEW n \in Writes, WasAccepted(n)'
               PROVE  Carried(n)'
    BY DEF WritesCarried
  <2>1. n.operation # "sync_pending_local_queue" /\ n # b
    BY <1>1, WriteOperations, EnvelopesAssumption
  <2>2. Carried(n)
    BY <1>7, <2>1 DEF WritesCarried
  <2> QED BY <1>4, <2>1, <2>2 DEF Carried, StoredEvents, account
<1>9. ASSUME NEW c \in Batches, WasAccepted(c)'
      PROVE  /\ Len(processed'[c.key].response.results) = Len(c.items)
             /\ ItemsAnswered(c.items, processed[c.key].response.results)'
  <2>1. PICK results : results = processed'[c.key].response.results
    OBVIOUS
  <2>2. Len(results) = Len(c.items) /\ ItemsAnswered(c.items, results)
    <3>1. CASE WasAccepted(c) /\ processed'[c.key] = processed[c.key]
      BY <2>1, <3>1 DEF BatchesCarried
    <3>2. CASE c = b
      BY <1>3, <1>5, <2>1, <3>2
    <3> QED BY <1>7, <1>9, <3>1, <3>2
  <2>3. ItemsAnswered(c.items, results)'
    BY <2>2, ItemsStayAnswered
  <2>4. ItemsAnswered(c.items, processed[c.key].response.results)'
    BY <2>1, <2>3 DEF ItemsAnswered
  <2> QED BY <2>1, <2>2, <2>4
<1>10. BatchesCarried'
  BY <1>9 DEF BatchesCarried
<1> QED BY <1>6, <1>8, <1>10

\* The reply says of a write what its key will say.
LEMMA ReplyIsRemembered ==
  ASSUME TypeOK, NEW m \in Writes, Write(m), reply'.response.status = "ok"
  PROVE  AnsweredOk(m.key)'
<1>1. CASE IsNew(m) /\ AddsMemo(m)
  BY <1>1 DEF AddsMemo, AnsweredOk
<1>2. CASE AnswerFromKey(m)
  <2>1. m.key \in Keys /\ processed[m.key] # None /\ processed' = processed
    BY <1>2, KeysAreKeys DEF AnswerFromKey
  <2>2. processed[m.key] \in Memo
    BY <2>1 DEF TypeOK, RepliesOK
  <2>3. processed[m.key].fingerprint = Fingerprint(m)
    BY <1>2 DEF AnswerFromKey, Error
  <2>4. reply'.response = [processed[m.key].response EXCEPT !.duplicateOf = m.key]
    BY <1>2, <2>3 DEF AnswerFromKey
  <2>5. reply'.response.status = processed[m.key].response.status
    BY <2>2, <2>4 DEF Memo, Responses
  <2> QED BY <2>1, <2>5 DEF AnsweredOk
<1>3. ~RejectIncomplete(m)
  BY DEF RejectIncomplete, Error
<1> QED BY <1>1, <1>2, <1>3, WriteRemembers DEF TypeOK

\* An item's write has the item's key, whoever sends it.
LEMMA ItemWriteKey ==
  ASSUME NEW item \in Queued
  PROVE  ItemWrite(item).key = item.write.key
<1>1. "key" \in DOMAIN item.write
  BY EnvelopesAssumption DEF Writes
<1> QED BY <1>1 DEF ItemWrite, OfSender

\* An item's result is filed behind the others.
LEMMA FileResultInStep ==
  ASSUME CarriedInv, [Next]_vars, batch # None, batch.left # << >>,
         NEW result \in Buckets, FileResult(result),
         NEW key, key = Head(batch.left).write.key,
         result \in {"synced", "conflict_resolved"} => AnsweredOk(key)'
  PROVE  BatchInStep'
<1> USE DEF CarriedInv, RetryInv
<1> DEFINE items   == batch.envelope.items
           left    == batch.left
           results == batch.results
<1>1. left \in Seq(Queued) /\ results \in Seq(Buckets)
  BY DEF TypeOK, BatchOK
<1>2. /\ Len(items) = Len(results) + Len(left)
      /\ \A j \in DOMAIN left : left[j] = items[Len(results) + j]
      /\ ItemsAnswered(items, results)
  BY DEF BatchInStep
<1>3. /\ batch'.envelope = batch.envelope
      /\ batch'.left = Tail(left) /\ batch'.results = Append(results, result)
  <2> DEFINE Open == [envelope: Batches, left: Seq(Queued), results: Seq(Buckets)]
             cut  == [batch EXCEPT !.left = Tail(batch.left)]
             new  == [cut EXCEPT !.results = Append(batch.results, result)]
  <2>1. batch \in Open /\ Tail(batch.left) \in Seq(Queued)
    BY ItemWriteIsWrite DEF TypeOK, BatchOK
  <2>2. /\ cut \in Open /\ cut.left = Tail(batch.left)
        /\ cut.envelope = batch.envelope
    BY <2>1
  <2> HIDE DEF cut
  <2>3. /\ new.envelope = batch.envelope /\ new.left = Tail(batch.left)
        /\ new.results = Append(batch.results, result)
    BY <2>2
  <2>4. batch' = new
    BY DEF FileResult, new, cut
  <2> HIDE DEF new
  <2> QED BY <2>3, <2>4
<1>4. left # << >>
  OBVIOUS
<1>5. PICK q : q = items
  OBVIOUS
<1>6. PICK r : r = results
  OBVIOUS
<1>7. PICK l : l = left
  OBVIOUS
<1> HIDE DEF items, left, results
<1>8. l \in Seq(Queued) /\ r \in Seq(Buckets) /\ l # << >>
  BY <1>1, <1>4, <1>6, <1>7
<1>9. /\ Len(q) = Len(r) + Len(l)
      /\ \A j \in DOMAIN l : l[j] = q[Len(r) + j]
      /\ ItemsAnswered(q, r)
  BY <1>2, <1>5, <1>6, <1>7
<1>10. /\ Len(Tail(l)) = Len(l) - 1 /\ Len(l) \in Nat \ {0}
       /\ DOMAIN Tail(l) = 1..(Len(l) - 1) /\ DOMAIN l = 1..Len(l)
       /\ \A j \in DOMAIN Tail(l) : Tail(l)[j] = l[j + 1]
       /\ Head(l) = l[1]
  BY <1>8
<1>11. /\ Len(Append(r, result)) = Len(r) + 1 /\ Len(r) \in Nat
       /\ DOMAIN Append(r, result) = 1..(Len(r) + 1) /\ DOMAIN r = 1..Len(r)
       /\ \A i \in DOMAIN r : Append(r, result)[i] = r[i]
       /\ Append(r, result)[Len(r) + 1] = result
  BY <1>8
<1>12. Len(q) = Len(Append(r, result)) + Len(Tail(l))
  BY <1>9, <1>10, <1>11
<1>13. \A j \in DOMAIN Tail(l) : Tail(l)[j] = q[Len(Append(r, result)) + j]
  <2> SUFFICES ASSUME NEW j \in 1..(Len(l) - 1)
               PROVE  Tail(l)[j] = q[Len(r) + 1 + j]
    BY <1>10, <1>11
  <2>1. j + 1 \in DOMAIN l /\ Len(r) + (j + 1) = Len(r) + 1 + j
    BY <1>10, <1>11
  <2> QED BY <1>9, <1>10, <2>1
<1>14. ItemsAnswered(q, Append(r, result))'
  <2> SUFFICES ASSUME NEW i \in 1..(Len(r) + 1),
                      Append(r, result)[i] \in {"synced", "conflict_resolved"}
               PROVE  AnsweredOk(q[i].write.key)'
    BY <1>11 DEF ItemsAnswered
  <2>1. CASE i = Len(r) + 1
    <3>1. 1 \in DOMAIN l
      BY <1>10
    <3>2. q[i] = Head(l)
      BY <1>9, <1>10, <2>1, <3>1
    <3>3. result \in {"synced", "conflict_resolved"}
      BY <1>11, <2>1
    <3>4. q[i].write.key = key
      BY <1>7, <3>2 DEF left
    <3> QED BY <3>3, <3>4
  <2>2. CASE i # Len(r) + 1
    <3>1. i \in DOMAIN r /\ r[i] \in {"synced", "conflict_resolved"}
      BY <1>11, <2>2
    <3>2. ItemsAnswered(q, r)'
      BY <1>9, ItemsStayAnswered
    <3> QED BY <3>1, <3>2 DEF ItemsAnswered
  <2> QED BY <2>1, <2>2
<1>15. /\ batch'.envelope.items = q
       /\ batch'.left = Tail(l) /\ batch'.results = Append(r, result)
  BY <1>3, <1>5, <1>6, <1>7 DEF items
<1>16. ItemsAnswered(batch.envelope.items, batch.results)'
  BY <1>14, <1>15 DEF ItemsAnswered
<1> QED BY <1>12, <1>13, <1>15, <1>16 DEF BatchInStep

LEMMA CarriedStep == CarriedInv /\ [Next]_vars => CarriedInv'
<1> SUFFICES ASSUME CarriedInv, [Next]_vars PROVE CarriedInv'
  OBVIOUS
<1> DEFINE Carries == SavedHasState' /\ WritesCarried' /\ BatchesCarried'
<1>1. TypeOK /\ BatchOK /\ RetryInv /\ RetryInv'
  BY RetryStep DEF CarriedInv, RetryInv, TypeOK
<1>2. ASSUME UNCHANGED batch PROVE BatchInStep'
  <2>1. CASE batch = None
    BY <1>2, <2>1 DEF BatchInStep
  <2>2. CASE batch # None
    <3>1. PICK items, results : /\ items = batch.envelope.items
                                /\ results = batch.results
      OBVIOUS
    <3>2. ItemsAnswered(items, results)
      BY <2>2, <3>1 DEF CarriedInv, BatchInStep
    <3>3. ItemsAnswered(items, results)'
      BY <1>1, <3>2, ItemsStayAnswered
    <3>4. ItemsAnswered(batch.envelope.items, batch.results)'
      BY <1>2, <3>1, <3>3 DEF ItemsAnswered
    <3> QED BY <1>2, <2>2, <3>4 DEF CarriedInv, BatchInStep
  <2> QED BY <2>1, <2>2
<1>3. ASSUME NEW m \in Envelopes, Receive(m) PROVE Carries /\ BatchInStep'
  <2>1. m \in Writes /\ Write(m) /\ UNCHANGED batch
    BY <1>3 DEF Writes, Receive
  <2> QED BY <1>2, <2>1, WriteCarries
<1>4. ASSUME NEW b \in Batches, StartBatch(b) PROVE Carries /\ BatchInStep'
  <2>1. /\ UNCHANGED <<account, processed>>
        /\ batch'.envelope = b /\ batch'.left = b.items /\ batch'.results = << >>
    BY <1>4 DEF StartBatch
  <2>2. b.items \in Seq(Queued)
    BY EnvelopesAssumption
  <2>3. Len(b.items) = 0 + Len(b.items) /\ \A j \in DOMAIN b.items : 0 + j = j
    BY <2>2
  <2>4. Len(<< >>) = 0 /\ DOMAIN << >> = {}
    OBVIOUS
  <2>5. BatchInStep'
    BY <2>1, <2>3, <2>4 DEF BatchInStep, ItemsAnswered
  <2> QED BY <2>1, <2>5, NothingCarries
<1>5. ASSUME NEW b \in Batches, RepeatBatch(b) PROVE Carries /\ BatchInStep'
  <2>1. UNCHANGED <<account, processed, batch>>
    BY <1>5 DEF RepeatBatch, RejectIncomplete, AnswerFromKey
  <2> QED BY <1>2, <2>1, NothingCarries
<1>6. ASSUME SkipRetryable PROVE Carries /\ BatchInStep'
  <2>1. FileResult("retryable_error") /\ "retryable_error" \in Buckets
    BY <1>6 DEF SkipRetryable, Buckets
  <2>2. PICK key : key = Head(batch.left).write.key
    OBVIOUS
  <2>3. BatchInStep'
    BY <1>6, <2>1, <2>2, FileResultInStep DEF SkipRetryable
  <2>4. UNCHANGED <<account, processed>>
    BY <1>6 DEF SkipRetryable
  <2> QED BY <2>3, <2>4, NothingCarries
<1>7. ASSUME RejectUnsupported PROVE Carries /\ BatchInStep'
  <2>1. FileResult("rejected") /\ "rejected" \in Buckets
    BY <1>7 DEF RejectUnsupported, Buckets
  <2>2. PICK key : key = Head(batch.left).write.key
    OBVIOUS
  <2>3. BatchInStep'
    BY <1>7, <2>1, <2>2, FileResultInStep DEF RejectUnsupported
  <2>4. UNCHANGED <<account, processed>>
    BY <1>7 DEF RejectUnsupported
  <2> QED BY <2>3, <2>4, NothingCarries
<1>8. ASSUME WriteItem PROVE Carries /\ BatchInStep'
  <2>1. PICK item : item = Head(batch.left)
    OBVIOUS
  <2>2. PICK m : m = ItemWrite(item)
    OBVIOUS
  <2>3. /\ batch # None /\ batch.left # << >>
        /\ Write(m) /\ FileResult(ResultOf(reply'.response))
    BY <1>8, <2>1, <2>2 DEF WriteItem
  <2>4. m \in Writes
    BY <1>1, <2>1, <2>2, <2>3, ItemWriteIsWrite
  <2>5. item \in Queued
    <3>1. batch.left \in Seq(Queued)
      BY <1>1, <2>3 DEF BatchOK
    <3> QED BY <2>1, <2>3, <3>1
  <2>6. m.key = item.write.key
    BY <2>2, <2>5, ItemWriteKey
  <2>7. PICK result : result = ResultOf(reply'.response)
    OBVIOUS
  <2>8. result \in Buckets
    BY <2>7, ResultOfType
  <2>9. result \in {"synced", "conflict_resolved"} => AnsweredOk(item.write.key)'
    <3>1. ASSUME result \in {"synced", "conflict_resolved"}
          PROVE  reply'.response.status = "ok"
      BY <2>7, <3>1 DEF ResultOf
    <3>2. reply'.response.status = "ok" => AnsweredOk(m.key)'
      BY <1>1, <2>3, <2>4, ReplyIsRemembered
    <3> QED BY <2>6, <3>1, <3>2
  <2>10. BatchInStep'
    <3>1. PICK key : key = item.write.key
      OBVIOUS
    <3>2. result \in {"synced", "conflict_resolved"} => AnsweredOk(key)'
      BY <2>9, <3>1
    <3> QED BY <2>1, <2>3, <2>7, <2>8, <3>1, <3>2, FileResultInStep
  <2> QED BY <2>3, <2>4, <2>10, WriteCarries
<1>9. ASSUME FinishBatch PROVE Carries /\ BatchInStep'
  <2>1. batch' = None
    BY <1>9 DEF FinishBatch
  <2> QED BY <1>9, <2>1, FinishCarries DEF BatchInStep
<1>10. ASSUME UNCHANGED vars PROVE Carries /\ BatchInStep'
  <2>1. UNCHANGED <<account, processed, batch>>
    BY <1>10 DEF vars
  <2> QED BY <1>2, <2>1, NothingCarries
<1> QED BY <1>1, <1>3, <1>4, <1>5, <1>6, <1>7, <1>8, <1>9, <1>10
        DEF Next, CarriedInv

LEMMA CarriedInit == Init => CarriedInv
<1> SUFFICES ASSUME Init PROVE CarriedInv
  OBVIOUS
<1>1. RetryInv
  BY TypeInit DEF Init, RetryInv, BatchUnanswered
<1>2. \A m \in Writes \cup Batches : ~WasAccepted(m)
  BY KeysAreKeys DEF Init, WasAccepted, IsRetry
<1>3. SavedHasState /\ BatchInStep
  BY DEF Init, SavedHasState, BatchInStep
<1> QED BY <1>1, <1>2, <1>3 DEF CarriedInv, WritesCarried, BatchesCarried

\* An envelope answered with ok was carried out, and stays so: the event is
\* stored, the word has its row and its state; a batch's response lists its items
\* in their order, as accepted only those whose own key says so
\* (rememberResponse after the write, syncPendingLocalQueue).
THEOREM AcceptedStaysCarried == Spec => []AcceptedIsCarried
<1>1. CarriedInv => AcceptedIsCarried
  <2> SUFFICES ASSUME CarriedInv, NEW m \in Writes \cup Batches, WasAccepted(m)
               PROVE  Carried(m)
    BY DEF AcceptedIsCarried, WasAccepted
  <2>1. CASE m \in Writes
    BY <2>1 DEF CarriedInv, WritesCarried
  <2>2. CASE m \in Batches
    <3>1. m.operation = "sync_pending_local_queue"
      BY <2>2, EnvelopesAssumption
    <3>2. /\ Len(processed[m.key].response.results) = Len(m.items)
          /\ ItemsAnswered(m.items, processed[m.key].response.results)
      BY <2>2 DEF CarriedInv, BatchesCarried
    <3> QED BY <3>1, <3>2 DEF Carried, ItemsAnswered, AnsweredOk
  <2> QED BY <2>1, <2>2
<1> QED BY <1>1, CarriedInit, CarriedStep, PTL DEF Spec

-----------------------------------------------------------------------------
(* The review state is the replay of the accepted events                     *)
(*                                                                           *)
(* Replay is a recursive function, and induction is not needed to reason      *)
(* about it: that it exists and where it ends is part of the invariant, and   *)
(* an accepted event extends it by one place.                                *)

IsOf(e, u, w) == e.user = u /\ e.answer.slug = w

StateAfter(item, e, u, w) == IF IsOf(e, u, w) THEN ItemAfter(item, e.answer) ELSE item

IsReplay(f, events, u, w, createdAt) ==
  f = [i \in 0..Len(events) |->
         IF i = 0 THEN NewItem(createdAt) ELSE StateAfter(f[i - 1], events[i], u, w)]

\* The replay of the events ends in item.
ReplaysTo(events, u, w, createdAt, item) ==
  /\ \E f : IsReplay(f, events, u, w, createdAt)
  /\ \A f : IsReplay(f, events, u, w, createdAt) => f[Len(events)] = item

LEMMA ReplayStarts ==
  ASSUME NEW u, NEW w, NEW createdAt
  PROVE  ReplaysTo(<< >>, u, w, createdAt, NewItem(createdAt))
<1>1. Len(<< >>) = 0 /\ 0..0 = {0}
  OBVIOUS
<1> DEFINE f == [i \in 0..Len(<< >>) |-> NewItem(createdAt)]
<1>2. IsReplay(f, << >>, u, w, createdAt)
  BY <1>1 DEF IsReplay
<1>3. ASSUME NEW g, IsReplay(g, << >>, u, w, createdAt)
      PROVE  g[Len(<< >>)] = NewItem(createdAt)
  BY <1>1, <1>3 DEF IsReplay
<1> QED BY <1>2, <1>3 DEF ReplaysTo

LEMMA ReplayExtends ==
  ASSUME NEW S, NEW events \in Seq(S), NEW e \in S, NEW u, NEW w, NEW createdAt,
         NEW item, ReplaysTo(events, u, w, createdAt, item)
  PROVE  ReplaysTo(Append(events, e), u, w, createdAt, StateAfter(item, e, u, w))
<1> DEFINE n    == Len(events)
           more == Append(events, e)
           next == StateAfter(item, e, u, w)
           new  == NewItem(createdAt)
<1>1. /\ n \in Nat /\ Len(more) = n + 1
      /\ \A i \in 1..n : more[i] = events[i]
      /\ more[n + 1] = e
  OBVIOUS
<1>2. PICK f : IsReplay(f, events, u, w, createdAt)
  BY DEF ReplaysTo
<1> HIDE DEF n, more, next, new
<1>3. /\ DOMAIN f = 0..n
      /\ f[0] = new
      /\ \A i \in 1..n : f[i] = StateAfter(f[i - 1], events[i], u, w)
  BY <1>1, <1>2 DEF IsReplay, n, new
<1>4. f[n] = item
  BY <1>2 DEF ReplaysTo, n
<1> DEFINE longer == [i \in 0..(n + 1) |-> IF i = n + 1 THEN next ELSE f[i]]
<1>5. IsReplay(longer, more, u, w, createdAt)
  <2>1. longer[0] = new
    BY <1>1, <1>3
  <2>2. ASSUME NEW i \in 1..n
        PROVE  longer[i] = StateAfter(longer[i - 1], more[i], u, w)
    <3>1. longer[i] = f[i] /\ longer[i - 1] = f[i - 1] /\ more[i] = events[i]
      BY <1>1
    <3> QED BY <1>3, <3>1
  <2>3. longer[n + 1] = StateAfter(longer[n], more[n + 1], u, w)
    <3>1. longer[n + 1] = next /\ longer[n] = f[n]
      BY <1>1
    <3> QED BY <1>1, <1>4, <3>1 DEF next
  <2> DEFINE body == [i \in 0..(n + 1) |->
                        IF i = 0 THEN new
                        ELSE StateAfter(longer[i - 1], more[i], u, w)]
  <2>4. DOMAIN longer = 0..(n + 1) /\ longer = [i \in 0..(n + 1) |-> longer[i]]
    OBVIOUS
  <2> HIDE DEF longer
  <2>5. ASSUME NEW i \in 0..(n + 1)
        PROVE  longer[i] = IF i = 0 THEN new
                           ELSE StateAfter(longer[i - 1], more[i], u, w)
    <3>1. CASE i = 0
      BY <2>1, <3>1
    <3>2. CASE i \in 1..n
      BY <1>1, <2>2, <3>2
    <3>3. CASE i = n + 1
      <4>1. i # 0 /\ i - 1 = n
        BY <1>1, <3>3
      <4> QED BY <2>3, <3>3, <4>1
    <3> QED BY <1>1, <3>1, <3>2, <3>3
  <2>6. longer = body
    BY <2>4, <2>5
  <2> QED BY <1>1, <2>6 DEF IsReplay, new
<1>6. ASSUME NEW g, IsReplay(g, more, u, w, createdAt)
      PROVE  g[Len(more)] = next
  <2>1. /\ DOMAIN g = 0..(n + 1)
        /\ g[0] = new
        /\ \A i \in 1..(n + 1) : g[i] = StateAfter(g[i - 1], more[i], u, w)
    BY <1>1, <1>6 DEF IsReplay, new
  <2> DEFINE shorter == [i \in 0..n |-> g[i]]
  <2>2. ASSUME NEW i \in 0..n
        PROVE  shorter[i] = IF i = 0 THEN new
                            ELSE StateAfter(shorter[i - 1], events[i], u, w)
    <3>1. CASE i = 0
      BY <2>1, <3>1
    <3>2. CASE i \in 1..n
      <4>1. shorter[i] = g[i] /\ shorter[i - 1] = g[i - 1] /\ more[i] = events[i]
            /\ i # 0 /\ i \in 1..(n + 1)
        BY <1>1, <3>2
      <4> QED BY <2>1, <4>1
    <3> QED BY <1>1, <3>1, <3>2
  <2>3. shorter = [i \in 0..n |-> shorter[i]]
    OBVIOUS
  <2> HIDE DEF shorter
  <2>4. IsReplay(shorter, events, u, w, createdAt)
    BY <2>2, <2>3 DEF IsReplay, n, new
  <2>5. shorter[n] = item
    BY <2>4 DEF ReplaysTo, n
  <2>6. g[n] = item
    BY <1>1, <2>5 DEF shorter
  <2>7. g[n + 1] = StateAfter(g[n], e, u, w)
    <3>1. n + 1 \in 1..(n + 1) /\ n + 1 - 1 = n
      BY <1>1
    <3> QED BY <1>1, <2>1, <3>1
  <2> QED BY <1>1, <2>6, <2>7 DEF next
<1> QED BY <1>5, <1>6 DEF ReplaysTo, more, next

\* What the state of a word has to do with the events.
WordReplays(events, item, u, w) ==
  IF item = None
  THEN /\ \A i \in DOMAIN events : ~IsOf(events[i], u, w)
       /\ \A createdAt \in Nat : ReplaysTo(events, u, w, createdAt, NewItem(createdAt))
  ELSE ReplaysTo(events, u, w, item.createdAt, item)

\* A word without events may begin at any time.
LEMMA WordReplaysNew ==
  ASSUME NEW events, NEW u, NEW w, WordReplays(events, None, u, w), NEW t \in Nat
  PROVE  WordReplays(events, NewItem(t), u, w)
<1>1. NewItem(t) # None /\ NewItem(t).createdAt = t
  BY NewItemType, NoneAssumption DEF NewItem
<1> QED BY <1>1 DEF WordReplays

\* Its first state is a new item, made by the event itself when no save did.
LEMMA WordReplaysEvent ==
  ASSUME NEW S, NEW events \in Seq(S), NEW e \in S, NEW u, NEW w,
         NEW item \in Item \cup {None}, WordReplays(events, item, u, w),
         EngineAnswer(e.answer)
  PROVE  LET from == IF item = None THEN NewItem(e.answer.createdAt) ELSE item IN
         WordReplays(Append(events, e),
                     IF IsOf(e, u, w) THEN ItemAfter(from, e.answer) ELSE item, u, w)
<1> DEFINE more == Append(events, e)
           from == IF item = None THEN NewItem(e.answer.createdAt) ELSE item
           next == ItemAfter(from, e.answer)
<1>1. e.answer.createdAt \in Nat
  BY DEF EngineAnswer
<1>2. CASE IsOf(e, u, w)
  <2>1. from \in Item
    BY <1>1, NewItemType
  <2>2. from # None /\ WordReplays(events, from, u, w)
    BY <1>1, <2>1, NoneAssumption, WordReplaysNew
  <2>3. next \in Item /\ next.createdAt = from.createdAt
    BY <2>1, ItemAfterType, ItemAfterFields
  <2>4. next # None
    BY <2>3, NoneAssumption
  <2> HIDE DEF from
  <2>5. ReplaysTo(events, u, w, from.createdAt, from)
    BY <2>2 DEF WordReplays
  <2>6. ReplaysTo(more, u, w, from.createdAt, next)
    <3>1. StateAfter(from, e, u, w) = next
      BY <1>2 DEF StateAfter
    <3> HIDE DEF next
    <3> QED BY <2>5, <3>1, ReplayExtends
  <2> HIDE DEF next
  <2>7. WordReplays(more, next, u, w)
    BY <2>3, <2>4, <2>6 DEF WordReplays
  <2> QED BY <1>2, <2>7 DEF next, from
<1>3. CASE ~IsOf(e, u, w)
  <2>1. \A i \in DOMAIN more : (i \in DOMAIN events /\ more[i] = events[i]) \/ more[i] = e
    OBVIOUS
  <2>2. ASSUME NEW createdAt, NEW x, ReplaysTo(events, u, w, createdAt, x)
        PROVE  ReplaysTo(more, u, w, createdAt, x)
    BY <1>3, <2>2, ReplayExtends DEF StateAfter
  <2> HIDE DEF more
  <2>3. WordReplays(more, item, u, w)
    BY <1>3, <2>1, <2>2 DEF WordReplays
  <2> QED BY <1>3, <2>3 DEF more
<1> QED BY <1>2, <1>3

ReplayInv ==
  TypeOK /\ \A u \in Users, w \in Words :
              WordReplays(reviewEvents, reviewState[<<u, w>>], u, w)

LEMMA ReplayWrite ==
  ASSUME ReplayInv, NEW m \in Writes, Write(m), NEW u \in Users, NEW w \in Words
  PROVE  WordReplays(reviewEvents', reviewState'[<<u, w>>], u, w)
<1>1. AccountOK /\ <<u, w>> \in Users \X Words
      /\ WordReplays(reviewEvents, reviewState[<<u, w>>], u, w)
  BY DEF ReplayInv, TypeOK
<1>2. ASSUME UNCHANGED <<reviewEvents, reviewState>>
      PROVE  WordReplays(reviewEvents', reviewState'[<<u, w>>], u, w)
  BY <1>1, <1>2
<1>3. CASE m.operation = "save_word" /\ SaveWord(m)
  <2> DEFINE here == <<m.user, m.slug>>
             item == IF reviewState[here] = None THEN NewItem(m.savedAt)
                     ELSE reviewState[here]
  <2>1. m.user \in Users /\ m.slug \in Words /\ m.savedAt \in Nat
    BY <1>3, KeysAreKeys, EnvelopesAssumption DEF SaveWord, IsNew
  <2>2. here \in Users \X Words
    BY <2>1
  <2>3. reviewState' = [reviewState EXCEPT ![here] = item] /\ reviewEvents' = reviewEvents
    BY <1>3 DEF SaveWord
  <2>4. here = <<u, w>> => WordReplays(reviewEvents, item, u, w)
    BY <1>1, <2>1, WordReplaysNew
  <2> HIDE DEF item, here
  <2>5. reviewState'[<<u, w>>] = IF here = <<u, w>> THEN item ELSE reviewState[<<u, w>>]
    BY <1>1, <2>2, <2>3 DEF AccountOK
  <2> QED BY <1>1, <2>3, <2>4, <2>5
<1>4. CASE m.operation = "submit_review_event" /\ AcceptEvent(m)
  <2> DEFINE a     == m.answer
             here  == <<m.user, a.slug>>
             item  == IF reviewState[here] = None THEN NewItem(a.createdAt)
                      ELSE reviewState[here]
             next  == ItemAfter(item, a)
             event == [user |-> m.user, key |-> m.key, answer |-> a, pack |-> m.pack]
  <2>1. /\ m \in Events /\ m.user \in Users /\ m.key \in Keys
        /\ EngineAnswer(a) /\ a.slug \in Words /\ m.pack \in Packs \cup {None}
    BY <1>4, KeysAreKeys, EnvelopesAssumption DEF AcceptEvent, IsNew, Events
  <2>2. here \in Users \X Words
    BY <2>1
  <2>3. reviewState' = [reviewState EXCEPT ![here] = next]
        /\ reviewEvents' = Append(reviewEvents, event)
    BY <1>4 DEF AcceptEvent
  <2>4. event \in StoredEvent /\ event.answer = a
    BY <2>1 DEF StoredEvent
  <2>5. IsOf(event, u, w) <=> here = <<u, w>>
    BY DEF IsOf
  <2>6. reviewState[<<u, w>>] \in Item \cup {None} /\ reviewEvents \in Seq(StoredEvent)
    BY <1>1 DEF AccountOK
  <2>7. reviewState'[<<u, w>>] = IF here = <<u, w>> THEN next ELSE reviewState[<<u, w>>]
    <3> HIDE DEF next, here
    <3> QED BY <1>1, <2>2, <2>3 DEF AccountOK
  <2> HIDE DEF event
  <2>8. LET old  == reviewState[<<u, w>>]
            from == IF old = None THEN NewItem(event.answer.createdAt) ELSE old IN
        WordReplays(Append(reviewEvents, event),
                    IF IsOf(event, u, w) THEN ItemAfter(from, event.answer) ELSE old, u, w)
    BY <1>1, <2>1, <2>4, <2>6, WordReplaysEvent
  <2>9. CASE here = <<u, w>>
    <3>1. WordReplays(Append(reviewEvents, event), next, u, w)
      BY <2>4, <2>5, <2>8, <2>9
    <3> QED BY <2>3, <2>7, <2>9, <3>1
  <2>10. CASE here # <<u, w>>
    <3>1. WordReplays(Append(reviewEvents, event), reviewState[<<u, w>>], u, w)
      BY <2>5, <2>8, <2>10
    <3> QED BY <2>3, <2>7, <2>10, <3>1
  <2> QED BY <2>9, <2>10
<1> QED BY <1>2, <1>3, <1>4, WriteCases
        DEF RejectIncomplete, AnswerFromKey, Refuse, AcceptKnownEvent, ArchiveWord, account

LEMMA ReplayStep == ReplayInv /\ [Next]_vars => ReplayInv'
<1> SUFFICES ASSUME ReplayInv, [Next]_vars, NEW u \in Users, NEW w \in Words
             PROVE  WordReplays(reviewEvents', reviewState'[<<u, w>>], u, w)
  BY TypeStep DEF ReplayInv
<1>1. ASSUME UNCHANGED <<reviewEvents, reviewState>>
      PROVE  WordReplays(reviewEvents', reviewState'[<<u, w>>], u, w)
  BY <1>1 DEF ReplayInv
<1> QED BY <1>1, ReplayWrite, NextCases
        DEF ReplayInv, RejectIncomplete, AnswerFromKey, FinishBatch, account

LEMMA ReplayInit == Init => ReplayInv
<1> SUFFICES ASSUME Init, NEW u \in Users, NEW w \in Words
             PROVE  WordReplays(reviewEvents, reviewState[<<u, w>>], u, w)
  BY TypeInit DEF ReplayInv
<1>1. reviewEvents = << >> /\ reviewState[<<u, w>>] = None /\ DOMAIN << >> = {}
  BY DEF Init
<1> QED BY <1>1, ReplayStarts DEF WordReplays

\* Replay is the replay, once there is one.
LEMMA ReplayIsReplay ==
  ASSUME TypeOK, NEW u, NEW w, NEW createdAt,
         \E f : IsReplay(f, reviewEvents, u, w, createdAt)
  PROVE  IsReplay(Replay(u, w, createdAt), reviewEvents, u, w, createdAt)
<1> DEFINE n == Len(reviewEvents)
           Is(f) == f = [i \in 0..n |->
                           IF i = 0 THEN NewItem(createdAt)
                           ELSE IF i \in EventsOfWord(u, w)
                           THEN ItemAfter(f[i - 1], reviewEvents[i].answer)
                           ELSE f[i - 1]]
<1>1. DOMAIN reviewEvents = 1..n /\ n \in Nat
  BY DEF TypeOK, AccountOK
<1> HIDE DEF n
<1>2. ASSUME NEW f, NEW i \in 0..n, i # 0
      PROVE  StateAfter(f[i - 1], reviewEvents[i], u, w) =
               IF i \in EventsOfWord(u, w)
               THEN ItemAfter(f[i - 1], reviewEvents[i].answer) ELSE f[i - 1]
  BY <1>1, <1>2 DEF StateAfter, IsOf, EventsOfWord
<1>3. ASSUME NEW f
      PROVE  [i \in 0..n |-> IF i = 0 THEN NewItem(createdAt)
                             ELSE StateAfter(f[i - 1], reviewEvents[i], u, w)] =
             [i \in 0..n |-> IF i = 0 THEN NewItem(createdAt)
                             ELSE IF i \in EventsOfWord(u, w)
                             THEN ItemAfter(f[i - 1], reviewEvents[i].answer)
                             ELSE f[i - 1]]
  BY <1>2
<1>4. \A f : IsReplay(f, reviewEvents, u, w, createdAt) <=> Is(f)
  BY <1>3 DEF IsReplay, n
<1>5. Replay(u, w, createdAt) = CHOOSE f : Is(f)
  BY DEF Replay, n
<1> HIDE DEF Is
<1> QED BY <1>4, <1>5

\* The review state of a word is what the engine makes of its accepted events, in
\* their order, whatever else is written to the account.
THEOREM StateIsReplayed == Spec => []StateIsReplay
<1>1. ReplayInv => StateIsReplay
  <2> SUFFICES ASSUME ReplayInv, NEW u \in Users, NEW w \in Words
               PROVE  LET item == reviewState[<<u, w>>] IN
                      IF item = None THEN EventsOfWord(u, w) = {}
                      ELSE item = Replay(u, w, item.createdAt)[Len(reviewEvents)]
    BY DEF StateIsReplay
  <2> DEFINE item == reviewState[<<u, w>>]
  <2>1. TypeOK /\ WordReplays(reviewEvents, item, u, w)
    BY DEF ReplayInv
  <2> HIDE DEF item
  <2>2. CASE item = None
    BY <2>1, <2>2 DEF WordReplays, EventsOfWord, IsOf, item
  <2>3. CASE item # None
    <3>1. ReplaysTo(reviewEvents, u, w, item.createdAt, item)
      BY <2>1, <2>3 DEF WordReplays
    <3>2. IsReplay(Replay(u, w, item.createdAt), reviewEvents, u, w, item.createdAt)
      BY <2>1, <3>1, ReplayIsReplay DEF ReplaysTo
    <3>3. item = Replay(u, w, item.createdAt)[Len(reviewEvents)]
      BY <3>1, <3>2 DEF ReplaysTo
    <3> QED BY <2>3, <3>3 DEF item
  <2> QED BY <2>2, <2>3
<1> QED BY <1>1, ReplayInit, ReplayStep, PTL DEF Spec

-----------------------------------------------------------------------------
(* Daily statistics and pack progress tally the accepted events              *)

Right(events, S) == {i \in S : events[i].answer.result = "correct"}

Wrong(events, S) == S \ Right(events, S)

UpTo(S, i) == {j \in S : j <= i}

ListsOf(from, events, S) ==
  /\ Len(from) = Cardinality(S)
  /\ \A i \in S : from[Cardinality(UpTo(S, i))] = events[i].answer.eventId

LEMMA StoredEventFields ==
  \A e \in StoredEvent : e.answer.eventId \in EventId /\ e.answer.result \in Results
BY EnvelopesAssumption DEF StoredEvent, EventId, Events, EngineAnswer

\* Positions of events are finitely many.
LEMMA PositionsFinite ==
  ASSUME NEW events \in Seq(StoredEvent), NEW S \in SUBSET DOMAIN events
  PROVE  IsFiniteSet(S) /\ Cardinality(S) \in Nat
<1>1. DOMAIN events = 1..Len(events) /\ Len(events) \in Nat
  OBVIOUS
<1>2. IsFiniteSet(1..Len(events))
  BY <1>1, FS_Interval
<1> QED BY <1>1, <1>2, FS_Subset, FS_CardinalityType

LEMMA TallyNumbers ==
  ASSUME NEW events \in Seq(StoredEvent), NEW S \in SUBSET DOMAIN events
  PROVE  Cardinality(Right(events, S)) \in Nat /\ Cardinality(Wrong(events, S)) \in Nat
BY PositionsFinite, FS_Subset, FS_CardinalityType DEF Right, Wrong

\* A set of events that the new one is not among tallies as before.
LEMMA TallyStays ==
  ASSUME NEW events \in Seq(StoredEvent), NEW e \in StoredEvent,
         NEW S \in SUBSET DOMAIN events, NEW from
  PROVE  /\ ListsOf(from, events, S) => ListsOf(from, Append(events, e), S)
         /\ Right(Append(events, e), S) = Right(events, S)
         /\ Wrong(Append(events, e), S) = Wrong(events, S)
<1>1. \A i \in S : Append(events, e)[i] = events[i]
  OBVIOUS
<1> HIDE DEF UpTo
<1> QED BY <1>1 DEF ListsOf, Right, Wrong

\* One that it is among has one more,
Counted(events, e, S, more, all) ==
  /\ Cardinality(all) = Cardinality(S) + 1
  /\ Cardinality(Right(more, all)) =
       IF e.answer.result = "correct" THEN Cardinality(Right(events, S)) + 1
       ELSE Cardinality(Right(events, S))
  /\ Cardinality(Wrong(more, all)) =
       IF e.answer.result = "correct" THEN Cardinality(Wrong(events, S))
       ELSE Cardinality(Wrong(events, S)) + 1

LEMMA TallyCounts ==
  ASSUME NEW events \in Seq(StoredEvent), NEW e \in StoredEvent,
         NEW S \in SUBSET DOMAIN events, NEW more, NEW all,
         all = S \cup {Len(events) + 1},
         more[Len(events) + 1] = e, \A i \in S : more[i] = events[i]
  PROVE  Counted(events, e, S, more, all)
<1> USE DEF Counted
<1> DEFINE n     == Len(events)
           right == Right(events, S)
<1>1. /\ n \in Nat /\ all = S \cup {n + 1}
      /\ \A i \in S : more[i] = events[i] /\ i \in 1..n
      /\ more[n + 1] = e
  OBVIOUS
<1>2. n + 1 \notin S
  BY <1>1
<1>3. IsFiniteSet(S)
  BY PositionsFinite
<1>4. right \in SUBSET S /\ IsFiniteSet(right) /\ IsFiniteSet(S \ right)
  BY <1>3, FS_Subset DEF Right
<1>5. Cardinality(all) = Cardinality(S) + 1
  BY <1>2, <1>3, FS_AddElement
<1> HIDE DEF n, right
<1>6. CASE e.answer.result = "correct"
  <2>1. Right(more, all) = right \cup {n + 1} /\ n + 1 \notin right
    BY <1>1, <1>2, <1>4, <1>6 DEF Right, right
  <2>2. Wrong(more, all) = S \ right
    BY <1>1, <1>2, <2>1 DEF Wrong
  <2>3. Cardinality(Right(more, all)) = Cardinality(right) + 1
    BY <1>4, <2>1, FS_AddElement
  <2> QED BY <1>5, <1>6, <2>2, <2>3, Zenon DEF Wrong, right
<1>7. CASE e.answer.result # "correct"
  <2>1. Right(more, all) = right
    BY <1>1, <1>7 DEF Right, right
  <2>2. Wrong(more, all) = (S \ right) \cup {n + 1} /\ n + 1 \notin S \ right
    BY <1>1, <1>2, <1>4, <2>1 DEF Wrong
  <2>3. Cardinality((S \ right) \cup {n + 1}) = Cardinality(S \ right) + 1
    BY <1>4, <2>2, FS_AddElement
  <2> QED BY <1>5, <1>7, <2>1, <2>2, <2>3, Zenon DEF Wrong, right
<1> QED BY <1>6, <1>7

\* and lists it last.
LEMMA ListGrows ==
  ASSUME NEW events \in Seq(StoredEvent), NEW e \in StoredEvent,
         NEW S \in SUBSET DOMAIN events, NEW from \in Seq(EventId), NEW more, NEW all,
         ListsOf(from, events, S), all = S \cup {Len(events) + 1},
         more[Len(events) + 1] = e, \A i \in S : more[i] = events[i]
  PROVE  ListsOf(Append(from, e.answer.eventId), more, all)
<1> DEFINE n      == Len(events)
           longer == Append(from, e.answer.eventId)
<1>1. /\ n \in Nat /\ all = S \cup {n + 1}
      /\ \A i \in S : more[i] = events[i] /\ i \in 1..n
      /\ more[n + 1] = e
  OBVIOUS
<1>2. IsFiniteSet(S) /\ Cardinality(S) \in Nat
  BY PositionsFinite
<1>3. Cardinality(all) = Cardinality(S) + 1
  <2>1. n + 1 \notin S
    BY <1>1
  <2> QED BY <1>1, <1>2, <2>1, FS_AddElement
<1>4. /\ Len(longer) = Len(from) + 1
      /\ longer[Len(from) + 1] = e.answer.eventId
      /\ \A i \in 1..Len(from) : longer[i] = from[i]
      /\ Len(from) = Cardinality(S)
  BY StoredEventFields DEF ListsOf
<1> HIDE DEF n, longer
<1>5. ASSUME NEW i \in S
      PROVE  longer[Cardinality(UpTo(all, i))] = more[i].answer.eventId
  <2>1. UpTo(all, i) = UpTo(S, i)
    BY <1>1 DEF UpTo
  <2>2. UpTo(S, i) \in SUBSET S /\ i \in UpTo(S, i)
    BY <1>1 DEF UpTo
  <2>3. IsFiniteSet(UpTo(S, i)) /\ Cardinality(UpTo(S, i)) <= Cardinality(S)
    BY <1>2, <2>2, FS_Subset
  <2>4. Cardinality(UpTo(S, i)) \in Nat /\ Cardinality(UpTo(S, i)) # 0
    BY <2>2, <2>3, FS_CardinalityType, FS_EmptySet
  <2>5. longer[Cardinality(UpTo(S, i))] = from[Cardinality(UpTo(S, i))]
    BY <1>2, <1>4, <2>3, <2>4
  <2>6. from[Cardinality(UpTo(S, i))] = events[i].answer.eventId
    BY DEF ListsOf
  <2> QED BY <1>1, <2>1, <2>5, <2>6
<1>6. longer[Cardinality(UpTo(all, n + 1))] = e.answer.eventId
  <2>1. UpTo(all, n + 1) = all
    BY <1>1 DEF UpTo
  <2> QED BY <1>3, <1>4, <2>1
<1>7. ListsOf(longer, more, all)
  <2>1. \A i \in all : i \in S \/ i = n + 1
    BY <1>1
  <2> QED BY <1>1, <1>2, <1>3, <1>4, <1>5, <1>6, <2>1 DEF ListsOf
<1> QED BY <1>7 DEF longer

OnDay(events, u, d) ==
  {i \in DOMAIN events : events[i].user = u /\ DateOf(events[i].answer.createdAt) = d}

InPack(events, u, p) ==
  {i \in DOMAIN events : events[i].user = u /\ events[i].pack = p}

DayTallies(events, row, u, d) ==
  LET on == OnDay(events, u, d) IN
  IF row = None THEN on = {}
  ELSE /\ ListsOf(row.from, events, on)
       /\ row.stats.reviewed = Cardinality(on)
       /\ row.stats.correct = Cardinality(Right(events, on))
       /\ row.stats.wrong = Cardinality(Wrong(events, on))

PackTallies(events, row, u, p) ==
  LET in == InPack(events, u, p) IN
  IF row = None THEN in = {}
  ELSE /\ ListsOf(row.from, events, in)
       /\ row.reviewed = Cardinality(in)
       /\ row.correct = Cardinality(Right(events, in))

\* Where a new event belongs.
LEMMA OnDayGrows ==
  ASSUME NEW events \in Seq(StoredEvent), NEW e \in StoredEvent, NEW u, NEW d
  PROVE  OnDay(Append(events, e), u, d) =
           IF e.user = u /\ DateOf(e.answer.createdAt) = d
           THEN OnDay(events, u, d) \cup {Len(events) + 1} ELSE OnDay(events, u, d)
<1> DEFINE n == Len(events)  more == Append(events, e)
<1>1. /\ n \in Nat /\ DOMAIN events = 1..n /\ DOMAIN more = 1..(n + 1)
      /\ more[n + 1] = e /\ \A i \in 1..n : more[i] = events[i]
  OBVIOUS
<1> HIDE DEF n, more
<1>2. 1..(n + 1) = (1..n) \cup {n + 1} /\ n + 1 \notin 1..n
  BY <1>1
<1>3. OnDay(more, u, d) =
        IF e.user = u /\ DateOf(e.answer.createdAt) = d
        THEN OnDay(events, u, d) \cup {n + 1} ELSE OnDay(events, u, d)
  BY <1>1, <1>2, Zenon DEF OnDay
<1> QED BY <1>3 DEF n, more

LEMMA InPackGrows ==
  ASSUME NEW events \in Seq(StoredEvent), NEW e \in StoredEvent, NEW u, NEW p
  PROVE  InPack(Append(events, e), u, p) =
           IF e.user = u /\ e.pack = p
           THEN InPack(events, u, p) \cup {Len(events) + 1} ELSE InPack(events, u, p)
<1> DEFINE n == Len(events)  more == Append(events, e)
<1>1. /\ n \in Nat /\ DOMAIN events = 1..n /\ DOMAIN more = 1..(n + 1)
      /\ more[n + 1] = e /\ \A i \in 1..n : more[i] = events[i]
  OBVIOUS
<1> HIDE DEF n, more
<1>2. 1..(n + 1) = (1..n) \cup {n + 1} /\ n + 1 \notin 1..n
  BY <1>1
<1>3. InPack(more, u, p) =
        IF e.user = u /\ e.pack = p
        THEN InPack(events, u, p) \cup {n + 1} ELSE InPack(events, u, p)
  BY <1>1, <1>2, Zenon DEF InPack
<1> QED BY <1>3 DEF n, more

\* Nothing is listed of no events.
LEMMA NoneTallied ==
  ASSUME NEW events
  PROVE  /\ ListsOf(<< >>, events, {}) /\ Cardinality({}) = 0
         /\ Right(events, {}) = {} /\ Wrong(events, {}) = {}
BY FS_EmptySet DEF ListsOf, Right, Wrong

\* A day counts one more answer, as right or as wrong.
LEMMA DayCounts ==
  ASSUME NEW stats \in DailyStats, NEW item, NEW next, NEW a
  PROVE  /\ DailyStatsAfter(stats, item, next, a, TRUE).reviewed = stats.reviewed + 1
         /\ DailyStatsAfter(stats, item, next, a, TRUE).correct =
              stats.correct + One(a.result = "correct")
         /\ DailyStatsAfter(stats, item, next, a, TRUE).wrong =
              stats.wrong + One(a.result = "wrong")
<1> DEFINE yes == TRUE
           after == DailyStatsAfter(stats, item, next, a, yes)
<1> HIDE DEF yes
<1>1. /\ after.reviewed = stats.reviewed + 1
      /\ after.correct = stats.correct + One(a.result = "correct")
      /\ after.wrong = stats.wrong + One(a.result = "wrong")
  BY DailyStatsAfterFields
<1> QED BY <1>1 DEF yes

LEMMA DayTalliesEvent ==
  ASSUME NEW events \in Seq(StoredEvent), NEW e \in StoredEvent, NEW u, NEW d,
         NEW row \in Stats \cup {None}, NEW item, NEW next,
         DayTallies(events, row, u, d)
  PROVE  DayTallies(Append(events, e),
                    IF e.user = u /\ DateOf(e.answer.createdAt) = d
                    THEN StatsAfter(row, item, next, e.answer) ELSE row, u, d)
<1> DEFINE on   == OnDay(events, u, d)
           more == Append(events, e)
           all  == OnDay(more, u, d)
<1>1. on \in SUBSET DOMAIN events
  BY DEF OnDay
<1>2. CASE ~(e.user = u /\ DateOf(e.answer.createdAt) = d)
  <2>1. all = on
    BY <1>2, OnDayGrows
  <2>2. Right(more, on) = Right(events, on) /\ Wrong(more, on) = Wrong(events, on)
        /\ \A from : ListsOf(from, events, on) => ListsOf(from, more, on)
    BY <1>1, TallyStays
  <2>3. DayTallies(more, row, u, d)
    <3> HIDE DEF more
    <3> QED BY <2>1, <2>2 DEF DayTallies
  <2> QED BY <1>2, <2>3
<1>3. CASE e.user = u /\ DateOf(e.answer.createdAt) = d
  <2> DEFINE from  == IF row = None THEN << >> ELSE row.from
             stats == IF row = None THEN EmptyDailyStats ELSE row.stats
             new   == StatsAfter(row, item, next, e.answer)
  <2>1. all = on \cup {Len(events) + 1}
    BY <1>3, OnDayGrows
  <2>2. row \in Stats => row # None
    BY NoneAssumption
  <2>3. from \in Seq(EventId) /\ stats \in DailyStats
    BY <2>2 DEF EmptyDailyStats, DailyStats, Stats
  <2>4. /\ ListsOf(from, events, on)
        /\ stats.reviewed = Cardinality(on)
        /\ stats.correct = Cardinality(Right(events, on))
        /\ stats.wrong = Cardinality(Wrong(events, on))
    <3>1. CASE row = None
      BY <3>1, NoneTallied DEF DayTallies, EmptyDailyStats
    <3>2. CASE row # None
      BY <3>2 DEF DayTallies
    <3> QED BY <3>1, <3>2
  <2>5. /\ new.stats = DailyStatsAfter(stats, item, next, e.answer, TRUE)
        /\ new.from = Append(from, e.answer.eventId)
    <3>1. new.stats = DailyStatsAfter(stats, item, next, e.answer, TRUE)
      BY DEF StatsAfter
    <3>2. CASE row = None
      BY <3>2 DEF StatsAfter
    <3>3. CASE row # None
      BY <3>3 DEF StatsAfter
    <3> QED BY <3>1, <3>2, <3>3
  <2>6. /\ DailyStatsAfter(stats, item, next, e.answer, TRUE).reviewed = stats.reviewed + 1
        /\ DailyStatsAfter(stats, item, next, e.answer, TRUE).correct =
             stats.correct + One(e.answer.result = "correct")
        /\ DailyStatsAfter(stats, item, next, e.answer, TRUE).wrong =
             stats.wrong + One(e.answer.result = "wrong")
    <3>1. stats \in DailyStats
      BY <2>3
    <3> HIDE DEF stats, new, from
    <3> QED BY <3>1, DayCounts
  <2>7. /\ e.answer.result = "correct" =>
             One(e.answer.result = "correct") = 1 /\ One(e.answer.result = "wrong") = 0
        /\ e.answer.result # "correct" =>
             One(e.answer.result = "correct") = 0 /\ One(e.answer.result = "wrong") = 1
    BY StoredEventFields DEF Results, One
  <2>8. new # None
    BY <2>2, StoredEventFields, StatsAfterType, NoneAssumption
  <2> HIDE DEF on, more, all, from, stats, new
  <2>9. /\ ListsOf(Append(from, e.answer.eventId), more, all)
        /\ Cardinality(all) = Cardinality(on) + 1
        /\ Cardinality(Right(more, all)) =
             IF e.answer.result = "correct" THEN Cardinality(Right(events, on)) + 1
             ELSE Cardinality(Right(events, on))
        /\ Cardinality(Wrong(more, all)) =
             IF e.answer.result = "correct" THEN Cardinality(Wrong(events, on))
             ELSE Cardinality(Wrong(events, on)) + 1
    <3>1. more[Len(events) + 1] = e /\ \A i \in DOMAIN events : more[i] = events[i]
      BY DEF more
    <3>2. ListsOf(Append(from, e.answer.eventId), more, all)
      BY <1>1, <2>1, <2>3, <2>4, <3>1, ListGrows
    <3>3. \A i \in on : more[i] = events[i]
      BY <1>1, <3>1
    <3>4. Counted(events, e, on, more, all)
      BY <1>1, <2>1, <3>1, <3>3, TallyCounts
    <3> QED BY <3>2, <3>4 DEF Counted
  <2>10. DayTallies(more, new, u, d)
    <3>1. new.stats.reviewed = Cardinality(all)
      BY <2>4, <2>5, <2>6, <2>9
    <3>2. stats.correct + 0 = stats.correct /\ stats.wrong + 0 = stats.wrong
      BY <1>1, <2>4, TallyNumbers
    <3>3. CASE e.answer.result = "correct"
      <4>1. new.stats.correct = stats.correct + 1 /\ new.stats.wrong = stats.wrong
        BY <2>5, <2>6, <2>7, <3>2, <3>3
      <4>2. /\ Cardinality(Right(more, all)) = Cardinality(Right(events, on)) + 1
            /\ Cardinality(Wrong(more, all)) = Cardinality(Wrong(events, on))
        BY <2>9, <3>3
      <4> QED BY <2>4, <2>5, <2>8, <2>9, <3>1, <4>1, <4>2 DEF DayTallies, all
    <3>4. CASE e.answer.result # "correct"
      <4>1. new.stats.correct = stats.correct /\ new.stats.wrong = stats.wrong + 1
        BY <2>5, <2>6, <2>7, <3>2, <3>4
      <4>2. /\ Cardinality(Right(more, all)) = Cardinality(Right(events, on))
            /\ Cardinality(Wrong(more, all)) = Cardinality(Wrong(events, on)) + 1
        BY <2>9, <3>4
      <4> QED BY <2>4, <2>5, <2>8, <2>9, <3>1, <4>1, <4>2 DEF DayTallies, all
    <3> QED BY <3>3, <3>4
  <2> QED BY <1>3, <2>10 DEF more, new
<1> QED BY <1>2, <1>3

LEMMA PackTalliesEvent ==
  ASSUME NEW events \in Seq(StoredEvent), NEW e \in StoredEvent, NEW u, NEW p,
         NEW row \in Progress \cup {None},
         PackTallies(events, row, u, p)
  PROVE  PackTallies(Append(events, e),
                     IF e.user = u /\ e.pack = p THEN PackAfter(row, e.answer) ELSE row,
                     u, p)
<1> DEFINE in   == InPack(events, u, p)
           more == Append(events, e)
           all  == InPack(more, u, p)
<1>1. in \in SUBSET DOMAIN events
  BY DEF InPack
<1>2. CASE ~(e.user = u /\ e.pack = p)
  <2>1. all = in
    BY <1>2, InPackGrows
  <2>2. Right(more, in) = Right(events, in)
        /\ \A from : ListsOf(from, events, in) => ListsOf(from, more, in)
    BY <1>1, TallyStays
  <2>3. PackTallies(more, row, u, p)
    <3> HIDE DEF more
    <3> QED BY <2>1, <2>2 DEF PackTallies
  <2> QED BY <1>2, <2>3
<1>3. CASE e.user = u /\ e.pack = p
  <2> DEFINE old == IF row = None THEN [reviewed |-> 0, correct |-> 0, from |-> << >>]
                    ELSE row
             new == PackAfter(row, e.answer)
  <2>1. all = in \cup {Len(events) + 1}
    BY <1>3, InPackGrows
  <2>2. row \in Progress => row # None
    BY NoneAssumption
  <2>3. old.from \in Seq(EventId)
    BY <2>2 DEF Progress
  <2>4. /\ ListsOf(old.from, events, in)
        /\ old.reviewed = Cardinality(in)
        /\ old.correct = Cardinality(Right(events, in))
    <3>1. CASE row = None
      BY <3>1, NoneTallied DEF PackTallies
    <3>2. CASE row # None
      BY <3>2 DEF PackTallies
    <3> QED BY <3>1, <3>2
  <2>5. /\ new.reviewed = old.reviewed + 1
        /\ new.correct = old.correct + One(e.answer.result = "correct")
        /\ new.from = Append(old.from, e.answer.eventId)
    BY DEF PackAfter
  <2>6. new # None
    BY StoredEventFields, PackAfterType, NoneAssumption
  <2> HIDE DEF in, more, all, old, new
  <2>7. /\ ListsOf(Append(old.from, e.answer.eventId), more, all)
        /\ Cardinality(all) = Cardinality(in) + 1
        /\ Cardinality(Right(more, all)) =
             IF e.answer.result = "correct" THEN Cardinality(Right(events, in)) + 1
             ELSE Cardinality(Right(events, in))
        /\ Cardinality(Wrong(more, all)) =
             IF e.answer.result = "correct" THEN Cardinality(Wrong(events, in))
             ELSE Cardinality(Wrong(events, in)) + 1
    <3>1. more[Len(events) + 1] = e /\ \A i \in DOMAIN events : more[i] = events[i]
      BY DEF more
    <3>2. ListsOf(Append(old.from, e.answer.eventId), more, all)
      BY <1>1, <2>1, <2>3, <2>4, <3>1, ListGrows
    <3>3. \A i \in in : more[i] = events[i]
      BY <1>1, <3>1
    <3>4. Counted(events, e, in, more, all)
      BY <1>1, <2>1, <3>1, <3>3, TallyCounts
    <3> QED BY <3>2, <3>4 DEF Counted
  <2>8. PackTallies(more, new, u, p)
    <3>1. new.reviewed = Cardinality(all)
      BY <2>4, <2>5, <2>7
    <3>2. new.correct = Cardinality(Right(more, all))
      BY <1>1, <2>4, <2>5, <2>7, TallyNumbers DEF One
    <3> QED BY <2>5, <2>6, <2>7, <3>1, <3>2 DEF PackTallies, all
  <2> QED BY <1>3, <2>8 DEF more, new
<1> QED BY <1>2, <1>3

RollupsInv ==
  TypeOK /\ \A u \in Users :
              /\ \A d \in Dates : DayTallies(reviewEvents, dailyStats[<<u, d>>], u, d)
              /\ \A p \in Packs : PackTallies(reviewEvents, packProgress[<<u, p>>], u, p)

LEMMA RollupsOfEvent ==
  ASSUME RollupsInv, NEW m \in Writes, m.operation = "submit_review_event", AcceptEvent(m),
         NEW u \in Users
  PROVE  /\ \A d \in Dates : DayTallies(reviewEvents', dailyStats'[<<u, d>>], u, d)
         /\ \A p \in Packs : PackTallies(reviewEvents', packProgress'[<<u, p>>], u, p)
<1> DEFINE a     == m.answer
           at    == <<m.user, a.slug>>
           day   == <<m.user, DateOf(a.createdAt)>>
           pack  == <<m.user, m.pack>>
           item  == IF reviewState[at] = None THEN NewItem(a.createdAt)
                    ELSE reviewState[at]
           next  == ItemAfter(item, a)
           event == [user |-> m.user, key |-> m.key, answer |-> a, pack |-> m.pack]
<1>1. /\ m \in Events /\ m.user \in Users /\ m.key \in Keys
      /\ m.pack \in Packs \cup {None}
  BY KeysAreKeys, EnvelopesAssumption DEF AcceptEvent, IsNew, Events
<1>2. day \in Users \X Dates
  BY <1>1 DEF Dates
<1>3. event \in StoredEvent
  BY <1>1 DEF StoredEvent
<1>4. /\ event.user = m.user /\ event.answer = a /\ event.pack = m.pack
  OBVIOUS
<1>5. /\ reviewEvents' = Append(reviewEvents, event)
      /\ dailyStats' = [dailyStats EXCEPT
           ![day] = StatsAfter(dailyStats[day], item, next, a)]
      /\ packProgress' = IF m.pack = None THEN packProgress
                         ELSE [packProgress EXCEPT
                                 ![pack] = PackAfter(packProgress[pack], a)]
  BY DEF AcceptEvent
<1>6. /\ reviewEvents \in Seq(StoredEvent)
      /\ dailyStats \in [Users \X Dates -> Stats \cup {None}]
      /\ packProgress \in [Users \X Packs -> Progress \cup {None}]
  BY DEF RollupsInv, TypeOK, AccountOK
<1> HIDE DEF at, item, next, event
<1>7. ASSUME NEW d \in Dates
      PROVE  DayTallies(reviewEvents', dailyStats'[<<u, d>>], u, d)
  <2> DEFINE row == dailyStats[<<u, d>>]
             new == IF event.user = u /\ DateOf(event.answer.createdAt) = d
                    THEN StatsAfter(row, item, next, event.answer) ELSE row
  <2>1. <<u, d>> \in Users \X Dates
    OBVIOUS
  <2>2. row \in Stats \cup {None} /\ DayTallies(reviewEvents, row, u, d)
    BY <1>6, <2>1 DEF RollupsInv
  <2>3. DayTallies(Append(reviewEvents, event), new, u, d)
    <3> HIDE DEF row
    <3> QED BY <1>3, <1>6, <2>2, DayTalliesEvent
  <2>4. dailyStats'[<<u, d>>] = new
    <3>1. CASE <<u, d>> = day
      <4>1. u = m.user /\ d = DateOf(a.createdAt)
        BY <3>1
      <4>2. dailyStats'[<<u, d>>] = StatsAfter(dailyStats[day], item, next, a)
        BY <1>2, <1>5, <1>6, <3>1
      <4> QED BY <1>4, <3>1, <4>1, <4>2
    <3>2. CASE <<u, d>> # day
      <4>1. ~(event.user = u /\ DateOf(event.answer.createdAt) = d)
        BY <1>4, <3>2
      <4>2. dailyStats'[<<u, d>>] = row
        BY <1>2, <1>5, <1>6, <2>1, <3>2
      <4> QED BY <4>1, <4>2
    <3> QED BY <3>1, <3>2
  <2> HIDE DEF new
  <2> QED BY <1>5, <2>3, <2>4
<1>8. ASSUME NEW p \in Packs
      PROVE  PackTallies(reviewEvents', packProgress'[<<u, p>>], u, p)
  <2> DEFINE row == packProgress[<<u, p>>]
             new == IF event.user = u /\ event.pack = p
                    THEN PackAfter(row, event.answer) ELSE row
  <2>1. <<u, p>> \in Users \X Packs /\ p # None
    BY NoneAssumption
  <2>2. row \in Progress \cup {None} /\ PackTallies(reviewEvents, row, u, p)
    BY <1>6, <2>1 DEF RollupsInv
  <2>3. PackTallies(Append(reviewEvents, event), new, u, p)
    <3> HIDE DEF row
    <3> QED BY <1>3, <1>6, <2>2, PackTalliesEvent
  <2>4. packProgress'[<<u, p>>] = new
    <3>1. CASE <<u, p>> = pack
      <4>1. u = m.user /\ p = m.pack /\ m.pack # None
        BY <2>1, <3>1
      <4>2. packProgress'[<<u, p>>] = PackAfter(packProgress[pack], a)
        BY <1>5, <1>6, <2>1, <3>1, <4>1
      <4> QED BY <1>4, <3>1, <4>1, <4>2
    <3>2. CASE <<u, p>> # pack
      <4>1. ~(event.user = u /\ event.pack = p)
        BY <1>4, <3>2
      <4>2. packProgress'[<<u, p>>] = row
        BY <1>5, <1>6, <2>1, <3>2
      <4> QED BY <4>1, <4>2
    <3> QED BY <3>1, <3>2
  <2> HIDE DEF new
  <2> QED BY <1>5, <2>3, <2>4
<1> QED BY <1>7, <1>8

LEMMA RollupsStep == RollupsInv /\ [Next]_vars => RollupsInv'
<1> SUFFICES ASSUME RollupsInv, [Next]_vars, NEW u \in Users
             PROVE  /\ \A d \in Dates :
                         DayTallies(reviewEvents', dailyStats'[<<u, d>>], u, d)
                    /\ \A p \in Packs :
                         PackTallies(reviewEvents', packProgress'[<<u, p>>], u, p)
  BY TypeStep DEF RollupsInv
<1> DEFINE Goal == /\ \A d \in Dates :
                        DayTallies(reviewEvents', dailyStats'[<<u, d>>], u, d)
                   /\ \A p \in Packs :
                        PackTallies(reviewEvents', packProgress'[<<u, p>>], u, p)
<1>1. ASSUME UNCHANGED <<reviewEvents, dailyStats, packProgress>> PROVE Goal
  BY <1>1 DEF RollupsInv
<1>2. ASSUME NEW m \in Writes, m.operation = "submit_review_event", AcceptEvent(m)
      PROVE  Goal
  BY <1>2, RollupsOfEvent
<1> HIDE DEF Goal
<1>3. ASSUME NEW m \in Writes, Write(m) PROVE Goal
  BY <1>1, <1>2, <1>3, WriteCases
     DEF RejectIncomplete, AnswerFromKey, Refuse, SaveWord, AcceptKnownEvent,
         ArchiveWord, account
<1>4. Goal
  BY <1>1, <1>3, NextCases
     DEF RollupsInv, RejectIncomplete, AnswerFromKey, FinishBatch, account
<1> QED BY <1>4 DEF Goal

LEMMA RollupsInit == Init => RollupsInv
<1> SUFFICES ASSUME Init, NEW u \in Users
             PROVE  /\ \A d \in Dates :
                         DayTallies(reviewEvents, dailyStats[<<u, d>>], u, d)
                    /\ \A p \in Packs :
                         PackTallies(reviewEvents, packProgress[<<u, p>>], u, p)
  BY TypeInit DEF RollupsInv
<1>1. reviewEvents = << >> /\ DOMAIN << >> = {}
  BY DEF Init
<1>2. \A d \in Dates : dailyStats[<<u, d>>] = None
  BY DEF Init
<1>3. \A p \in Packs : packProgress[<<u, p>>] = None
  BY DEF Init
<1> QED BY <1>1, <1>2, <1>3 DEF DayTallies, PackTallies, OnDay, InPack

\* Daily statistics and pack progress count the accepted events, each once, and
\* list them in the order they were accepted in.
THEOREM RollupsCountEvents == Spec => []RollupsFollowEvents
<1>1. RollupsInv => RollupsFollowEvents
  <2> SUFFICES ASSUME RollupsInv PROVE RollupsFollowEvents
    OBVIOUS
  <2>1. \A from, S : ListsOf(from, reviewEvents, S) <=> Lists(from, S)
    BY DEF ListsOf, Lists, UpTo
  <2>2. \A S : Right(reviewEvents, S) = CorrectOf(S)
               /\ Wrong(reviewEvents, S) = S \ CorrectOf(S)
    BY DEF Right, Wrong, CorrectOf
  <2>3. \A u, d : OnDay(reviewEvents, u, d) = EventsOfDate(u, d)
    BY DEF OnDay, EventsOfDate
  <2>4. \A u, p : InPack(reviewEvents, u, p) = EventsOfPack(u, p)
    BY DEF InPack, EventsOfPack
  <2>5. ASSUME NEW u \in Users, NEW d \in Dates
        PROVE  LET row == dailyStats[<<u, d>>]  on == EventsOfDate(u, d) IN
               IF row = None THEN on = {}
               ELSE /\ Lists(row.from, on)
                    /\ row.stats.reviewed = Cardinality(on)
                    /\ row.stats.correct = Cardinality(CorrectOf(on))
                    /\ row.stats.wrong = Cardinality(on \ CorrectOf(on))
    <3>1. DayTallies(reviewEvents, dailyStats[<<u, d>>], u, d)
      BY DEF RollupsInv
    <3> QED BY <2>1, <2>2, <2>3, <3>1 DEF DayTallies
  <2>6. ASSUME NEW u \in Users, NEW p \in Packs
        PROVE  LET row == packProgress[<<u, p>>]  in == EventsOfPack(u, p) IN
               IF row = None THEN in = {}
               ELSE /\ Lists(row.from, in)
                    /\ row.reviewed = Cardinality(in)
                    /\ row.correct = Cardinality(CorrectOf(in))
    <3>1. PackTallies(reviewEvents, packProgress[<<u, p>>], u, p)
      BY DEF RollupsInv
    <3> QED BY <2>1, <2>2, <2>4, <3>1 DEF PackTallies
  <2> QED BY <2>5, <2>6 DEF RollupsFollowEvents
<1> QED BY <1>1, RollupsInit, RollupsStep, PTL DEF Spec

-----------------------------------------------------------------------------
(* Migrations                                                                *)
(*                                                                           *)
(* Whatever plans are made and run, the account goes through steps of the     *)
(* service only, so all that is proved above holds with migrations too.       *)

\* The plan at hand, and that of a run, moves a snapshot into an account it may
\* move into.
PlanIsAllowed ==
  (plan # None \/ run # None) => <<plan.snapshot, plan.user>> \in Migrations

LEMMA PlanStaysAllowed ==
  ASSUME PlanIsAllowed, [GuestNext]_guestVars
  PROVE  PlanIsAllowed'
<1>1. CASE UNCHANGED guestVars
  BY <1>1 DEF guestVars, PlanIsAllowed
<1>2. CASE ServiceNext \/ StartRun
  BY <1>2 DEF ServiceNext, StartRun, PlanIsAllowed
<1>5. ASSUME Import
      PROVE  PlanIsAllowed'
  <2>1. run # None /\ UNCHANGED plan
    BY <1>5 DEF Import, IsRunning
  <2> QED
    BY <2>1 DEF PlanIsAllowed
<1>3. ASSUME NEW at \in Migrations, MakePlan(at[1], at[2])
      PROVE  PlanIsAllowed'
  <2>1. at = <<at[1], at[2]>>
    BY MigrationsAssumption
  <2>2. plan'.snapshot = at[1] /\ plan'.user = at[2]
    BY <1>3 DEF MakePlan
  <2> QED
    BY <2>1, <2>2 DEF PlanIsAllowed
<1>4. CASE EndRun
  BY <1>4 DEF EndRun, PlanIsAllowed
<1> QED
  BY <1>1, <1>2, <1>3, <1>4, <1>5 DEF GuestNext

\* What a run sends next is one of the service's envelopes.
LEMMA ImportIsEnvelope ==
  ASSUME PlanIsAllowed, IsRunning
  PROVE  RequestOf(plan.snapshot, plan.user, Todo[Position]) \in Envelopes
<1> DEFINE at == <<plan.snapshot, plan.user>>
<1>1. at \in Migrations /\ at[1] = plan.snapshot /\ at[2] = plan.user
  BY DEF PlanIsAllowed, IsRunning
<1>2. Todo[Position] \in Range(Imports[at[1]])
  BY <1>1 DEF IsRunning, Todo, Range
<1>3. RequestOf(at[1], at[2], Todo[Position]) \in MigrationWrites
  BY <1>1, <1>2 DEF MigrationWrites
<1> QED
  BY <1>1, <1>3, MigrationsAssumption

LEMMA GuestStepIsServiceStep ==
  ASSUME PlanIsAllowed, [GuestNext]_guestVars
  PROVE  [Next]_vars
<1>1. CASE UNCHANGED guestVars
  BY <1>1 DEF guestVars
<1>2. CASE ServiceNext
  BY <1>2 DEF ServiceNext, DeviceWrites, Next
<1>3. ASSUME NEW at \in Migrations, MakePlan(at[1], at[2])
      PROVE  UNCHANGED vars
  BY <1>3 DEF MakePlan
<1>4. CASE StartRun \/ EndRun
  BY <1>4 DEF StartRun, EndRun
<1>5. ASSUME Import
      PROVE  Next
  <2>1. /\ RequestOf(plan.snapshot, plan.user, Todo[Position]) \in Envelopes
        /\ Receive(RequestOf(plan.snapshot, plan.user, Todo[Position]))
    BY <1>5, ImportIsEnvelope DEF Import
  <2> QED
    BY <2>1 DEF Next
<1> QED
  BY <1>1, <1>2, <1>3, <1>4, <1>5 DEF GuestNext

\* The service with guest migrations implements the service: planning and
\* running change an account only through its writes.
THEOREM MigrationUsesService == GuestSpec => Spec
<1>1. GuestInit => Init /\ PlanIsAllowed
  BY DEF GuestInit, PlanIsAllowed
<1>2. PlanIsAllowed /\ [GuestNext]_guestVars => PlanIsAllowed' /\ [Next]_vars
  BY PlanStaysAllowed, GuestStepIsServiceStep
<1> QED
  BY <1>1, <1>2, PTL DEF GuestSpec, Spec

\* However often a guest's events are imported, from snapshots that share
\* them or beside the devices that send them, an account stores each once.
THEOREM ImportedOnce == GuestSpec => []OnceEach
BY MigrationUsesService, EventsAcceptedOnce, PTL

\* An import sent again under its key, by a run repeated or a plan made again,
\* gets its first answer and changes nothing.
THEOREM RerunReturnsOriginal == GuestSpec => RetryReturnsOriginal
BY MigrationUsesService, RetriesReturnOriginal

\* The cursor devices hydrate by moves with each import that changes the
\* account, and with no other.
THEOREM CursorFollowsImports == GuestSpec => CursorTracksAccount
BY MigrationUsesService, CursorFollowsAccount

\* A run opens an archived word again only by a save carried out for the first
\* time: never by one repeated.
THEOREM MigrationReopensBySave == GuestSpec => ArchivedUntilSavedAgain
BY MigrationUsesService, ArchivedStaysArchived

\* What an import was answered with ok is on the account and stays there.
THEOREM ImportsStayCarried == GuestSpec => []AcceptedIsCarried
BY MigrationUsesService, AcceptedStaysCarried, PTL

\* What a migration leaves of a word is what its events make of it, the guest's
\* and the devices' alike.
THEOREM MigratedStateIsReplayed == GuestSpec => []StateIsReplay
BY MigrationUsesService, StateIsReplayed, PTL

\* And the account's statistics and pack progress count them, each once.
THEOREM MigratedRollupsCount == GuestSpec => []RollupsFollowEvents
BY MigrationUsesService, RollupsCountEvents, PTL

-----------------------------------------------------------------------------
(* The operations of a plan, and those of its run, in their order            *)

\* f says where each of some operations stands in a list of them.
Picks(f, some, ops, at) ==
  /\ Cardinality(at) \in Nat
  /\ DOMAIN some = 1..Cardinality(at)
  /\ f \in [1..Cardinality(at) -> at]
  /\ \A n \in 1..Cardinality(at) : some[n] = ops[f[n]]
  /\ \A n, m \in 1..Cardinality(at) : n < m => f[n] < f[m]
  /\ \A i \in at : \E n \in 1..Cardinality(at) : f[n] = i

LEMMA OnlyPicks ==
  ASSUME NEW N \in Nat, NEW at \in SUBSET (1..N), NEW ops
  PROVE  \E f : Picks(f, Only(ops, at), ops, at)
<1> DEFINE c == Cardinality(at)
           low(i) == {j \in at : j <= i}
           rank == [i \in at |-> Cardinality(low(i))]
           f == [n \in 1..c |-> CHOOSE i \in at : Cardinality(low(i)) = n]
<1>1. IsFiniteSet(at) /\ c \in Nat
  <2>1. IsFiniteSet(1..N)
    BY FS_Interval
  <2> QED BY <2>1, FS_Subset, FS_CardinalityType
<1>2. \A i \in at : i \in Nat
  OBVIOUS
<1> HIDE DEF c
<1>0. \A n \in 1..c : n \in Nat
  BY <1>1
<1>3. ASSUME NEW i \in at
      PROVE  IsFiniteSet(low(i)) /\ Cardinality(low(i)) \in 1..c
  <2> DEFINE b == low(i)
  <2>1. b \in SUBSET at /\ i \in b
    BY <1>2
  <2> HIDE DEF b
  <2>2. IsFiniteSet(b) /\ Cardinality(b) <= c
    BY <1>1, <2>1, FS_Subset DEF c
  <2>3. Cardinality(b) \in Nat /\ Cardinality(b) # 0
    BY <2>1, <2>2, FS_CardinalityType, FS_EmptySet
  <2>4. Cardinality(b) \in 1..c
    BY <1>1, <2>2, <2>3
  <2> QED BY <2>2, <2>4 DEF b
<1>4. ASSUME NEW i \in at, NEW j \in at, i < j
      PROVE  rank[i] < rank[j]
  <2> DEFINE a == low(i)  b == low(j)
  <2>1. a \in SUBSET b /\ j \in b /\ j \notin a
    <3>1. i \in Nat /\ j \in Nat /\ \A k \in at : k \in Nat
      BY <1>2
    <3>2. \A k \in at : k <= i => k <= j
      BY <1>4, <3>1
    <3>3. j <= j /\ ~(j <= i)
      BY <1>4, <3>1
    <3> QED BY <3>2, <3>3
  <2>2. IsFiniteSet(a) /\ IsFiniteSet(b)
    BY <1>3
  <2>3. rank[i] = Cardinality(a) /\ rank[j] = Cardinality(b)
    OBVIOUS
  <2> HIDE DEF a, b, rank
  <2>4. Cardinality(a) <= Cardinality(b) /\ (Cardinality(a) = Cardinality(b) => a = b)
    BY <2>1, <2>2, FS_Subset
  <2>5. Cardinality(a) \in Nat /\ Cardinality(b) \in Nat
    BY <2>2, FS_CardinalityType
  <2> QED BY <2>1, <2>3, <2>4, <2>5
<1>5. rank \in [at -> 1..c]
  BY <1>3
<1>6. rank \in Surjection(at, 1..c)
  <2> HIDE DEF rank
  <2>1. \A i, j \in at : rank[i] = rank[j] => i = j
    <3> SUFFICES ASSUME NEW i \in at, NEW j \in at, rank[i] = rank[j], i # j PROVE FALSE
      OBVIOUS
    <3>1. rank[i] \in Nat /\ rank[j] \in Nat
      BY <1>0, <1>5
    <3> QED BY <1>2, <1>4, <3>1
  <2>2. rank \in Injection(at, 1..c)
    BY <1>5, <2>1 DEF Injection, IsInjective
  <2>3. IsFiniteSet(1..c) /\ Cardinality(1..c) = c
    BY <1>1, FS_Interval
  <2> QED BY <1>1, <2>2, <2>3, FS_Injection DEF c
<1>7. ASSUME NEW n \in 1..c
      PROVE  f[n] \in at /\ rank[f[n]] = n
  <2>1. \E i \in at : rank[i] = n
    <3> HIDE DEF rank
    <3> QED BY <1>6 DEF Surjection
  <2>2. \E i \in at : Cardinality(low(i)) = n
    BY <2>1
  <2>3. f[n] = CHOOSE i \in at : Cardinality(low(i)) = n
    OBVIOUS
  <2>4. f[n] \in at /\ Cardinality(low(f[n])) = n
    <3> HIDE DEF low, f
    <3> QED BY <2>2, <2>3
  <2> QED BY <2>4
<1>8. f \in [1..c -> at]
  <2>1. f = [n \in 1..c |-> f[n]]
    OBVIOUS
  <2> HIDE DEF f
  <2> QED BY <1>7, <2>1
<1>9. \A n \in 1..c : Only(ops, at)[n] = ops[f[n]]
  BY DEF Only, c
<1>10. DOMAIN Only(ops, at) = 1..c
  BY DEF Only, c
<1> HIDE DEF rank, f
<1>11. ASSUME NEW n \in 1..c, NEW m \in 1..c, n < m
       PROVE  f[n] < f[m]
  <2>1. f[n] \in at /\ f[m] \in at /\ rank[f[n]] = n /\ rank[f[m]] = m
    BY <1>7
  <2>2. f[n] \in Nat /\ f[m] \in Nat /\ n \in Nat /\ m \in Nat
    BY <1>0, <1>2, <2>1
  <2>3. f[n] # f[m] /\ ~(rank[f[m]] < rank[f[n]])
    BY <1>11, <2>1, <2>2
  <2>4. ~(f[m] < f[n])
    BY <1>4, <2>1, <2>3
  <2> QED BY <2>2, <2>3, <2>4
<1>12. ASSUME NEW i \in at
       PROVE  \E n \in 1..c : f[n] = i
  <2>1. rank[i] \in 1..c
    BY <1>5
  <2>2. f[rank[i]] \in at /\ rank[f[rank[i]]] = rank[i]
    BY <1>7, <2>1
  <2>3. f[rank[i]] \in Nat /\ i \in Nat /\ rank[i] \in Nat
    BY <1>0, <1>2, <2>1, <2>2
  <2>4. ~(rank[i] < rank[i])
    BY <2>3
  <2>5. f[rank[i]] = i
    BY <1>4, <2>2, <2>3, <2>4
  <2> QED BY <2>1, <2>5
<1>13. /\ c \in Nat /\ DOMAIN Only(ops, at) = 1..c /\ f \in [1..c -> at]
       /\ \A n \in 1..c : Only(ops, at)[n] = ops[f[n]]
       /\ \A n, m \in 1..c : n < m => f[n] < f[m]
       /\ \A i \in at : \E n \in 1..c : f[n] = i
  BY <1>1, <1>8, <1>9, <1>10, <1>11, <1>12
<1>14. Picks(f, Only(ops, at), ops, at)
  BY <1>13 DEF Picks, c
<1> QED BY <1>14

ImportKinds == {"import_review_event", "import_saved_word"}

\* Of the operations offered so far, an event's names its place, and no two saved
\* words share their slug.
OfferedInOrder(ops) ==
  /\ \A i \in DOMAIN ops :
       /\ ops[i].kind = "import_review_event" =>
            ops[i].of = <<i, ops[i].row.answer.eventId>>
       /\ ops[i].kind = "import_saved_word" => ops[i].of = <<ops[i].row.slug>>
  /\ \A i, j \in DOMAIN ops :
       (/\ ops[i].kind = "import_saved_word" /\ ops[j].kind = "import_saved_word"
        /\ ops[i].row.slug = ops[j].row.slug) => i = j

\* Where the elements of two lists in a row are.
LEMMA PlacesOfTwo ==
  ASSUME NEW X, NEW x \in Seq(X), NEW y \in Seq(X)
  PROVE  /\ x \o y \in Seq(X) /\ Len(x) \in Nat /\ Len(y) \in Nat
         /\ DOMAIN x = 1..Len(x) /\ DOMAIN y = 1..Len(y)
         /\ \A i \in DOMAIN (x \o y) :
              \/ i \in DOMAIN x /\ (x \o y)[i] = x[i]
              \/ /\ i \in Nat /\ i - Len(x) \in DOMAIN y
                 /\ (x \o y)[i] = y[i - Len(x)]
<1> DEFINE a == Len(x)  b == Len(y)  xy == x \o y
<1>1. /\ a \in Nat /\ b \in Nat /\ xy \in Seq(X) /\ Len(xy) = a + b
      /\ DOMAIN x = 1..a /\ DOMAIN y = 1..b /\ DOMAIN xy = 1..(a + b)
      /\ \A i \in 1..a : xy[i] = x[i]
      /\ \A i \in 1..b : xy[a + i] = y[i]
  OBVIOUS
<1> HIDE DEF a, b, xy
<1>2. ASSUME NEW i \in DOMAIN xy
      PROVE  \/ i \in DOMAIN x /\ xy[i] = x[i]
             \/ i \in Nat /\ i - a \in DOMAIN y /\ xy[i] = y[i - a]
  <2>1. CASE i \in 1..a
    BY <1>1, <2>1
  <2>2. CASE i \notin 1..a
    <3>1. i \in Nat /\ i - a \in 1..b /\ a + (i - a) = i
      BY <1>1, <2>2
    <3>2. xy[a + (i - a)] = y[i - a]
      BY <1>1, <3>1
    <3> QED BY <1>1, <3>1, <3>2
  <2> QED BY <2>1, <2>2
<1>3. \A i \in DOMAIN xy :
        \/ i \in DOMAIN x /\ xy[i] = x[i]
        \/ i \in Nat /\ i - a \in DOMAIN y /\ xy[i] = y[i - a]
  BY <1>2
<1> QED BY <1>1, <1>3 DEF a, b, xy

LEMMA OfferedOthers ==
  ASSUME NEW X, NEW x \in Seq(X), NEW y \in Seq(X), OfferedInOrder(x),
         \A i \in DOMAIN y : y[i].kind \notin ImportKinds
  PROVE  x \o y \in Seq(X) /\ OfferedInOrder(x \o y)
<1> DEFINE xy == x \o y
<1>1. /\ xy \in Seq(X)
      /\ \A i \in DOMAIN xy :
           \/ i \in DOMAIN x /\ xy[i] = x[i]
           \/ xy[i].kind \notin ImportKinds
  BY PlacesOfTwo
<1> HIDE DEF xy
<1>2. \A i \in DOMAIN xy :
        xy[i].kind \in ImportKinds => i \in DOMAIN x /\ xy[i] = x[i]
  BY <1>1
<1>3. OfferedInOrder(xy)
  BY <1>2 DEF OfferedInOrder, ImportKinds
<1> QED BY <1>1, <1>3 DEF xy

LEMMA OfferIsList ==
  ASSUME NEW kind, NEW rows, rows \in Seq(Range(rows))
  PROVE  /\ Offer(kind, rows) \in Seq(Range(Offer(kind, rows)))
         /\ DOMAIN Offer(kind, rows) = DOMAIN rows
         /\ \A i \in DOMAIN rows :
              /\ Offer(kind, rows)[i].kind = kind
              /\ Offer(kind, rows)[i].of = <<rows[i].slug>>
              /\ Offer(kind, rows)[i].row = rows[i]
<1> DEFINE o == Offer(kind, rows)
<1>1. Len(rows) \in Nat /\ DOMAIN rows = 1..Len(rows)
  OBVIOUS
<1>2. /\ o = [i \in DOMAIN rows |-> o[i]]
      /\ \A i \in DOMAIN rows : /\ o[i].kind = kind /\ o[i].row = rows[i]
                                /\ o[i].of = <<rows[i].slug>>
  BY DEF Offer
<1> HIDE DEF o
<1>3. o \in [1..Len(rows) -> Range(o)]
  BY <1>1, <1>2 DEF Range
<1>4. o \in Seq(Range(o))
  BY <1>1, <1>3
<1> QED BY <1>2, <1>4 DEF o

LEMMA EventsAreOffered ==
  ASSUME NEW rows, rows \in Seq(Range(rows))
  PROVE  LET o == OfferEvents(Sorted(rows)) IN
         /\ o \in Seq(Range(o))
         /\ \A i \in DOMAIN o :
              /\ o[i].kind = "import_review_event"
              /\ o[i].of = <<i, o[i].row.answer.eventId>>
<1> DEFINE events == Sorted(rows)
           o == OfferEvents(events)
<1>1. Len(rows) \in Nat /\ DOMAIN rows = 1..Len(rows)
  OBVIOUS
<1>2. DOMAIN events = DOMAIN rows
  BY DEF Sorted
<1> HIDE DEF events
<1>3. /\ o = [i \in DOMAIN events |-> o[i]]
      /\ \A i \in DOMAIN events : /\ o[i].kind = "import_review_event"
                                  /\ o[i].of = <<i, o[i].row.answer.eventId>>
  BY DEF OfferEvents
<1> HIDE DEF o
<1>4. o \in [1..Len(rows) -> Range(o)]
  BY <1>1, <1>2, <1>3 DEF Range
<1>5. o \in Seq(Range(o))
  BY <1>1, <1>4
<1>6. DOMAIN o = DOMAIN events
  BY <1>3
<1> QED BY <1>3, <1>5, <1>6 DEF o, events

\* Events first, then saved words, then what a run does not carry out.
LEMMA OffersInOrder ==
  ASSUME NEW s \in Snapshots
  PROVE  /\ \E N \in Nat : DOMAIN Offered[s] = 1..N
         /\ OfferedInOrder(Offered[s])
<1> DEFINE a == OfferEvents(Sorted(s.reviewEvents))
           b == Offer("import_saved_word", s.savedWords)
           c == Offer("import_review_state", s.reviewState)
           d == Offer("import_daily_stats", s.dailyStats)
           e == Offer("import_pack_progress", s.packProgress)
           f == Offer("import_upgrade_interest", s.upgradeInterest)
           X == UNION {Range(a), Range(b), Range(c), Range(d), Range(e), Range(f)}
<1>1. /\ s.reviewEvents \in Seq(Range(s.reviewEvents))
      /\ s.savedWords \in Seq(Range(s.savedWords))
      /\ s.reviewState \in Seq(Range(s.reviewState))
      /\ s.dailyStats \in Seq(Range(s.dailyStats))
      /\ s.packProgress \in Seq(Range(s.packProgress))
      /\ s.upgradeInterest \in Seq(Range(s.upgradeInterest))
      /\ \A i, j \in DOMAIN s.savedWords :
           s.savedWords[i].slug = s.savedWords[j].slug => i = j
  BY GuestsAssumption
<1>2. /\ a \in Seq(Range(a))
      /\ \A i \in DOMAIN a : /\ a[i].kind = "import_review_event"
                             /\ a[i].of = <<i, a[i].row.answer.eventId>>
  BY <1>1, EventsAreOffered
<1>3. /\ b \in Seq(Range(b))
      /\ \A i \in DOMAIN b : /\ b[i].kind = "import_saved_word"
                             /\ b[i].of = <<b[i].row.slug>>
      /\ \A i, j \in DOMAIN b : b[i].row.slug = b[j].row.slug => i = j
  BY <1>1, OfferIsList
<1>4. /\ c \in Seq(Range(c)) /\ \A i \in DOMAIN c : c[i].kind \notin ImportKinds
      /\ d \in Seq(Range(d)) /\ \A i \in DOMAIN d : d[i].kind \notin ImportKinds
      /\ e \in Seq(Range(e)) /\ \A i \in DOMAIN e : e[i].kind \notin ImportKinds
      /\ f \in Seq(Range(f)) /\ \A i \in DOMAIN f : f[i].kind \notin ImportKinds
  BY <1>1, OfferIsList DEF ImportKinds
<1>5. Offered[s] = a \o b \o c \o d \o e \o f
  BY DEF Offered
<1> HIDE DEF a, b, c, d, e, f
<1>6. /\ a \in Seq(X) /\ b \in Seq(X) /\ c \in Seq(X)
      /\ d \in Seq(X) /\ e \in Seq(X) /\ f \in Seq(X)
  <2>1. \A r \in {Range(a), Range(b), Range(c), Range(d), Range(e), Range(f)} :
          r \subseteq X
    OBVIOUS
  <2> HIDE DEF X
  <2>2. \A q, r : q \in Seq(r) /\ r \subseteq X => q \in Seq(X)
    OBVIOUS
  <2> QED BY <1>2, <1>3, <1>4, <2>1, <2>2
<1> HIDE DEF X
<1>7. a \o b \in Seq(X) /\ OfferedInOrder(a \o b)
  <2> DEFINE ab == a \o b
  <2>1. /\ ab \in Seq(X) /\ Len(a) \in Nat
        /\ \A i \in DOMAIN ab :
             \/ i \in DOMAIN a /\ ab[i] = a[i]
             \/ i \in Nat /\ i - Len(a) \in DOMAIN b /\ ab[i] = b[i - Len(a)]
    BY <1>6, PlacesOfTwo
  <2> HIDE DEF ab
  <2>2. ASSUME NEW i \in DOMAIN ab
        PROVE  /\ ab[i].kind = "import_review_event" =>
                    ab[i].of = <<i, ab[i].row.answer.eventId>>
               /\ ab[i].kind = "import_saved_word" =>
                    /\ ab[i].of = <<ab[i].row.slug>>
                    /\ i \in Nat /\ i - Len(a) \in DOMAIN b /\ ab[i] = b[i - Len(a)]
    BY <1>2, <1>3, <2>1
  <2>3. ASSUME NEW i \in DOMAIN ab, NEW j \in DOMAIN ab,
               ab[i].kind = "import_saved_word", ab[j].kind = "import_saved_word",
               ab[i].row.slug = ab[j].row.slug
        PROVE  i = j
    <3>1. /\ i \in Nat /\ i - Len(a) \in DOMAIN b /\ ab[i] = b[i - Len(a)]
          /\ j \in Nat /\ j - Len(a) \in DOMAIN b /\ ab[j] = b[j - Len(a)]
      BY <2>2, <2>3
    <3>2. i - Len(a) = j - Len(a)
      BY <1>3, <2>3, <3>1
    <3> QED BY <2>1, <3>1, <3>2
  <2>4. OfferedInOrder(ab)
    BY <2>2, <2>3 DEF OfferedInOrder
  <2> QED BY <2>1, <2>4 DEF ab
<1>8. a \o b \o c \in Seq(X) /\ OfferedInOrder(a \o b \o c)
  BY <1>4, <1>6, <1>7, OfferedOthers
<1>9. a \o b \o c \o d \in Seq(X) /\ OfferedInOrder(a \o b \o c \o d)
  BY <1>4, <1>6, <1>8, OfferedOthers
<1>10. a \o b \o c \o d \o e \in Seq(X) /\ OfferedInOrder(a \o b \o c \o d \o e)
  BY <1>4, <1>6, <1>9, OfferedOthers
<1>11. /\ a \o b \o c \o d \o e \o f \in Seq(X)
       /\ OfferedInOrder(a \o b \o c \o d \o e \o f)
  BY <1>4, <1>6, <1>10, OfferedOthers
<1>12. Offered[s] \in Seq(X) /\ OfferedInOrder(Offered[s])
  BY <1>5, <1>11
<1> QED BY <1>12

\* A run's operations: the plan's events in the order they are offered in, each
\* named by its place, and its saved words, each once.
ImportsInOrder(s) ==
  LET todo == Imports[s] IN
  /\ \E k \in Nat : DOMAIN todo = 1..k
  /\ \A i \in DOMAIN todo :
       /\ todo[i] \in Range(Operations[s]) /\ todo[i].kind \in ImportKinds
       /\ todo[i].kind = "import_review_event" =>
            /\ todo[i].of[1] \in Nat
            /\ todo[i].of = <<todo[i].of[1], todo[i].row.answer.eventId>>
       /\ todo[i].kind = "import_saved_word" => todo[i].of = <<todo[i].row.slug>>
  /\ \A i, j \in DOMAIN todo :
       (/\ todo[i].kind = "import_review_event" /\ todo[j].kind = "import_review_event"
        /\ i < j) => todo[i].of[1] < todo[j].of[1]
  /\ \A i, j \in DOMAIN todo :
       (/\ todo[i].kind = "import_saved_word" /\ todo[j].kind = "import_saved_word"
        /\ todo[i].row.slug = todo[j].row.slug) => i = j
  /\ \A op \in OfKind("import_review_event", s) : \E i \in DOMAIN todo : todo[i] = op

LEMMA RunGoesInOrder ==
  ASSUME NEW s \in Snapshots
  PROVE  ImportsInOrder(s)
<1> DEFINE offered == Offered[s]
           ops  == Operations[s]
           todo == Imports[s]
           valid == {i \in DOMAIN offered : offered[i].row.valid}
           chosen == {i \in DOMAIN ops : ops[i].kind \in ImportKinds}
<1>1. PICK N \in Nat : DOMAIN offered = 1..N
  BY OffersInOrder
<1>2. OfferedInOrder(offered)
  BY OffersInOrder
<1>3. ops = Only(offered, valid) /\ valid \in SUBSET (1..N)
  BY <1>1 DEF Operations
<1>4. PICK f : Picks(f, ops, offered, valid)
  <2> HIDE DEF ops, valid, offered
  <2> QED BY <1>3, OnlyPicks
<1>5. todo = Only(ops, chosen)
  BY DEF Imports, ImportKinds
<1>6. chosen \in SUBSET (DOMAIN ops)
  OBVIOUS
<1>7. PICK M \in Nat : DOMAIN ops = 1..M
  BY <1>4 DEF Picks
<1>8. PICK g : Picks(g, todo, ops, chosen)
  <2> HIDE DEF ops, chosen, todo
  <2> QED BY <1>5, <1>6, <1>7, OnlyPicks
<1>9. \A i \in chosen : i \in DOMAIN ops /\ ops[i].kind \in ImportKinds
  OBVIOUS
<1>10. \A i \in DOMAIN ops : ops[i].kind \in ImportKinds => i \in chosen
  OBVIOUS
<1>11. \A i \in valid : i \in DOMAIN offered
  OBVIOUS
<1> HIDE DEF ops, todo, offered, valid, chosen
<1> DEFINE at == [n \in DOMAIN todo |-> f[g[n]]]
<1>12. ASSUME NEW n \in DOMAIN todo
       PROVE  /\ g[n] \in DOMAIN ops /\ todo[n] = ops[g[n]]
              /\ todo[n].kind \in ImportKinds
              /\ at[n] \in DOMAIN offered /\ at[n] \in Nat /\ todo[n] = offered[at[n]]
  <2>1. g[n] \in chosen /\ todo[n] = ops[g[n]]
    BY <1>8 DEF Picks
  <2>2. g[n] \in DOMAIN ops /\ ops[g[n]].kind \in ImportKinds
    BY <1>9, <2>1
  <2>3. f[g[n]] \in valid /\ ops[g[n]] = offered[f[g[n]]]
    BY <1>4, <2>2 DEF Picks
  <2> QED BY <1>1, <1>11, <2>1, <2>2, <2>3
<1>13. ASSUME NEW n \in DOMAIN todo, NEW m \in DOMAIN todo, n < m
       PROVE  at[n] < at[m]
  <2>1. g[n] < g[m]
    BY <1>8, <1>13 DEF Picks
  <2>2. g[n] \in DOMAIN ops /\ g[m] \in DOMAIN ops
    BY <1>12
  <2>3. f[g[n]] < f[g[m]]
    BY <1>4, <2>1, <2>2 DEF Picks
  <2> QED BY <2>3
<1>14. PICK k \in Nat : DOMAIN todo = 1..k
  BY <1>8 DEF Picks
<1>15. \A n, m \in DOMAIN todo : at[n] = at[m] => n = m
  <2> SUFFICES ASSUME NEW n \in DOMAIN todo, NEW m \in DOMAIN todo, at[n] = at[m]
               PROVE  n = m
    OBVIOUS
  <2>1. at[n] \in Nat /\ at[m] \in Nat /\ n \in Nat /\ m \in Nat
    BY <1>12, <1>14
  <2> HIDE DEF at
  <2>2. ~(at[n] < at[m]) /\ ~(at[m] < at[n])
    BY <2>1
  <2> QED BY <1>13, <2>1, <2>2
<1> HIDE DEF at
<1>16. ASSUME NEW n \in DOMAIN todo
       PROVE  /\ todo[n] \in Range(ops)
              /\ todo[n].kind = "import_review_event" =>
                   todo[n].of = <<at[n], todo[n].row.answer.eventId>>
              /\ todo[n].kind = "import_saved_word" => todo[n].of = <<todo[n].row.slug>>
  BY <1>2, <1>12 DEF OfferedInOrder, Range
<1>17. ASSUME NEW n \in DOMAIN todo, NEW m \in DOMAIN todo,
              todo[n].kind = "import_saved_word", todo[m].kind = "import_saved_word",
              todo[n].row.slug = todo[m].row.slug
       PROVE  n = m
  <2>1. at[n] = at[m]
    BY <1>2, <1>12, <1>17 DEF OfferedInOrder
  <2> QED BY <1>15, <2>1
<1>18. ASSUME NEW op \in OfKind("import_review_event", s)
       PROVE  \E n \in DOMAIN todo : todo[n] = op
  <2>1. op \in Range(ops) /\ op.kind = "import_review_event"
    BY DEF OfKind, ops
  <2>2. PICK i \in DOMAIN ops : ops[i] = op
    BY <2>1 DEF Range
  <2>3. i \in chosen
    BY <1>10, <2>1, <2>2 DEF ImportKinds
  <2> QED BY <1>8, <2>2, <2>3 DEF Picks
<1>19. ASSUME NEW n \in DOMAIN todo, todo[n].kind = "import_review_event"
       PROVE  /\ todo[n].of[1] = at[n] /\ at[n] \in Nat
              /\ todo[n].of = <<todo[n].of[1], todo[n].row.answer.eventId>>
  BY <1>12, <1>16, <1>19
<1>20. /\ \A n \in DOMAIN todo :
            /\ todo[n] \in Range(ops) /\ todo[n].kind \in ImportKinds
            /\ todo[n].kind = "import_review_event" =>
                 /\ todo[n].of[1] \in Nat
                 /\ todo[n].of = <<todo[n].of[1], todo[n].row.answer.eventId>>
            /\ todo[n].kind = "import_saved_word" => todo[n].of = <<todo[n].row.slug>>
       /\ \A n, m \in DOMAIN todo :
            (/\ todo[n].kind = "import_review_event"
             /\ todo[m].kind = "import_review_event"
             /\ n < m) => todo[n].of[1] < todo[m].of[1]
  BY <1>12, <1>13, <1>16, <1>19
<1> QED BY <1>14, <1>17, <1>18, <1>20 DEF ImportsInOrder, todo, ops

\* A key of a migration names the snapshot, and the operation in it.
LEMMA MigrationKeyTells ==
  ASSUME NEW s \in Snapshots, NEW t \in Snapshots,
         NEW i \in DOMAIN Imports[s], NEW j \in DOMAIN Imports[t],
         MigrationKey(s, Imports[s][i]) = MigrationKey(t, Imports[t][j])
  PROVE  s = t /\ i = j
<1> DEFINE x == Imports[s][i]  y == Imports[t][j]
<1>1. ImportsInOrder(s) /\ ImportsInOrder(t)
  BY RunGoesInOrder
<1>2. /\ x.kind \in ImportKinds /\ y.kind \in ImportKinds
      /\ x.kind = "import_review_event" =>
           /\ x.of[1] \in Nat /\ x.of = <<x.of[1], x.row.answer.eventId>>
      /\ x.kind = "import_saved_word" => x.of = <<x.row.slug>>
      /\ y.kind = "import_review_event" =>
           /\ y.of[1] \in Nat /\ y.of = <<y.of[1], y.row.answer.eventId>>
      /\ y.kind = "import_saved_word" => y.of = <<y.row.slug>>
  BY <1>1 DEF ImportsInOrder
<1>3. <<"migration", s.id, x.kind>> \o x.of = <<"migration", t.id, y.kind>> \o y.of
  BY DEF MigrationKey
<1> HIDE DEF x, y
<1>4. s.id = t.id /\ x.kind = y.kind /\ x.of[1] = y.of[1]
  BY <1>2, <1>3 DEF ImportKinds
<1>5. s = t
  BY <1>4, GuestsAssumption
<1>6. i = j
  BY <1>1, <1>2, <1>4, <1>5 DEF x, y, ImportsInOrder, ImportKinds
<1> QED BY <1>5, <1>6

-----------------------------------------------------------------------------
(* What runs have sent                                                       *)

Request(s, u, i) == RequestOf(s, u, Imports[s][i])

\* What is sent is complete and valid, and its key is a migration's own.
RequestIsSound(s, u, i) ==
  LET m == Request(s, u, i)  op == Imports[s][i] IN
  /\ m \in Writes /\ ~IsIncomplete(m) /\ m.valid = TRUE /\ m.user = u /\ u \in Users
  /\ m.key = MigrationKey(s, op) /\ m.key \in Keys
  /\ op.kind = "import_review_event" =>
       m.operation = "submit_review_event" /\ m.answer = op.row.answer
  /\ op.kind = "import_saved_word" =>
       /\ m.operation = "save_word" /\ m.slug = op.row.slug
       /\ m.savedAt = op.row.savedAt /\ m.slug \in Words
  /\ op.kind \in ImportKinds
  /\ \A n \in DeviceWrites \cup Batches \cup {q.write : q \in Queued} : n.key # m.key

LEMMA RequestsAreSound ==
  ASSUME NEW s, NEW u, <<s, u>> \in Migrations, NEW i \in DOMAIN Imports[s]
  PROVE  RequestIsSound(s, u, i)
<1> DEFINE m == Request(s, u, i)  op == Imports[s][i]
<1>1. s \in Snapshots /\ u \in Users /\ u # None
  BY MigrationsAssumption, NoneAssumption
<1>2. op \in Range(Imports[s]) /\ op.kind \in ImportKinds
  BY <1>1, RunGoesInOrder DEF ImportsInOrder, Range
<1>3. m \in MigrationWrites
  <2> DEFINE at == <<s, u>>
  <2>1. at \in Migrations /\ m = RequestOf(at[1], at[2], op) /\ op \in Range(Imports[at[1]])
    BY <1>2 DEF Request
  <2> HIDE DEF m, op, at
  <2> QED BY <2>1 DEF MigrationWrites
<1>4. /\ m \in Writes /\ m.key # None
      /\ \A n \in DeviceWrites \cup Batches \cup {q.write : q \in Queued} : n.key # m.key
  BY <1>3, MigrationsAssumption DEF Writes
<1>5. op.kind = "import_review_event" =>
        /\ m.key = MigrationKey(s, op) /\ m.user = u /\ m.valid = TRUE
        /\ m.operation = "submit_review_event" /\ m.answer = op.row.answer
  BY DEF Request, RequestOf
<1>6. op.kind = "import_saved_word" =>
        /\ m.key = MigrationKey(s, op) /\ m.user = u /\ m.valid = TRUE
        /\ m.operation = "save_word" /\ m.slug = op.row.slug
        /\ m.savedAt = op.row.savedAt
  BY DEF Request, RequestOf
<1> HIDE DEF m, op
<1>7. m.key = MigrationKey(s, op) /\ m.user = u /\ m.valid = TRUE
  BY <1>2, <1>5, <1>6 DEF ImportKinds
<1>8. ~IsIncomplete(m) /\ m.key \in Keys
  BY <1>1, <1>4, <1>7 DEF IsIncomplete, Keys
<1>9. m.operation = "save_word" => m.slug \in Words
  BY <1>4, EnvelopesAssumption
<1> QED BY <1>1, <1>2, <1>4, <1>5, <1>6, <1>7, <1>8, <1>9 DEF RequestIsSound, m, op

\* All of a snapshot's operations were sent, for one account, and answered with
\* ok; or none.
Sent(s, u) == \A i \in DOMAIN Imports[s] : WasAccepted(Request(s, u, i))

Unsent(s) == \A i \in DOMAIN Imports[s] : processed[MigrationKey(s, Imports[s][i])] = None

SentBefore(s) == \E u : <<s, u>> \in Migrations /\ Sent(s, u)

\* A run that is the first to send its snapshot
Filling ==
  \A i \in DOMAIN Todo :
    IF i < Position THEN WasAccepted(Request(plan.snapshot, plan.user, i))
    ELSE processed[MigrationKey(plan.snapshot, Todo[i])] = None

\* A run goes through all of its operations before anything else happens: no
\* snapshot is left half sent.
WholeSnapshots ==
  /\ \A at \in Migrations :
       (run = None \/ at[1] # plan.snapshot) => Unsent(at[1]) \/ SentBefore(at[1])
  /\ run # None => Filling \/ SentBefore(plan.snapshot)

PlanOK ==
  /\ PlanIsAllowed
  /\ (plan # None \/ run # None) =>
       plan.conflicts = Conflicts(plan.snapshot, plan.digest)
  /\ run # None =>
       /\ run \in Runs
       /\ \A i \in 1..Len(run.results) : i \in DOMAIN Todo

\* A memo that stays says the same of its request.
SameMemo(s, i) ==
  processed'[MigrationKey(s, Imports[s][i])] = processed[MigrationKey(s, Imports[s][i])]

LEMMA SameMemoSame ==
  ASSUME NEW s, NEW u, <<s, u>> \in Migrations, NEW i \in DOMAIN Imports[s],
         SameMemo(s, i), WasAccepted(Request(s, u, i))
  PROVE  WasAccepted(Request(s, u, i))'
<1> DEFINE m == Request(s, u, i)
<1>0. RequestIsSound(s, u, i)
  BY RequestsAreSound
<1>1. m.key = MigrationKey(s, Imports[s][i])
  BY <1>0 DEF RequestIsSound
<1> HIDE DEF m
<1>2. /\ ~IsIncomplete(m) /\ processed[m.key] # None
      /\ processed[m.key].fingerprint = Fingerprint(m)
      /\ processed[m.key].response.status = "ok"
  BY DEF m, WasAccepted, IsRetry
<1>3. processed'[m.key] = processed[m.key]
  BY <1>1 DEF SameMemo
<1>4. WasAccepted(m)'
  BY <1>2, <1>3 DEF WasAccepted, IsRetry
<1> QED BY <1>4 DEF m

LEMMA SnapshotStays ==
  ASSUME NEW s \in Snapshots, \A i \in DOMAIN Imports[s] : SameMemo(s, i)
  PROVE  /\ Unsent(s) => Unsent(s)'
         /\ SentBefore(s) => SentBefore(s)'
<1>1. Unsent(s) => Unsent(s)'
  BY DEF Unsent, SameMemo
<1>2. ASSUME NEW u, <<s, u>> \in Migrations, Sent(s, u)
      PROVE  Sent(s, u)'
  <2>1. ASSUME NEW i \in DOMAIN Imports[s] PROVE WasAccepted(Request(s, u, i))'
    BY <1>2, SameMemoSame DEF Sent
  <2> QED BY <2>1 DEF Sent
<1> QED BY <1>1, <1>2 DEF SentBefore

\* What devices send leaves the migrations' keys alone.
LEMMA ServiceKeepsKeys ==
  ASSUME TypeOK, ServiceNext, NEW s, NEW u, <<s, u>> \in Migrations,
         NEW i \in DOMAIN Imports[s]
  PROVE  SameMemo(s, i)
<1> DEFINE key == MigrationKey(s, Imports[s][i])
<1> USE DEF TypeOK
<1>0. RequestIsSound(s, u, i)
  BY RequestsAreSound
<1>1. /\ key \in Keys
      /\ \A n \in DeviceWrites \cup Batches \cup {q.write : q \in Queued} : n.key # key
  BY <1>0 DEF RequestIsSound
<1> HIDE DEF key
<1>2. ASSUME NEW m \in Writes, Write(m), m.key # key
      PROVE  processed'[key] = processed[key]
  BY <1>1, <1>2, WriteRemembers DEF AddsMemo, RejectIncomplete, AnswerFromKey
<1>3. ASSUME NEW m \in DeviceWrites, Receive(m) PROVE processed'[key] = processed[key]
  BY <1>1, <1>2, <1>3 DEF Receive, DeviceWrites, Writes
<1>4. ASSUME \E b \in Batches : StartBatch(b) \/ RepeatBatch(b)
      PROVE  processed'[key] = processed[key]
  BY <1>4 DEF StartBatch, RepeatBatch, RejectIncomplete, AnswerFromKey
<1>5. ASSUME SkipRetryable \/ RejectUnsupported
      PROVE  processed'[key] = processed[key]
  BY <1>5 DEF SkipRetryable, RejectUnsupported
<1>6. ASSUME WriteItem
      PROVE  processed'[key] = processed[key]
  <2> DEFINE item == Head(batch.left)
  <2>1. batch # None /\ batch.left # << >> /\ Write(ItemWrite(item))
    BY <1>6 DEF WriteItem
  <2>2. item \in Queued /\ ItemWrite(item) \in Writes
    BY <2>1, ItemWriteIsWrite DEF BatchOK
  <2> HIDE DEF item
  <2>3. ItemWrite(item).key # key
    BY <1>1, <2>2, ItemWriteKey
  <2> QED BY <1>2, <2>1, <2>2, <2>3
<1>7. ASSUME FinishBatch
      PROVE  processed'[key] = processed[key]
  <2>1. AddsMemo(batch.envelope)
    BY <1>7, FinishBatchKeeps
  <2>2. batch.envelope \in Batches
    BY <1>7 DEF FinishBatch, BatchOK
  <2> QED BY <1>1, <2>1, <2>2 DEF AddsMemo
<1> QED BY <1>3, <1>4, <1>5, <1>6, <1>7 DEF ServiceNext, SameMemo, key

\* What comes of the operation that a run sends: the answer its key remembers, or
\* what the service then does for the first time, which is never refused.
Repeats(m) ==
  /\ processed[m.key] # None
  /\ UNCHANGED <<account, processed>>
  /\ reply'.response.status = "ok" => WasAccepted(m)

CarriesOut(m, kind) ==
  /\ processed[m.key] = None
  /\ AddsMemo(m) /\ WasAccepted(m)' /\ reply'.response.status = "ok"
  /\ kind = "import_review_event" =>
       AcceptEvent(m) \/ (StoredEvents(m) # {} /\ UNCHANGED account)
  /\ kind = "import_saved_word" => SaveWord(m)

LEMMA NewIsOk ==
  ASSUME TypeOK, NEW m \in Writes, AddsMemo(m), ~IsIncomplete(m),
         reply'.response.status = "ok"
  PROVE  WasAccepted(m)'
<1>1. /\ processed'[m.key] # None
      /\ processed'[m.key].fingerprint = Fingerprint(m)
      /\ processed'[m.key].response.status = "ok"
  BY DEF AddsMemo
<1> QED BY <1>1 DEF WasAccepted, IsRetry, IsIncomplete, Fingerprint

LEMMA ImportCases ==
  ASSUME TypeOK, PlanIsAllowed, Import,
         NEW m, m = Request(plan.snapshot, plan.user, Position)
  PROVE  /\ Position \in DOMAIN Todo
         /\ RequestIsSound(plan.snapshot, plan.user, Position)
         /\ Repeats(m) \/ CarriesOut(m, Todo[Position].kind)
<1> USE DEF TypeOK
<1>1. Position \in DOMAIN Imports[plan.snapshot] /\ run # None
  BY DEF Import, IsRunning, Todo
<1>2. RequestIsSound(plan.snapshot, plan.user, Position)
  BY <1>1, RequestsAreSound DEF PlanIsAllowed
<1>3. /\ m \in Writes /\ ~IsIncomplete(m) /\ m.valid = TRUE /\ m.key \in Keys
      /\ Todo[Position].kind = "import_review_event" => m.operation = "submit_review_event"
      /\ Todo[Position].kind = "import_saved_word" => m.operation = "save_word"
      /\ Todo[Position].kind \in ImportKinds
  BY <1>2 DEF RequestIsSound, Todo
<1>4. Write(m)
  BY DEF Import, Receive, Request, Todo
<1>5. ~RejectIncomplete(m) /\ ~(~m.valid /\ Refuse(m))
  BY <1>3 DEF RejectIncomplete
<1>6. m.operation \in {"save_word", "submit_review_event"}
  BY <1>3 DEF ImportKinds
<1>7. ASSUME AnswerFromKey(m)
      PROVE  Repeats(m)
  <2>1. processed[m.key] # None /\ UNCHANGED <<account, processed>>
    BY <1>7 DEF AnswerFromKey
  <2>2. processed[m.key] \in Memo
    BY <1>3, <2>1 DEF RepliesOK
  <2>3. ASSUME reply'.response.status = "ok" PROVE WasAccepted(m)
    <3>1. processed[m.key].fingerprint = Fingerprint(m)
      BY <1>7, <2>3 DEF AnswerFromKey, Error
    <3>2. reply'.response = [processed[m.key].response EXCEPT !.duplicateOf = m.key]
      BY <1>7, <3>1 DEF AnswerFromKey
    <3>3. reply'.response.status = processed[m.key].response.status
      BY <2>2, <3>2 DEF Memo, Responses
    <3> QED BY <1>3, <2>1, <2>3, <3>1, <3>3 DEF WasAccepted, IsRetry
  <2> QED BY <2>1, <2>3 DEF Repeats
<1>8. ASSUME m.operation = "save_word", SaveWord(m)
      PROVE  CarriesOut(m, Todo[Position].kind)
  <2>1. processed[m.key] = None /\ AddsMemo(m) /\ reply'.response.status = "ok"
    BY <1>3, <1>8, SaveWordKeeps DEF SaveWord, IsNew, Remember, Ok
  <2>2. WasAccepted(m)'
    BY <1>3, <2>1, NewIsOk
  <2> QED BY <1>3, <1>8, <2>1, <2>2 DEF CarriesOut
<1>9. ASSUME m.operation = "submit_review_event", AcceptEvent(m)
      PROVE  CarriesOut(m, Todo[Position].kind)
  <2>1. processed[m.key] = None /\ AddsMemo(m) /\ reply'.response.status = "ok"
    BY <1>3, <1>9, AcceptEventKeeps DEF AcceptEvent, IsNew, Remember, Ok
  <2>2. WasAccepted(m)'
    BY <1>3, <2>1, NewIsOk
  <2> QED BY <1>3, <1>9, <2>1, <2>2 DEF CarriesOut
<1>10. ASSUME m.operation = "submit_review_event", AcceptKnownEvent(m)
       PROVE  CarriesOut(m, Todo[Position].kind)
  <2>1. AddsMemo(m)
    BY <1>3, <1>10, AcceptKnownEventKeeps
  <2>2. /\ processed[m.key] = None /\ reply'.response.status = "ok"
        /\ StoredEvents(m) # {} /\ UNCHANGED account
    BY <1>10 DEF AcceptKnownEvent, IsNew, Remember, Ok
  <2>3. WasAccepted(m)'
    BY <1>3, <2>1, <2>2, NewIsOk
  <2> QED BY <1>3, <1>10, <2>1, <2>2, <2>3 DEF CarriesOut
<1>11. Repeats(m) \/ CarriesOut(m, Todo[Position].kind)
  BY <1>4, <1>5, <1>6, <1>7, <1>8, <1>9, <1>10 DEF Write
<1> QED BY <1>1, <1>2, <1>11 DEF Todo

\* What an import leaves of the run
Result == IF reply'.response.status = "ok" THEN "accepted" ELSE "rejected"

LEMMA ImportAdds ==
  ASSUME PlanOK, Import
  PROVE  /\ run # None /\ run' # None /\ plan' = plan /\ Todo' = Todo
         /\ Len(run.results) \in Nat /\ Position = Len(run.results) + 1
         /\ run'.results = Append(run.results, Result)
         /\ run' \in Runs
         /\ Len(run'.results) = Position /\ Position' = Position + 1
         /\ run'.eventsBefore = run.eventsBefore /\ run'.unmoved = run.unmoved
<1>1. run # None /\ run \in Runs /\ plan' = plan
  BY DEF Import, IsRunning, PlanOK
<1>2. Result \in {"accepted", "rejected"}
  BY DEF Result
<1>3. run' = [run EXCEPT !.results = Append(run.results, Result)]
  BY DEF Import, Result
<1> DEFINE more == Append(run.results, Result)
<1>4. /\ more \in Seq({"accepted", "rejected"}) /\ Len(run.results) \in Nat
      /\ Len(more) = Len(run.results) + 1
  BY <1>1, <1>2 DEF Runs
<1> HIDE DEF more
<1>5. /\ run' \in Runs /\ run'.results = more
      /\ run'.eventsBefore = run.eventsBefore /\ run'.unmoved = run.unmoved
  BY <1>1, <1>3, <1>4 DEF more, Runs
<1>6. Todo' = Todo
  BY <1>1 DEF Todo
<1>7. run' # None
  BY <1>5, GuestsAssumption
<1> QED BY <1>1, <1>4, <1>5, <1>6, <1>7 DEF Position, more

LEMMA PlanStep ==
  ASSUME TypeOK, PlanOK, [GuestNext]_guestVars
  PROVE  PlanOK'
<1>0. PlanIsAllowed'
  BY PlanStaysAllowed DEF PlanOK
<1>1. CASE UNCHANGED <<plan, run>>
  BY <1>0, <1>1 DEF PlanOK, Todo
<1>2. ASSUME NEW at \in Migrations, MakePlan(at[1], at[2])
      PROVE  PlanOK'
  <2>1. run = None /\ run' = None
    BY <1>2 DEF MakePlan
  <2>2. plan'.conflicts = Conflicts(plan'.snapshot, plan'.digest)
    BY <1>2 DEF MakePlan
  <2> QED BY <1>0, <2>1, <2>2 DEF PlanOK
<1>3. CASE StartRun
  <2> DEFINE same == plan.digest = DigestOf(plan.user)
  <2>1. /\ plan # None /\ plan' = plan
        /\ run' = [results |-> << >>, eventsBefore |-> Len(reviewEvents), unmoved |-> same]
    BY <1>3 DEF StartRun
  <2>2. same \in BOOLEAN /\ Len(reviewEvents) \in Nat
    BY DEF TypeOK, AccountOK
  <2> HIDE DEF same
  <2>3. << >> \in Seq({"accepted", "rejected"}) /\ Len(<< >>) = 0
    OBVIOUS
  <2>4. run' \in Runs /\ run'.results = << >>
    BY <2>1, <2>2, <2>3 DEF Runs
  <2>5. \A i \in 1..Len(run'.results) : i \in DOMAIN Todo'
    BY <2>3, <2>4
  <2> QED BY <1>0, <2>1, <2>4, <2>5 DEF PlanOK
<1>4. CASE EndRun
  BY <1>0, <1>4 DEF EndRun, PlanOK
<1>5. CASE Import
  <2>1. /\ run # None /\ plan' = plan /\ Todo' = Todo /\ Position \in DOMAIN Todo
        /\ Position = Len(run.results) + 1 /\ Len(run.results) \in Nat
        /\ Len(run'.results) = Position
        /\ run' \in Runs
    BY <1>5, ImportAdds DEF Import, IsRunning
  <2>2. \A i \in 1..Len(run.results) : i \in DOMAIN Todo
    BY <2>1 DEF PlanOK
  <2>3. \A i \in 1..Len(run'.results) : i \in DOMAIN Todo'
    BY <2>1, <2>2
  <2> QED BY <1>0, <2>1, <2>3 DEF PlanOK
<1> QED BY <1>1, <1>2, <1>3, <1>4, <1>5 DEF GuestNext, ServiceNext, guestVars

\* An operation sent leaves the keys of all others as they are.
LEMMA OtherKeysStay ==
  ASSUME NEW s, NEW u, <<s, u>> \in Migrations, NEW i \in DOMAIN Imports[s],
         processed' = processed \/ AddsMemo(Request(s, u, i)),
         NEW t, NEW v, <<t, v>> \in Migrations, NEW j \in DOMAIN Imports[t],
         ~(t = s /\ j = i)
  PROVE  SameMemo(t, j)
<1>1. RequestIsSound(s, u, i) /\ RequestIsSound(t, v, j)
  BY RequestsAreSound
<1>2. /\ Request(s, u, i).key = MigrationKey(s, Imports[s][i])
      /\ MigrationKey(t, Imports[t][j]) \in Keys
  BY <1>1 DEF RequestIsSound
<1>3. MigrationKey(t, Imports[t][j]) # MigrationKey(s, Imports[s][i])
  BY MigrationKeyTells, MigrationsAssumption
<1> QED BY <1>2, <1>3 DEF AddsMemo, SameMemo

\* The snapshots that no run is going through
LEMMA OthersStay ==
  ASSUME NEW s \in Snapshots, NEW u, <<s, u>> \in Migrations,
         \A i \in DOMAIN Imports[s] : SameMemo(s, i),
         Unsent(s) \/ SentBefore(s)
  PROVE  (Unsent(s) \/ SentBefore(s))'
BY SnapshotStays

\* The snapshot of the run, at each of its operations
LEMMA ImportKeepsWhole ==
  ASSUME TypeOK, PlanOK, WholeSnapshots, Import
  PROVE  WholeSnapshots'
<1> SUFFICES ASSUME NEW s, s = plan.snapshot, NEW u, u = plan.user,
                    NEW i, i = Position, NEW m, m = Request(s, u, i)
             PROVE  WholeSnapshots'
  OBVIOUS
<1>1. /\ <<s, u>> \in Migrations /\ s \in Snapshots /\ run # None
  BY MigrationsAssumption DEF PlanOK, PlanIsAllowed, Import, IsRunning
<1>2. /\ i \in DOMAIN Imports[s] /\ RequestIsSound(s, u, i)
      /\ Repeats(m) \/ CarriesOut(m, Todo[i].kind)
  BY ImportCases DEF PlanOK, Todo
<1>3. processed' = processed \/ AddsMemo(m)
  BY <1>2 DEF Repeats, CarriesOut
<1>4. /\ run' # None /\ plan' = plan /\ Todo' = Todo /\ Todo = Imports[s]
      /\ Len(run.results) \in Nat /\ i = Len(run.results) + 1 /\ Position' = i + 1
  BY ImportAdds DEF Todo
<1>5. m.key = MigrationKey(s, Imports[s][i])
  BY <1>2 DEF RequestIsSound
<1>6. ASSUME NEW at \in Migrations, at[1] # s
      PROVE  (Unsent(at[1]) \/ SentBefore(at[1]))'
  <2>1. at = <<at[1], at[2]>> /\ at[1] \in Snapshots
    BY MigrationsAssumption
  <2>2. \A j \in DOMAIN Imports[at[1]] : SameMemo(at[1], j)
    BY <1>1, <1>2, <1>3, <1>6, <2>1, OtherKeysStay
  <2>3. Unsent(at[1]) \/ SentBefore(at[1])
    BY <1>6 DEF WholeSnapshots
  <2> QED BY <2>1, <2>2, <2>3, OthersStay
<1>7. CASE SentBefore(s)
  <2>1. PICK v : <<s, v>> \in Migrations /\ Sent(s, v)
    BY <1>7 DEF SentBefore
  <2>2. RequestIsSound(s, v, i) /\ WasAccepted(Request(s, v, i))
    BY <1>2, <2>1, RequestsAreSound DEF Sent
  <2>3. processed[Request(s, v, i).key] # None
    BY <2>2 DEF WasAccepted, IsRetry
  <2>4. Request(s, v, i).key = m.key
    BY <1>5, <2>2 DEF RequestIsSound
  <2>5. processed' = processed
    BY <1>2, <2>3, <2>4 DEF Repeats, CarriesOut
  <2>6. \A j \in DOMAIN Imports[s] : SameMemo(s, j)
    BY <2>5 DEF SameMemo
  <2>7. SentBefore(s)'
    <3>1. SentBefore(s)'
      BY <1>1, <1>7, <2>6, SnapshotStays DEF SentBefore
    <3> QED BY <3>1
  <2>8. SentBefore(plan.snapshot)'
    BY <1>4, <2>7
  <2> QED BY <1>4, <1>6, <2>8 DEF WholeSnapshots
<1>8. CASE Filling
  <2>1. \A j \in DOMAIN Imports[s] :
          /\ j < i => WasAccepted(Request(s, u, j))
          /\ ~(j < i) => processed[MigrationKey(s, Imports[s][j])] = None
    BY <1>4, <1>8 DEF Filling
  <2>2. CarriesOut(m, Todo[i].kind)
    <3>1. ~(i < i)
      BY <1>4
    <3>2. processed[m.key] = None
      BY <1>2, <1>5, <2>1, <3>1
    <3> QED BY <1>2, <3>2 DEF Repeats
  <2>3. WasAccepted(Request(s, u, i))'
    BY <2>2 DEF CarriesOut
  <2>4. ASSUME NEW j \in DOMAIN Imports[s], j # i
        PROVE  SameMemo(s, j)
    <3>1. RequestIsSound(s, u, j)
      BY <1>1, RequestsAreSound
    <3>2. MigrationKey(s, Imports[s][j]) # m.key /\ MigrationKey(s, Imports[s][j]) \in Keys
      BY <1>1, <1>2, <1>5, <2>4, <3>1, MigrationKeyTells DEF RequestIsSound
    <3> QED BY <1>3, <3>2 DEF AddsMemo, SameMemo
  <2>5. PICK k \in Nat : DOMAIN Imports[s] = 1..k
    BY <1>1, RunGoesInOrder DEF ImportsInOrder
  <2>6. ASSUME NEW j \in DOMAIN Imports[s]
        PROVE  IF j < i + 1 THEN WasAccepted(Request(s, u, j))'
               ELSE processed'[MigrationKey(s, Imports[s][j])] = None
    <3>1. j \in Nat /\ i \in Nat
      BY <1>4, <2>5
    <3>2. CASE j = i
      BY <2>3, <3>1, <3>2
    <3>3. CASE j < i
      <4>1. j # i /\ j < i + 1
        BY <3>1, <3>3
      <4>2. WasAccepted(Request(s, u, j))'
        BY <1>1, <2>1, <2>4, <3>3, <4>1, SameMemoSame
      <4> QED BY <4>1, <4>2
    <3>4. CASE i < j
      <4>1. j # i /\ ~(j < i) /\ ~(j < i + 1)
        BY <3>1, <3>4
      <4>2. processed'[MigrationKey(s, Imports[s][j])] = None
        BY <2>1, <2>4, <4>1 DEF SameMemo
      <4> QED BY <4>1, <4>2
    <3> QED BY <3>1, <3>2, <3>3, <3>4
  <2>7. Filling'
    <3>1. /\ Todo' = Imports[s] /\ plan'.snapshot = s /\ plan'.user = u
          /\ Position' = i + 1
      BY <1>4
    <3> QED BY <2>6, <3>1 DEF Filling
  <2> QED BY <1>4, <1>6, <2>7 DEF WholeSnapshots
<1> QED BY <1>1, <1>7, <1>8 DEF WholeSnapshots

LEMMA WholeStep ==
  ASSUME TypeOK, PlanOK, WholeSnapshots, [GuestNext]_guestVars
  PROVE  WholeSnapshots'
<1>1. ASSUME processed' = processed, NEW at \in Migrations,
             Unsent(at[1]) \/ SentBefore(at[1])
      PROVE  (Unsent(at[1]) \/ SentBefore(at[1]))'
  <2>1. at[1] \in Snapshots
    BY MigrationsAssumption
  <2>2. \A i \in DOMAIN Imports[at[1]] : SameMemo(at[1], i)
    BY <1>1 DEF SameMemo
  <2> QED BY <1>1, <2>1, <2>2, SnapshotStays
<1>2. CASE UNCHANGED guestVars
  <2>1. processed' = processed /\ plan' = plan /\ run' = run
    BY <1>2 DEF guestVars, vars
  <2>2. \A at \in Migrations : (run = None \/ at[1] # plan.snapshot)
                                  => (Unsent(at[1]) \/ SentBefore(at[1]))'
    BY <1>1, <2>1 DEF WholeSnapshots
  <2>3. run # None => (Filling \/ SentBefore(plan.snapshot))'
    <3>1. \A m : WasAccepted(m) => WasAccepted(m)'
      BY <2>1 DEF WasAccepted, IsRetry
    <3>2. Filling => Filling'
      BY <2>1, <3>1 DEF Filling, Todo, Position
    <3>3. SentBefore(plan.snapshot) => SentBefore(plan.snapshot)'
      BY <2>1, <3>1 DEF SentBefore, Sent
    <3> QED BY <3>2, <3>3 DEF WholeSnapshots
  <2> QED BY <2>1, <2>2, <2>3 DEF WholeSnapshots
<1>3. CASE ServiceNext
  <2>1. run = None /\ run' = None
    BY <1>3 DEF ServiceNext
  <2>2. ASSUME NEW at \in Migrations
        PROVE  (Unsent(at[1]) \/ SentBefore(at[1]))'
    <3>1. at[1] \in Snapshots /\ at = <<at[1], at[2]>>
      BY MigrationsAssumption
    <3>2. \A i \in DOMAIN Imports[at[1]] : SameMemo(at[1], i)
      BY <1>3, <3>1, ServiceKeepsKeys
    <3>3. Unsent(at[1]) \/ SentBefore(at[1])
      BY <2>1 DEF WholeSnapshots
    <3> QED BY <3>1, <3>2, <3>3, SnapshotStays
  <2> QED BY <2>1, <2>2 DEF WholeSnapshots
<1>4. ASSUME NEW made \in Migrations, MakePlan(made[1], made[2])
      PROVE  WholeSnapshots'
  <2>1. run = None /\ run' = None /\ processed' = processed
    BY <1>4 DEF MakePlan, vars
  <2> QED BY <1>1, <2>1 DEF WholeSnapshots
<1>5. CASE StartRun
  <2>1. /\ run = None /\ plan # None /\ plan' = plan /\ processed' = processed
        /\ run'.results = << >>
    BY <1>5 DEF StartRun, vars
  <2> SUFFICES ASSUME NEW s, s = plan.snapshot PROVE WholeSnapshots'
    OBVIOUS
  <2>2. <<s, plan.user>> \in Migrations /\ s \in Snapshots
    BY <2>1, MigrationsAssumption DEF PlanOK, PlanIsAllowed
  <2>3. Unsent(s) \/ SentBefore(s)
    <3> DEFINE at == <<s, plan.user>>
    <3>1. at \in Migrations /\ at[1] = s
      BY <2>2
    <3> HIDE DEF at
    <3> QED BY <2>1, <3>1 DEF WholeSnapshots
  <2>4. (Unsent(s) \/ SentBefore(s))'
    <3>1. \A i \in DOMAIN Imports[s] : SameMemo(s, i)
      BY <2>1 DEF SameMemo
    <3> QED BY <2>2, <2>3, <3>1, SnapshotStays
  <2>5. Unsent(s)' => Filling'
    <3>1. PICK k \in Nat : DOMAIN Imports[s] = 1..k
      BY <2>2, RunGoesInOrder DEF ImportsInOrder
    <3>2. Todo' = Imports[s] /\ plan'.snapshot = s /\ Position' = 1
      BY <2>1 DEF Todo, Position
    <3>3. \A i \in DOMAIN Imports[s] : ~(i < 1)
      BY <3>1
    <3> QED BY <3>2, <3>3 DEF Filling, Unsent
  <2>6. (Filling \/ SentBefore(plan.snapshot))'
    BY <2>1, <2>4, <2>5
  <2>7. ASSUME NEW at \in Migrations
        PROVE  (Unsent(at[1]) \/ SentBefore(at[1]))'
    BY <1>1, <2>1 DEF WholeSnapshots
  <2> QED BY <2>6, <2>7 DEF WholeSnapshots
<1>6. CASE EndRun
  <2>1. run # None /\ run' = None /\ processed' = processed /\ Position \notin DOMAIN Todo
    BY <1>6 DEF EndRun, IsRunning, vars
  <2> SUFFICES ASSUME NEW s, s = plan.snapshot, NEW u, u = plan.user PROVE WholeSnapshots'
    OBVIOUS
  <2>2. <<s, u>> \in Migrations /\ s \in Snapshots /\ Todo = Imports[s]
    BY <2>1, MigrationsAssumption DEF PlanOK, PlanIsAllowed, Todo
  <2>3. Filling => Sent(s, u)
    <3>1. PICK k \in Nat : DOMAIN Imports[s] = 1..k
      BY <2>2, RunGoesInOrder DEF ImportsInOrder
    <3>2. Len(run.results) \in Nat /\ Position = Len(run.results) + 1
      BY <2>1 DEF PlanOK, Runs, Position
    <3>3. \A i \in DOMAIN Imports[s] : i < Position
      BY <2>1, <2>2, <3>1, <3>2
    <3> QED BY <2>2, <3>3 DEF Filling, Sent
  <2>4. SentBefore(s)
    BY <2>1, <2>2, <2>3 DEF WholeSnapshots, SentBefore
  <2>5. ASSUME NEW at \in Migrations
        PROVE  Unsent(at[1]) \/ SentBefore(at[1])
    BY <2>4 DEF WholeSnapshots
  <2> QED BY <1>1, <2>1, <2>5 DEF WholeSnapshots
<1>7. CASE Import
  BY <1>7, ImportKeepsWhole
<1> QED BY <1>2, <1>3, <1>4, <1>5, <1>6, <1>7 DEF GuestNext

-----------------------------------------------------------------------------
(* The preview tells the truth                                               *)
(*                                                                           *)
(* Of a run on the account its digest describes: what the account held before *)
(* is what the digest says, what was added since is what the run has shown,   *)
(* and a word of which nothing was known has no row but by one of its saves.  *)

Shown ==
  {i \in Accepted("import_review_event") : Todo[i] \notin Listed("duplicate_review_event")}

IdAt(i) == Todo[i].row.answer.eventId

EventsAreShown ==
  /\ \A p \in 1..run.eventsBefore :
       reviewEvents[p].user = plan.user =>
         reviewEvents[p].answer.eventId \in plan.digest.events
  /\ \A id \in plan.digest.events : \E p \in DOMAIN reviewEvents :
       reviewEvents[p].user = plan.user /\ reviewEvents[p].answer.eventId = id
  /\ \A p \in DOMAIN reviewEvents : run.eventsBefore < p =>
       \E i \in Shown : reviewEvents[p].answer.eventId = IdAt(i)
  /\ Len(reviewEvents) = run.eventsBefore + Cardinality(Shown)
  /\ \A i \in Shown :
       reviewEvents[run.eventsBefore + Cardinality(UpTo(Shown, i))].answer.eventId = IdAt(i)

WordsAreShown ==
  /\ \A w \in Words \ plan.digest.savedWords :
       savedWords[<<plan.user, w>>] # None =>
         \E i \in Accepted("import_saved_word") : Todo[i].row.slug = w
  /\ \A i \in Accepted("import_saved_word") :
       Todo[i] \notin Listed("duplicate_saved_word") =>
         savedWords[<<plan.user, Todo[i].row.slug>>].saves = <<Todo[i].row.savedAt>>

LEMMA ListedAreDuplicates ==
  ASSUME PlanOK, run # None
  PROVE  /\ Listed("duplicate_review_event") = DuplicateEvents(plan.snapshot, plan.digest)
         /\ Listed("duplicate_saved_word") =
              {op \in OfKind("import_saved_word", plan.snapshot) :
                 op.row.slug \in plan.digest.savedWords}
<1> DEFINE s == plan.snapshot  digest == plan.digest
<1>1. plan.conflicts = Conflicts(s, digest)
  BY DEF PlanOK
<1>2. ASSUME NEW op
      PROVE  <<"duplicate_review_event", op>> \in Conflicts(s, digest)
               <=> op \in DuplicateEvents(s, digest)
  BY DEF Conflicts, Conflict
<1>3. ASSUME NEW op
      PROVE  <<"duplicate_saved_word", op>> \in Conflicts(s, digest)
               <=> op \in {o \in OfKind("import_saved_word", s) :
                             o.row.slug \in digest.savedWords}
  BY DEF Conflicts, Conflict
<1>4. \A c \in Conflicts(s, digest) : c = <<c[1], c[2]>>
  BY DEF Conflicts, Conflict
<1> HIDE DEF s, digest
<1>5. ASSUME NEW category
      PROVE  \A op : op \in Listed(category) <=> <<category, op>> \in Conflicts(s, digest)
  BY <1>1, <1>4 DEF Listed
<1> QED BY <1>2, <1>3, <1>5 DEF s, digest

\* The operations accepted so far
LEMMA AcceptedAfter ==
  ASSUME PlanOK, Import, NEW kind
  PROVE  Accepted(kind)' =
           IF Todo[Position].kind = kind /\ Result = "accepted"
           THEN Accepted(kind) \cup {Position} ELSE Accepted(kind)
<1>1. /\ run # None /\ Todo' = Todo
      /\ Len(run.results) \in Nat /\ Position = Len(run.results) + 1
      /\ run'.results = Append(run.results, Result)
  BY ImportAdds
<1>2. run.results \in Seq({"accepted", "rejected"})
  BY <1>1 DEF PlanOK, Runs
<1> DEFINE old == run.results  new == run'.results  n == Len(run.results)
<1>3. /\ DOMAIN old = 1..n /\ DOMAIN new = 1..(n + 1)
      /\ \A i \in 1..n : new[i] = old[i]
      /\ new[n + 1] = Result /\ n \in Nat
  BY <1>1, <1>2
<1> HIDE DEF old, new, n
<1>4. DOMAIN new = DOMAIN old \cup {n + 1} /\ n + 1 \notin DOMAIN old
  BY <1>3
<1>5. /\ Accepted(kind) = {i \in DOMAIN old : Todo[i].kind = kind /\ old[i] = "accepted"}
      /\ Accepted(kind)' = {i \in DOMAIN new : Todo[i].kind = kind /\ new[i] = "accepted"}
  BY <1>1 DEF Accepted, old, new
<1>6. Position = n + 1
  BY <1>1 DEF n
<1> QED BY <1>3, <1>4, <1>5, <1>6

LEMMA AcceptedPlaces ==
  ASSUME PlanOK, run # None, NEW kind
  PROVE  /\ Len(run.results) \in Nat /\ Position = Len(run.results) + 1
         /\ Accepted(kind) \in SUBSET (1..Len(run.results))
         /\ \A i \in Accepted(kind) : /\ i \in DOMAIN Todo /\ Todo[i].kind = kind
                                      /\ i \in Nat /\ i < Position
<1>1. run.results \in Seq({"accepted", "rejected"})
  BY DEF PlanOK, Runs
<1>2. Len(run.results) \in Nat /\ DOMAIN run.results = 1..Len(run.results)
  BY <1>1
<1>3. Accepted(kind) \in SUBSET (1..Len(run.results))
  BY <1>2 DEF Accepted
<1>4. \A i \in Accepted(kind) : i \in DOMAIN Todo /\ Todo[i].kind = kind
  BY <1>3 DEF PlanOK, Accepted
<1> HIDE DEF PlanOK
<1> QED BY <1>2, <1>3, <1>4 DEF Position

\* A new key is met only by the first run of its snapshot.
LEMMA NewKeyIsFilling ==
  ASSUME PlanOK, WholeSnapshots, run # None, NEW i \in DOMAIN Todo,
         processed[MigrationKey(plan.snapshot, Todo[i])] = None
  PROVE  Filling
<1> SUFFICES ASSUME SentBefore(plan.snapshot) PROVE FALSE
  BY DEF WholeSnapshots
<1>1. PICK v : <<plan.snapshot, v>> \in Migrations /\ Sent(plan.snapshot, v)
  BY DEF SentBefore
<1>2. i \in DOMAIN Imports[plan.snapshot]
  BY DEF Todo
<1>3. /\ RequestIsSound(plan.snapshot, v, i)
      /\ WasAccepted(Request(plan.snapshot, v, i))
  BY <1>1, <1>2, RequestsAreSound DEF Sent
<1>4. processed[Request(plan.snapshot, v, i).key] # None
  BY <1>3 DEF WasAccepted, IsRetry
<1> QED BY <1>3, <1>4 DEF RequestIsSound, Todo

\* A known event was listed as a duplicate,
LEMMA KnownIsListed ==
  ASSUME PlanOK, run # None, EventsAreShown, Position \in DOMAIN Todo,
         Todo[Position].kind = "import_review_event",
         NEW p \in DOMAIN reviewEvents, p \in Nat, 1 <= p, run.eventsBefore \in Nat,
         reviewEvents[p].user = plan.user,
         reviewEvents[p].answer.eventId = IdAt(Position)
  PROVE  Todo[Position] \in Listed("duplicate_review_event")
<1> DEFINE s == plan.snapshot  k == Position
<1>1. s \in Snapshots /\ ImportsInOrder(s) /\ Todo = Imports[s]
  BY MigrationsAssumption, RunGoesInOrder DEF PlanOK, PlanIsAllowed, Todo
<1>2. \A i \in DOMAIN Todo : Todo[i].kind = "import_review_event" =>
        Todo[i] \in OfKind("import_review_event", s)
  BY <1>1 DEF ImportsInOrder, OfKind
<1>3. CASE p \in 1..run.eventsBefore
  <2>1. IdAt(k) \in plan.digest.events
    BY <1>3 DEF EventsAreShown
  <2> QED BY <1>2, <2>1, ListedAreDuplicates DEF DuplicateEvents, IdAt
<1>4. CASE p \notin 1..run.eventsBefore
  <2>2. run.eventsBefore < p
    BY <1>4
  <2>3. PICK i \in Shown : reviewEvents[p].answer.eventId = IdAt(i)
    BY <2>2 DEF EventsAreShown
  <2>4. /\ i \in DOMAIN Todo /\ Todo[i].kind = "import_review_event" /\ i < k
    BY AcceptedPlaces DEF Shown
  <2>5. Todo[i].of[1] < Todo[k].of[1]
    BY <1>1, <2>4 DEF ImportsInOrder
  <2>6. Todo[i].row.answer.eventId = Todo[k].row.answer.eventId
    BY <2>3 DEF IdAt
  <2> QED BY <1>2, <2>4, <2>5, <2>6, ListedAreDuplicates DEF DuplicateEvents
<1> QED BY <1>3, <1>4

\* What is accepted has its event stored, for the same user.
LEMMA AcceptedIsStored ==
  ASSUME CarriedInv, NEW s, NEW u, <<s, u>> \in Migrations, NEW i \in DOMAIN Imports[s],
         WasAccepted(Request(s, u, i)), Imports[s][i].kind = "import_review_event"
  PROVE  \E p \in DOMAIN reviewEvents :
           /\ reviewEvents[p].user = u
           /\ reviewEvents[p].answer.eventId = Imports[s][i].row.answer.eventId
<1> SUFFICES ASSUME NEW m, m = Request(s, u, i)
             PROVE  \E p \in DOMAIN reviewEvents :
                      /\ reviewEvents[p].user = u
                      /\ reviewEvents[p].answer.eventId = Imports[s][i].row.answer.eventId
  OBVIOUS
<1>1. RequestIsSound(s, u, i)
  BY RequestsAreSound
<1>2. /\ m \in Writes /\ m.user = u /\ m.operation = "submit_review_event"
      /\ m.answer = Imports[s][i].row.answer
  BY <1>1 DEF RequestIsSound
<1>3. StoredEvents(m) # {}
  BY <1>2 DEF CarriedInv, WritesCarried, Carried
<1> QED BY <1>2, <1>3 DEF StoredEvents

\* Numbers are in an order.
LEMMA OneOrTheOther == \A x, y \in Nat : ~(y < x) /\ x # y => x < y
OBVIOUS

\* and an event that the service did not know was not.
LEMMA NewIsNotListed ==
  ASSUME CarriedInv, PlanOK, run # None, EventsAreShown, Filling, Position \in DOMAIN Todo,
         Todo[Position].kind = "import_review_event",
         StoredEvents(Request(plan.snapshot, plan.user, Position)) = {}
  PROVE  Todo[Position] \notin Listed("duplicate_review_event")
<1> SUFFICES ASSUME NEW s, s = plan.snapshot, NEW u, u = plan.user, NEW k, k = Position,
                    NEW m, m = Request(s, u, k),
                    Todo[Position] \in Listed("duplicate_review_event")
             PROVE  FALSE
  OBVIOUS
<1>1. /\ <<s, u>> \in Migrations /\ s \in Snapshots /\ ImportsInOrder(s)
      /\ Todo = Imports[s] /\ k \in DOMAIN Imports[s]
  BY MigrationsAssumption, RunGoesInOrder DEF PlanOK, PlanIsAllowed, Todo
<1>2. RequestIsSound(s, u, k)
  BY <1>1, RequestsAreSound
<1>3. m.user = u /\ m.answer = Todo[k].row.answer
  BY <1>1, <1>2 DEF RequestIsSound
<1>4. ~ \E p \in DOMAIN reviewEvents :
          /\ reviewEvents[p].user = u
          /\ reviewEvents[p].answer.eventId = Todo[k].row.answer.eventId
  BY <1>3 DEF StoredEvents
<1>5. Todo[k].row.answer.eventId \notin plan.digest.events
  BY <1>4 DEF EventsAreShown
<1>6. PICK other \in OfKind("import_review_event", s) :
        /\ other.row.answer.eventId = Todo[k].row.answer.eventId
        /\ other.of[1] < Todo[k].of[1]
  BY <1>5, ListedAreDuplicates DEF DuplicateEvents
<1>7. PICK j \in DOMAIN Todo : Todo[j] = other
  BY <1>1, <1>6 DEF ImportsInOrder
<1>8. /\ Todo[j].kind = "import_review_event"
      /\ Todo[j].row.answer.eventId = Todo[k].row.answer.eventId
      /\ Todo[j].of[1] < Todo[k].of[1]
  BY <1>6, <1>7 DEF OfKind
<1>9. j < k
  <2>1. Todo[j].of[1] \in Nat /\ Todo[k].of[1] \in Nat
    BY <1>1, <1>7, <1>8 DEF ImportsInOrder
  <2>2. PICK n \in Nat : DOMAIN Todo = 1..n
    BY <1>1 DEF ImportsInOrder
  <2>3. j \in Nat /\ k \in Nat
    BY <1>1, <1>7, <2>2
  <2>4. ~(k < j)
    <3> SUFFICES ASSUME k < j PROVE FALSE
      OBVIOUS
    <3>1. Todo[k].of[1] < Todo[j].of[1]
      BY <1>1, <1>7, <1>8, Zenon DEF ImportsInOrder
    <3> QED BY <1>8, <2>1, <3>1
  <2>5. j # k
    BY <1>8, <2>1
  <2> QED BY <2>3, <2>4, <2>5, OneOrTheOther, Zenon
<1>10. WasAccepted(Request(s, u, j))
  BY <1>7, <1>9 DEF Filling
<1>11. \E p \in DOMAIN reviewEvents :
         /\ reviewEvents[p].user = u
         /\ reviewEvents[p].answer.eventId = Imports[s][j].row.answer.eventId
  <2>1. j \in DOMAIN Imports[s] /\ Imports[s][j].kind = "import_review_event"
    BY <1>1, <1>7, <1>8, Zenon
  <2>2. <<s, u>> \in Migrations
    BY <1>1
  <2> QED BY <1>10, <2>1, <2>2, AcceptedIsStored
<1> QED BY <1>1, <1>4, <1>8, <1>11

\* Counting the places up to one of them, and one behind them
LEMMA PlacesCounted ==
  ASSUME NEW n \in Nat, NEW at \in SUBSET (1..n)
  PROVE  /\ Cardinality(at) \in Nat
         /\ Cardinality(at \cup {n + 1}) = Cardinality(at) + 1
         /\ \A i \in at : /\ Cardinality(UpTo(at, i)) \in 1..Cardinality(at)
                          /\ UpTo(at \cup {n + 1}, i) = UpTo(at, i)
         /\ UpTo(at \cup {n + 1}, n + 1) = at \cup {n + 1}
<1>1. IsFiniteSet(at) /\ Cardinality(at) \in Nat
  <2>1. IsFiniteSet(1..n)
    BY FS_Interval
  <2> QED BY <2>1, FS_Subset, FS_CardinalityType
<1>2. n + 1 \notin at /\ \A j \in at : j \in Nat /\ j <= n /\ j <= n + 1 /\ ~(n + 1 <= j)
  OBVIOUS
<1>3. Cardinality(at \cup {n + 1}) = Cardinality(at) + 1
  BY <1>1, <1>2, FS_AddElement
<1>4. ASSUME NEW i \in at
      PROVE  /\ Cardinality(UpTo(at, i)) \in 1..Cardinality(at)
             /\ UpTo(at \cup {n + 1}, i) = UpTo(at, i)
  <2> DEFINE low == UpTo(at, i)
  <2>1. low \in SUBSET at /\ i \in low
    BY <1>2 DEF UpTo
  <2>2. UpTo(at \cup {n + 1}, i) = low
    BY <1>2 DEF UpTo
  <2> HIDE DEF low
  <2>3. IsFiniteSet(low) /\ Cardinality(low) <= Cardinality(at)
    BY <1>1, <2>1, FS_Subset
  <2>4. Cardinality(low) \in Nat /\ Cardinality(low) # 0
    BY <2>1, <2>3, FS_CardinalityType, FS_EmptySet
  <2>5. Cardinality(low) \in 1..Cardinality(at)
    BY <1>1, <2>3, <2>4
  <2> QED BY <2>2, <2>5 DEF low
<1>5. UpTo(at \cup {n + 1}, n + 1) = at \cup {n + 1}
  <2>1. n + 1 <= n + 1
    OBVIOUS
  <2>2. \A j \in at \cup {n + 1} : j <= n + 1
    BY <1>2, <2>1
  <2> QED BY <2>2, Zenon DEF UpTo
<1> QED BY <1>1, <1>3, <1>4, <1>5

\* A new event that is shown goes behind those shown before.
LEMMA ShownGrows ==
  ASSUME TypeOK, PlanOK, run # None, EventsAreShown, NEW n, n = Len(run.results),
         NEW e, reviewEvents' = Append(reviewEvents, e),
         plan' = plan, run'.eventsBefore = run.eventsBefore, Todo' = Todo,
         Shown' = Shown \cup {n + 1}, e.answer.eventId = IdAt(n + 1)
  PROVE  EventsAreShown'
<1> DEFINE b == run.eventsBefore  l == Len(reviewEvents)  c == Cardinality(Shown)
<1>1. n \in Nat /\ Shown \in SUBSET (1..n) /\ b \in Nat
  BY AcceptedPlaces DEF Shown, PlanOK, Runs
<1>2. /\ c \in Nat /\ Cardinality(Shown') = c + 1
      /\ \A i \in Shown : /\ Cardinality(UpTo(Shown, i)) \in 1..c
                          /\ UpTo(Shown', i) = UpTo(Shown, i)
      /\ UpTo(Shown', n + 1) = Shown'
  <2> HIDE DEF Shown
  <2> DEFINE more == Shown \cup {n + 1}
  <2>1. /\ c \in Nat /\ Cardinality(more) = c + 1
        /\ \A i \in Shown : /\ Cardinality(UpTo(Shown, i)) \in 1..c
                            /\ UpTo(more, i) = UpTo(Shown, i)
        /\ UpTo(more, n + 1) = more
    BY <1>1, PlacesCounted, Zenon
  <2>2. Shown' = more
    OBVIOUS
  <2> HIDE DEF more, c
  <2> QED BY <2>1, <2>2, Zenon
<1>3. l = b + c
  BY DEF EventsAreShown
<1>4. /\ l \in Nat /\ DOMAIN reviewEvents = 1..l /\ DOMAIN reviewEvents' = 1..(l + 1)
      /\ Len(reviewEvents') = l + 1
      /\ \A p \in 1..l : reviewEvents'[p] = reviewEvents[p]
      /\ reviewEvents'[l + 1] = e
  BY DEF TypeOK, AccountOK
<1>5. /\ run'.eventsBefore = b /\ plan'.user = plan.user /\ plan'.digest = plan.digest
      /\ \A i : IdAt(i)' = IdAt(i)
  BY DEF IdAt
<1> DEFINE known(p) == reviewEvents[p].answer.eventId
           after(p) == reviewEvents'[p].answer.eventId
<1>6. /\ \A p \in 1..b : reviewEvents[p].user = plan.user => known(p) \in plan.digest.events
      /\ \A id \in plan.digest.events : \E p \in 1..l :
           reviewEvents[p].user = plan.user /\ known(p) = id
      /\ \A p \in 1..l : b < p => \E i \in Shown : known(p) = IdAt(i)
      /\ \A i \in Shown : known(b + Cardinality(UpTo(Shown, i))) = IdAt(i)
  BY <1>4 DEF EventsAreShown
<1>7. after(l + 1) = IdAt(n + 1) /\ \A p \in 1..l : after(p) = known(p)
  BY <1>4
<1> HIDE DEF Shown, known, after, b, l, c, EventsAreShown
<1>8. \A p \in 1..b : reviewEvents'[p].user = plan.user => after(p) \in plan.digest.events
  <2>1. \A p \in 1..b : p \in 1..l
    BY <1>1, <1>2, <1>3, <1>4
  <2> QED BY <1>4, <1>6, <1>7, <2>1
<1>9. \A id \in plan.digest.events : \E p \in 1..(l + 1) :
        reviewEvents'[p].user = plan.user /\ after(p) = id
  <2>1. \A p \in 1..l : p \in 1..(l + 1)
    BY <1>4
  <2> QED BY <1>4, <1>6, <1>7, <2>1
<1>10. \A p \in 1..(l + 1) : b < p => \E i \in Shown' : after(p) = IdAt(i)
  <2>1. \A p \in 1..(l + 1) : p \in 1..l \/ p = l + 1
    BY <1>4
  <2>2. n + 1 \in Shown' /\ \A i \in Shown : i \in Shown'
    OBVIOUS
  <2> QED BY <1>6, <1>7, <2>1, <2>2
<1>11. Len(reviewEvents') = b + Cardinality(Shown')
  BY <1>1, <1>2, <1>3, <1>4
<1>12. ASSUME NEW i \in Shown'
       PROVE  after(b + Cardinality(UpTo(Shown', i))) = IdAt(i)
  <2>1. CASE i \in Shown
    <3>1. b + Cardinality(UpTo(Shown, i)) \in 1..l
      BY <1>1, <1>2, <1>3, <2>1
    <3> QED BY <1>2, <1>6, <1>7, <2>1, <3>1
  <2>2. CASE i = n + 1
    <3>1. UpTo(Shown', i) = Shown'
      BY <1>2, <2>2
    <3>2. b + (c + 1) = l + 1
      BY <1>1, <1>2, <1>3
    <3>3. b + Cardinality(UpTo(Shown', i)) = l + 1
      BY <1>2, <3>1, <3>2
    <3> QED BY <1>7, <2>2, <3>3
  <2> QED BY <2>1, <2>2
<1>13. \A p \in 1..run'.eventsBefore :
         reviewEvents'[p].user = plan'.user =>
           reviewEvents'[p].answer.eventId \in plan'.digest.events
  BY <1>5, <1>8 DEF after
<1>14. \A id \in plan'.digest.events : \E p \in DOMAIN reviewEvents' :
         reviewEvents'[p].user = plan'.user /\ reviewEvents'[p].answer.eventId = id
  BY <1>4, <1>5, <1>9 DEF after
<1>15. \A p \in DOMAIN reviewEvents' : run'.eventsBefore < p =>
         \E i \in Shown' : reviewEvents'[p].answer.eventId = IdAt(i)'
  BY <1>4, <1>5, <1>10 DEF after
<1>16. \A i \in Shown' :
         reviewEvents'[run'.eventsBefore + Cardinality(UpTo(Shown', i))].answer.eventId
           = IdAt(i)'
  BY <1>5, <1>12 DEF after
<1>17. Len(reviewEvents') = run'.eventsBefore + Cardinality(Shown')
  BY <1>5, <1>11
<1> QED BY <1>13, <1>14, <1>15, <1>16, <1>17 DEF EventsAreShown

\* The review events at each operation of a run
LEMMA EventsStayShown ==
  ASSUME CarriedInv, PlanOK, WholeSnapshots, EventsAreShown, Import
  PROVE  EventsAreShown'
<1> SUFFICES ASSUME NEW s, s = plan.snapshot, NEW u, u = plan.user, NEW k, k = Position,
                    NEW m, m = Request(s, u, k), NEW n, n = Len(run.results)
             PROVE  EventsAreShown'
  OBVIOUS
<1>0. TypeOK
  BY DEF CarriedInv, RetryInv
<1>1. /\ <<s, u>> \in Migrations /\ run # None /\ k \in DOMAIN Todo
      /\ RequestIsSound(s, u, k)
      /\ Repeats(m) \/ CarriesOut(m, Todo[k].kind)
  BY <1>0, ImportCases DEF PlanOK, PlanIsAllowed, Import, IsRunning
<1>2. /\ plan' = plan /\ Todo' = Todo /\ run'.eventsBefore = run.eventsBefore
      /\ n \in Nat /\ k = n + 1 /\ \A i : IdAt(i)' = IdAt(i)
  BY ImportAdds DEF IdAt
<1>3. /\ m \in Writes /\ m.user = u /\ m.key = MigrationKey(s, Todo[k])
      /\ Todo[k].kind = "import_review_event" =>
           m.operation = "submit_review_event" /\ m.answer = Todo[k].row.answer
      /\ Todo[k].kind \in ImportKinds
      /\ Todo = Imports[s]
  BY <1>1 DEF RequestIsSound, Todo
<1> DEFINE isNew == /\ Todo[k].kind = "import_review_event" /\ Result = "accepted"
                    /\ Todo[k] \notin Listed("duplicate_review_event")
<1>4. /\ isNew => Shown' = Shown \cup {k}
      /\ ~isNew => Shown' = Shown
  <2>1. Accepted("import_review_event")' =
          IF Todo[k].kind = "import_review_event" /\ Result = "accepted"
          THEN Accepted("import_review_event") \cup {k} ELSE Accepted("import_review_event")
    BY AcceptedAfter
  <2>2. Listed("duplicate_review_event")' = Listed("duplicate_review_event")
    BY <1>2 DEF Listed
  <2> QED BY <1>2, <2>1, <2>2 DEF Shown
<1>5. ASSUME StoredEvents(m) # {}, Todo[k].kind = "import_review_event"
      PROVE  ~isNew
  <2>1. PICK p \in DOMAIN reviewEvents :
          /\ reviewEvents[p].user = plan.user
          /\ reviewEvents[p].answer.eventId = IdAt(Position)
    BY <1>3, <1>5 DEF StoredEvents, IdAt
  <2>2. p \in Nat /\ 1 <= p /\ run.eventsBefore \in Nat
    BY <1>0, <1>1 DEF TypeOK, AccountOK, PlanOK, Runs
  <2> QED BY <1>1, <1>5, <2>1, <2>2, KnownIsListed
<1>6. ASSUME Todo[k].kind = "import_review_event", AcceptEvent(m), CarriesOut(m, Todo[k].kind)
      PROVE  isNew
  <2>1. processed[m.key] = None /\ Result = "accepted"
    BY <1>6 DEF CarriesOut, Result
  <2>2. Filling
    BY <1>1, <1>3, <2>1, NewKeyIsFilling
  <2>3. StoredEvents(m) = {}
    BY <1>6 DEF AcceptEvent
  <2> QED BY <1>1, <1>6, <2>1, <2>2, <2>3, NewIsNotListed
<1> HIDE DEF isNew
<1>7. ASSUME Shown' = Shown, reviewEvents' = reviewEvents
      PROVE  EventsAreShown'
  BY <1>2, <1>7 DEF EventsAreShown
<1>8. ASSUME Repeats(m)
      PROVE  EventsAreShown'
  <2>1. reviewEvents' = reviewEvents
    BY <1>8 DEF Repeats, account
  <2>2. ASSUME isNew PROVE FALSE
    <3>1. Todo[k].kind = "import_review_event" /\ Result = "accepted"
      BY <2>2 DEF isNew
    <3>2. WasAccepted(m)
      BY <1>8, <3>1 DEF Repeats, Result
    <3>3. StoredEvents(m) # {}
      BY <1>3, <3>1, <3>2 DEF CarriedInv, WritesCarried, Carried
    <3> QED BY <1>5, <2>2, <3>1, <3>3
  <2> QED BY <1>4, <1>7, <2>1, <2>2
<1>9. ASSUME CarriesOut(m, Todo[k].kind), Todo[k].kind = "import_saved_word"
      PROVE  EventsAreShown'
  <2>1. reviewEvents' = reviewEvents
    BY <1>9 DEF CarriesOut, SaveWord
  <2>2. ~isNew
    BY <1>9 DEF isNew
  <2> QED BY <1>4, <1>7, <2>1, <2>2
<1>10. ASSUME CarriesOut(m, Todo[k].kind), Todo[k].kind = "import_review_event"
       PROVE  EventsAreShown'
  <2>1. CASE StoredEvents(m) # {} /\ UNCHANGED account
    <3>1. reviewEvents' = reviewEvents /\ ~isNew
      BY <1>5, <1>10, <2>1 DEF account
    <3> QED BY <1>4, <1>7, <3>1
  <2>2. CASE AcceptEvent(m)
    <3> DEFINE e == [user |-> m.user, key |-> m.key, answer |-> m.answer, pack |-> m.pack]
    <3>1. isNew
      BY <1>6, <1>10, <2>2
    <3>2. Shown' = Shown \cup {n + 1}
      BY <1>2, <1>4, <3>1
    <3>3. reviewEvents' = Append(reviewEvents, e)
      BY <2>2 DEF AcceptEvent
    <3>4. e.answer.eventId = IdAt(n + 1)
      BY <1>2, <1>3, <1>10 DEF IdAt
    <3> HIDE DEF e
    <3> QED BY <1>0, <1>1, <1>2, <3>2, <3>3, <3>4, ShownGrows
  <2> QED BY <1>10, <2>1, <2>2 DEF CarriesOut
<1> QED BY <1>1, <1>3, <1>8, <1>9, <1>10 DEF ImportKinds

\* And the saved words. A word is saved once in a run, so its row is still the one
\* that save made.
LEMMA WordsStayShown ==
  ASSUME CarriedInv, PlanOK, WordsAreShown, Import
  PROVE  WordsAreShown'
<1> SUFFICES ASSUME NEW s, s = plan.snapshot, NEW u, u = plan.user, NEW k, k = Position,
                    NEW m, m = Request(s, u, k)
             PROVE  WordsAreShown'
  OBVIOUS
<1>0. TypeOK
  BY DEF CarriedInv, RetryInv
<1>1. /\ <<s, u>> \in Migrations /\ run # None /\ k \in DOMAIN Todo
      /\ RequestIsSound(s, u, k)
      /\ Repeats(m) \/ CarriesOut(m, Todo[k].kind)
      /\ ImportsInOrder(s) /\ s \in Snapshots
  BY <1>0, ImportCases, RunGoesInOrder, MigrationsAssumption
     DEF PlanOK, PlanIsAllowed, Import, IsRunning
<1>2. plan' = plan /\ Todo' = Todo /\ Todo = Imports[s]
  BY ImportAdds DEF Todo
<1>3. /\ m \in Writes /\ m.user = u /\ u \in Users
      /\ Todo[k].kind \in ImportKinds
      /\ Todo[k].kind = "import_saved_word" =>
           /\ m.operation = "save_word" /\ m.slug = Todo[k].row.slug
           /\ m.savedAt = Todo[k].row.savedAt /\ m.slug \in Words
  BY <1>1, <1>2 DEF RequestIsSound
<1> DEFINE acc == Accepted("import_saved_word")
           w == Todo[k].row.slug
           row(x) == savedWords[<<u, x>>]
           new(x) == savedWords'[<<u, x>>]
           saved == Todo[k].kind = "import_saved_word" /\ Result = "accepted"
<1>4. acc' = IF saved THEN acc \cup {k} ELSE acc
  BY AcceptedAfter
<1>5. /\ Listed("duplicate_saved_word")' = Listed("duplicate_saved_word")
      /\ \A op \in OfKind("import_saved_word", s) :
           op.row.slug \in plan.digest.savedWords => op \in Listed("duplicate_saved_word")
  BY <1>1, <1>2, ListedAreDuplicates DEF Listed
<1>6. \A i \in acc : /\ i \in DOMAIN Todo /\ Todo[i].kind = "import_saved_word"
                     /\ i \in Nat /\ i < k
  BY <1>1, AcceptedPlaces
<1>7. ASSUME NEW i \in acc, Todo[k].kind = "import_saved_word"
      PROVE  Todo[i].row.slug # w
  <2>1. i \in Nat /\ i # k
    BY <1>6
  <2> QED BY <1>1, <1>2, <1>6, <1>7, <2>1 DEF ImportsInOrder
<1>8. /\ \A x \in Words \ plan.digest.savedWords :
           row(x) # None => \E i \in acc : Todo[i].row.slug = x
      /\ \A i \in acc : Todo[i] \notin Listed("duplicate_saved_word") =>
           row(Todo[i].row.slug).saves = <<Todo[i].row.savedAt>>
  BY DEF WordsAreShown
<1>9. ASSUME NEW i \in acc
      PROVE  Todo[i].row.slug \in Words
  <2>1. RequestIsSound(s, u, i)
    BY <1>1, <1>2, <1>6, RequestsAreSound
  <2> QED BY <1>2, <1>6, <2>1 DEF RequestIsSound

\* A word of which nothing was known had no row before its save.
<1>10. ASSUME saved, Todo[k] \notin Listed("duplicate_saved_word")
       PROVE  row(w) = None /\ w \in Words \ plan.digest.savedWords
  <2>1. Todo[k] \in OfKind("import_saved_word", s)
    BY <1>1, <1>2, <1>10 DEF ImportsInOrder, OfKind
  <2>2. w \in Words \ plan.digest.savedWords
    BY <1>3, <1>5, <1>10, <2>1
  <2> QED BY <1>7, <1>8, <1>10, <2>2
<1>11. ASSUME ~saved \/ Repeats(m)
       PROVE  savedWords' = savedWords
  <2>1. CASE Repeats(m)
    BY <2>1 DEF Repeats, account
  <2>2. ASSUME CarriesOut(m, Todo[k].kind), Todo[k].kind = "import_review_event"
        PROVE  savedWords' = savedWords
    BY <2>2 DEF CarriesOut, AcceptEvent, account
  <2>3. ASSUME CarriesOut(m, Todo[k].kind), Todo[k].kind = "import_saved_word"
        PROVE  saved
    BY <2>3 DEF CarriesOut, Result
  <2> QED BY <1>1, <1>3, <1>11, <2>1, <2>2, <2>3 DEF ImportKinds
<1>12. ASSUME saved, Repeats(m)
       PROVE  row(w) # None
  <2>1. WasAccepted(m)
    BY <1>12 DEF Repeats, Result
  <2> QED BY <1>3, <1>12, <2>1 DEF CarriedInv, WritesCarried, Carried
<1>13. ASSUME saved, CarriesOut(m, Todo[k].kind)
       PROVE  /\ \A x \in Words : x # w => new(x) = row(x)
              /\ row(w) = None => new(w).saves = <<Todo[k].row.savedAt>>
  <2> DEFINE at == <<u, w>>
  <2>1. /\ savedWords' = IF IsActive(at) THEN savedWords
                         ELSE [savedWords EXCEPT ![at] = SavedRow(savedWords[at], m)]
        /\ at \in Users \X Words
    BY <1>3, <1>13 DEF CarriesOut, SaveWord
  <2>2. savedWords \in [Users \X Words -> Rows \cup {None}]
    BY <1>0 DEF TypeOK, AccountOK
  <2>3. \A x \in Words : x # w => new(x) = row(x)
    <3>1. \A x \in Words : x # w => <<u, x>> # at /\ <<u, x>> \in Users \X Words
      BY <1>3
    <3> HIDE DEF at
    <3> QED BY <2>1, <2>2, <3>1
  <2>4. ASSUME row(w) = None PROVE new(w).saves = <<Todo[k].row.savedAt>>
    <3>1. savedWords'[at] = SavedRow(None, m)
      BY <2>1, <2>2, <2>4 DEF IsActive
    <3>2. SavedRow(None, m).saves = <<m.savedAt>>
      BY DEF SavedRow
    <3> QED BY <1>3, <1>13, <3>1, <3>2
  <2> QED BY <2>3, <2>4
<1>14. /\ \A x \in Words \ plan.digest.savedWords :
            new(x) # None => \E i \in acc' : Todo[i].row.slug = x
       /\ \A i \in acc' : Todo[i] \notin Listed("duplicate_saved_word") =>
            new(Todo[i].row.slug).saves = <<Todo[i].row.savedAt>>
  <2>1. CASE ~saved
    <3>1. acc' = acc /\ savedWords' = savedWords
      BY <1>4, <1>11, <2>1
    <3> HIDE DEF acc, saved, w
    <3> QED BY <1>8, <3>1
  <2>2. CASE saved /\ Repeats(m)
    <3>1. acc' = acc \cup {k} /\ savedWords' = savedWords
      BY <1>4, <1>11, <2>2
    <3>2. Todo[k] \in Listed("duplicate_saved_word")
      BY <1>10, <1>12, <2>2
    <3> HIDE DEF acc, saved, w
    <3> QED BY <1>8, <3>1, <3>2
  <2>3. CASE saved /\ CarriesOut(m, Todo[k].kind)
    <3>1. acc' = acc \cup {k}
      BY <1>4, <2>3
    <3>2. /\ \A x \in Words : x # w => new(x) = row(x)
          /\ Todo[k] \notin Listed("duplicate_saved_word") =>
               new(w).saves = <<Todo[k].row.savedAt>>
      BY <1>10, <1>13, <2>3
    <3>3. \A i \in acc : /\ Todo[i].row.slug \in Words /\ Todo[i].row.slug # w
      BY <1>7, <1>9, <2>3
    <3> HIDE DEF acc, saved, w, row, new
    <3>4. \A x \in Words \ plan.digest.savedWords :
            new(x) # None => \E i \in acc' : Todo[i].row.slug = x
      <4>1. Todo[k].row.slug = w
        BY DEF w
      <4> QED BY <1>8, <3>1, <3>2, <4>1
    <3>5. \A i \in acc' : Todo[i] \notin Listed("duplicate_saved_word") =>
            new(Todo[i].row.slug).saves = <<Todo[i].row.savedAt>>
      <4>1. Todo[k].row.slug = w
        BY DEF w
      <4>2. \A i \in acc : new(Todo[i].row.slug) = row(Todo[i].row.slug)
        BY <3>2, <3>3
      <4> QED BY <1>8, <3>1, <3>2, <4>1, <4>2
    <3> QED BY <3>4, <3>5
  <2> QED BY <1>1, <2>1, <2>2, <2>3
<1> QED BY <1>2, <1>5, <1>14 DEF WordsAreShown

\* The invariant: what was answered with ok is there, no snapshot is half sent but
\* by the run at hand, and what that run has added is what its plan has shown.
TruthOK == (run # None /\ run.unmoved) => EventsAreShown /\ WordsAreShown

GuestInv == CarriedInv /\ PlanOK /\ WholeSnapshots /\ TruthOK

LEMMA RunStartsTrue ==
  ASSUME TypeOK, PlanOK, StartRun
  PROVE  TruthOK'
<1> DEFINE u == plan.user
<1>1. /\ run' = [results |-> << >>, eventsBefore |-> Len(reviewEvents),
                 unmoved |-> plan.digest = DigestOf(plan.user)]
      /\ plan' = plan /\ reviewEvents' = reviewEvents /\ savedWords' = savedWords
  BY DEF StartRun, vars, account
<1>2. /\ run'.results = << >> /\ run'.eventsBefore = Len(reviewEvents)
      /\ run'.unmoved => plan.digest = DigestOf(u)
  BY <1>1
<1>3. \A kind : Accepted(kind)' = {}
  BY <1>2 DEF Accepted
<1>4. Shown' = {} /\ Cardinality({}) = 0
  BY <1>3, FS_EmptySet DEF Shown
<1>5. Len(reviewEvents) \in Nat /\ DOMAIN reviewEvents = 1..Len(reviewEvents)
  BY DEF TypeOK, AccountOK
<1>6. ASSUME plan.digest = DigestOf(u)
      PROVE  EventsAreShown'
  <2>1. \A id : id \in plan.digest.events <=>
          \E p \in DOMAIN reviewEvents :
            reviewEvents[p].user = u /\ reviewEvents[p].answer.eventId = id
    BY <1>6 DEF DigestOf, Range
  <2>2. \A p \in DOMAIN reviewEvents : ~(Len(reviewEvents) < p)
    BY <1>5
  <2>3. Len(reviewEvents) = Len(reviewEvents) + 0
    BY <1>5
  <2> QED BY <1>1, <1>2, <1>4, <1>5, <2>1, <2>2, <2>3 DEF EventsAreShown
<1>7. ASSUME plan.digest = DigestOf(u)
      PROVE  WordsAreShown'
  <2>1. \A w \in Words \ plan.digest.savedWords : savedWords[<<u, w>>] = None
    BY <1>7 DEF DigestOf
  <2> QED BY <1>1, <1>3, <2>1 DEF WordsAreShown
<1> QED BY <1>2, <1>6, <1>7 DEF TruthOK

LEMMA GuestInvStep == GuestInv /\ [GuestNext]_guestVars => GuestInv'
<1> SUFFICES ASSUME GuestInv, [GuestNext]_guestVars
             PROVE  GuestInv'
  OBVIOUS
<1>1. CarriedInv /\ TypeOK /\ PlanOK /\ WholeSnapshots /\ TruthOK /\ PlanIsAllowed
  BY DEF GuestInv, CarriedInv, RetryInv, PlanOK
<1>2. CarriedInv'
  BY <1>1, GuestStepIsServiceStep, CarriedStep
<1>3. PlanOK' /\ WholeSnapshots'
  BY <1>1, PlanStep, WholeStep
<1>4. TruthOK'
  <2>1. CASE UNCHANGED guestVars
    <3>1. UNCHANGED <<plan, run, reviewEvents, savedWords>>
      BY <2>1 DEF guestVars, vars, account
    <3>2. /\ Todo' = Todo /\ \A i : IdAt(i)' = IdAt(i)
          /\ \A kind : Accepted(kind)' = Accepted(kind)
          /\ \A category : Listed(category)' = Listed(category)
      BY <3>1 DEF Todo, IdAt, Accepted, Listed
    <3>3. Shown' = Shown
      BY <3>2 DEF Shown
    <3>4. EventsAreShown => EventsAreShown'
      BY <3>1, <3>2, <3>3 DEF EventsAreShown
    <3>5. WordsAreShown => WordsAreShown'
      BY <3>1, <3>2 DEF WordsAreShown
    <3> QED BY <1>1, <3>1, <3>4, <3>5 DEF TruthOK
  <2>2. CASE ServiceNext \/ EndRun \/ \E at \in Migrations : MakePlan(at[1], at[2])
    <3>1. run' = None
      BY <2>2 DEF ServiceNext, EndRun, MakePlan
    <3> QED BY <3>1 DEF TruthOK
  <2>3. CASE StartRun
    BY <1>1, <2>3, RunStartsTrue
  <2>4. CASE Import
    <3>1. run # None /\ run'.unmoved = run.unmoved
      BY <1>1, <2>4, ImportAdds
    <3>2. ASSUME run.unmoved PROVE EventsAreShown' /\ WordsAreShown'
      BY <1>1, <2>4, <3>1, <3>2, EventsStayShown, WordsStayShown DEF TruthOK
    <3> QED BY <3>1, <3>2 DEF TruthOK
  <2> QED BY <2>1, <2>2, <2>3, <2>4 DEF GuestNext
<1> QED BY <1>2, <1>3, <1>4 DEF GuestInv

LEMMA GuestInvInit == GuestInit => GuestInv
<1> SUFFICES ASSUME GuestInit PROVE GuestInv
  OBVIOUS
<1>1. Init /\ plan = None /\ run = None
  BY DEF GuestInit
<1>2. CarriedInv
  BY <1>1, CarriedInit
<1>3. PlanOK /\ TruthOK
  BY <1>1 DEF PlanOK, PlanIsAllowed, TruthOK
<1>4. ASSUME NEW at \in Migrations PROVE Unsent(at[1])
  <2>1. at = <<at[1], at[2]>>
    BY MigrationsAssumption
  <2>2. ASSUME NEW i \in DOMAIN Imports[at[1]]
        PROVE  processed[MigrationKey(at[1], Imports[at[1]][i])] = None
    <3>1. RequestIsSound(at[1], at[2], i)
      BY <2>1, RequestsAreSound
    <3>2. MigrationKey(at[1], Imports[at[1]][i]) \in Keys
      BY <3>1 DEF RequestIsSound
    <3> QED BY <1>1, <3>2 DEF Init
  <2> QED BY <2>2 DEF Unsent
<1>5. WholeSnapshots
  BY <1>1, <1>4 DEF WholeSnapshots
<1> QED BY <1>2, <1>3, <1>5 DEF GuestInv

\* A run on the account that its plan was made for adds the review events that the
\* preview lists without a conflict, in their order, and nothing else; and it starts
\* the words listed without one.  (createGuestToAccountMigrationPlan,
\* classifyMigrationConflict, runGuestToAccountMigrationPlan)
THEOREM PreviewTellsTheTruth == GuestSpec => []PreviewIsTrue
<1>1. GuestInv => PreviewIsTrue
  <2> SUFFICES ASSUME GuestInv, run # None, run.unmoved
               PROVE  PreviewIsTrue
    BY DEF PreviewIsTrue
  <2>1. EventsAreShown /\ WordsAreShown
    BY DEF GuestInv, TruthOK
  <2>2. /\ Len(reviewEvents) = run.eventsBefore + Cardinality(Shown)
        /\ \A i \in Shown :
             reviewEvents[run.eventsBefore + Cardinality({j \in Shown : j <= i})].answer.eventId
               = Todo[i].row.answer.eventId
    BY <2>1 DEF EventsAreShown, UpTo, IdAt
  <2> QED BY <2>1, <2>2 DEF PreviewIsTrue, Shown, WordsAreShown
<1> QED BY <1>1, GuestInvInit, GuestInvStep, PTL DEF GuestSpec
=============================================================================
