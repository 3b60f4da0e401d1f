---------------------------- MODULE ServerAdapter ----------------------------
(***************************************************************************)
(* src/src/lib/account-persistence/server-adapter/in-memory-adapter.ts: the *)
(* operations of the server persistence adapter, as functions from an       *)
(* account and a request to the answer and the account that follows.  The   *)
(* adapter keeps an account under its id and never reads another, so one    *)
(* account stands for the store; an account nobody wrote to is the empty    *)
(* one (its digest and its loaded state are the same).                      *)
(*                                                                          *)
(* An account holds its events in the order it accepted them.  Audit        *)
(* records are counted: nothing reads them back but their number.           *)
(***************************************************************************)
EXTENDS SrsEngine, Sequences, FiniteSets, SequencesExt

CONSTANTS
  Slugs,     \* the words, in the order of their slugs
  PackIds,   \* the packs, in the order of their ids
  Dates,     \* the days events are created on
  None       \* an absent row, key or pack

Words == Range(Slugs)
Packs == Range(PackIds)

\* createInMemoryServerPersistenceAccountState
EmptyAccount ==
  [savedWords |-> [w \in Words |-> None], reviewState |-> [w \in Words |-> None],
   reviewEvents |-> << >>, dailyStats |-> [d \in Dates |-> None],
   packProgress |-> [p \in Packs |-> None], upgradeInterest |-> << >>,
   audits |-> 0, processed |-> << >>, syncVersion |-> 0]

\* An answer: data is the review state the answer carries
Answer(account, status, reason, data) ==
  [account |-> account, status |-> status, reason |-> reason, data |-> data]

\* errorResult of a single write: the account is left alone
Reject(account, reason) == Answer(account, "rejected", reason, None)

IsOk(answer) == answer.status \notin {"rejected", "blocked"}

\* rememberIdempotencyKey
Remember(account, key, fingerprint, reason) ==
  [account EXCEPT !.processed =
     [k \in DOMAIN @ \cup {key} |->
        IF k = key THEN [fingerprint |-> fingerprint, reason |-> reason]
        ELSE @[k]]]

\* advanceAccount
Advance(account) == [account EXCEPT !.syncVersion = @ + 1]

\* getProcessedIdempotencyResult: the answer is made again from today's data
AnswerProcessed(account, key, fingerprint, duplicate, data) ==
  LET memo == account.processed[key] IN
  IF memo.fingerprint # fingerprint
  THEN Reject(account, "idempotency_payload_conflict")
  ELSE Answer(account, "duplicate_noop",
              IF memo.reason = "accepted" THEN duplicate ELSE memo.reason, data)

OrNew(item, createdAt) == IF item = None THEN NewItem(createdAt) ELSE item

\* createSavedWordFingerprint and createReviewEventFingerprint: the kind of the
\* write and its payload without its key
WordFingerprint(word) == [kind |-> "record_saved_word", payload |-> word]
EventFingerprint(event) ==
  [kind |-> "record_review_event", payload |-> [event EXCEPT !.key = None]]

-----------------------------------------------------------------------------
(* recordSavedWord *)

SaveNewWord(account, word, key, item) ==
  Remember(Advance([account EXCEPT !.savedWords[word.slug] = word,
                                   !.reviewState[word.slug] = item]),
           key, WordFingerprint(word), "accepted")

RecordSavedWord(account, word, key) ==
  LET item == OrNew(account.reviewState[word.slug], word.savedAt) IN
  CASE key = None -> Reject(account, "idempotency_key_required")
    [] key # None /\ ~word.valid -> Reject(account, "invalid_payload")
    [] key # None /\ word.valid /\ key \in DOMAIN account.processed ->
         AnswerProcessed(account, key, WordFingerprint(word),
                         "duplicate_saved_word", item)
    [] OTHER ->
         IF account.savedWords[word.slug] # None
         THEN Answer(Remember(account, key, WordFingerprint(word),
                              "duplicate_saved_word"),
                     "duplicate_noop", "duplicate_saved_word", item)
         ELSE Answer(SaveNewWord(account, word, key, item),
                     "accepted", "accepted", item)

-----------------------------------------------------------------------------
(* recordReviewEvent *)

\* The event the engine returns: boxes and scores are the account's own
StoredEvent(event, key, item, next) ==
  [event EXCEPT !.key = key, !.boxBefore = item.box, !.boxAfter = next.box,
                !.weakScoreBefore = item.weakScore,
                !.weakScoreAfter = next.weakScore]

\* upsertPackProgressFromEvent
PackAfter(row, event) ==
  LET old == IF row = None THEN [reviewed |-> 0, correct |-> 0, from |-> << >>]
             ELSE row IN
  IF event.eventId \in Range(old.from) THEN row
  ELSE [reviewed |-> old.reviewed + 1,
        correct |-> old.correct + One(event.result = "correct"),
        from |-> Append(old.from, event.eventId)]

\* The day's row: every event counts as a session of its own (countSession)
StatsAfter(row, item, next, event) ==
  [stats |-> DailyStatsAfter(IF row = None THEN EmptyDailyStats ELSE row.stats,
                             item, next, event, TRUE),
   from |-> IF row = None THEN <<event.eventId>>
            ELSE Append(row.from, event.eventId)]

\* mutant of AcceptEvent: the pack is left to a later recomputation
AcceptEventNoPack(account, event, key) ==
  LET item == OrNew(account.reviewState[event.slug], event.createdAt)
      next == ItemAfter(item, event) IN
  Remember(Advance([account EXCEPT
     !.reviewEvents = Append(@, StoredEvent(event, key, item, next)),
     !.reviewState[event.slug] = next,
     !.dailyStats[DateOf(event.createdAt)] = StatsAfter(@, item, next, event)]),
     key, EventFingerprint(event), "accepted")

AcceptEvent(account, event, key) ==
  LET item  == OrNew(account.reviewState[event.slug], event.createdAt)
      next  == ItemAfter(item, event)
      packs == IF event.pack = None THEN account.packProgress
               ELSE [account.packProgress EXCEPT ![event.pack] = PackAfter(@, event)] IN
  Remember(Advance([account EXCEPT
     !.reviewEvents = Append(@, StoredEvent(event, key, item, next)),
     !.reviewState[event.slug] = next,
     !.dailyStats[DateOf(event.createdAt)] = StatsAfter(@, item, next, event),
     !.packProgress = packs]),
     key, EventFingerprint(event), "accepted")

IsKnownEvent(account, event) ==
  \E e \in Range(account.reviewEvents) : e.eventId = event.eventId

RecordReviewEvent(account, event, key) ==
  LET item == OrNew(account.reviewState[event.slug], event.createdAt) IN
  CASE key = None -> Reject(account, "idempotency_key_required")
    [] key # None /\ ~event.valid -> Reject(account, "invalid_payload")
    [] key # None /\ event.valid /\ key \in DOMAIN account.processed ->
         AnswerProcessed(account, key, EventFingerprint(event),
                         "duplicate_review_event", item)
    [] OTHER ->
         IF IsKnownEvent(account, event)
         THEN Answer(Remember(account, key, EventFingerprint(event),
                              "duplicate_review_event"),
                     "duplicate_noop", "duplicate_review_event", item)
         ELSE Answer(AcceptEvent(account, event, key), "accepted", "accepted",
                     ItemAfter(item, event))

-----------------------------------------------------------------------------
(* recordUpgradeInterestAttribution and recordSyncAudit take no key *)

\* mutant of RecordUpgradeInterest: the interest is not looked up
RecordUpgradeInterestAgain(account, interest) ==
  IF ~interest.valid THEN Reject(account, "invalid_payload")
  ELSE Answer(Advance([account EXCEPT !.upgradeInterest = Append(@, interest.id)]),
              "accepted", "accepted", None)

RecordUpgradeInterest(account, interest) ==
  IF ~interest.valid THEN Reject(account, "invalid_payload")
  ELSE IF interest.id \in Range(account.upgradeInterest)
  THEN Answer(account, "duplicate_noop", "audit_only", None)
  ELSE Answer(Advance([account EXCEPT !.upgradeInterest = Append(@, interest.id)]),
              "accepted", "accepted", None)

RecordSyncAudit(account) ==
  Answer(Advance([account EXCEPT !.audits = @ + 1]), "audit_only", "audit_only",
         None)

-----------------------------------------------------------------------------
(* Resolution plans *)

\* hasAcceptedResolution: no list of accepted ids accepts all
IsAccepted(accepted, r) == accepted = None \/ r.id \in accepted

\* getResolutionStatus
StatusOf(r) ==
  CASE r.action = "reject_blocked" -> "blocked"
    [] r.action \in {"skip_audit_only", "keep_server"} -> "audit_only"
    [] r.action = "no_op_duplicate" -> "duplicate_noop"
    [] OTHER -> "accepted"

\* createPreview
CanApply(plan, accepted) ==
  /\ plan.status # "blocked"
  /\ \A r \in Range(plan.resolutions) :
       IsAccepted(accepted, r) => StatusOf(r) # "blocked"

\* findSnapshotReviewEvent: the first event of the snapshot with the eventId
SnapshotEvent(snapshot, r) ==
  LET at == {i \in DOMAIN snapshot.reviewEvents :
               snapshot.reviewEvents[i].eventId = r.of} IN
  snapshot.reviewEvents[CHOOSE i \in at : \A j \in at : i <= j]

\* The key of a merged event: the resolution carries the event's own key
MergeKey(r, event) == IF event.key # None THEN event.key ELSE r.id

\* applyResolutionToState.  A resolution names an entry of the snapshot the
\* plan was made from, so its evidence is always found.
ApplyResolution(account, snapshot, r) ==
  CASE StatusOf(r) = "blocked" -> Answer(account, "blocked", "blocked_plan", None)
    [] StatusOf(r) \in {"audit_only", "duplicate_noop"} ->
         [RecordSyncAudit(account) EXCEPT !.status = StatusOf(r)]
    [] r.action = "import_to_server" ->
         RecordSavedWord(account, snapshot.savedWords[r.of], r.id)
    [] r.action = "merge_event_evidence" ->
         LET event == SnapshotEvent(snapshot, r) IN
         RecordReviewEvent(account, event, MergeKey(r, event))
    [] r.action = "attribution_only" ->
         RecordUpgradeInterest(account, CHOOSE i \in Range(snapshot.upgradeInterest) :
                                          i.id = r.of)
    [] r.action = "recompute_from_events" -> RecordSyncAudit(account)
    [] OTHER -> Reject(account, "unsupported_resolution")

\* One round of applyAccountSyncResolutionPlan's loop, which a refused write ends
ApplyNext(snapshot, accepted, done, r) ==
  IF done.refused \/ ~IsAccepted(accepted, r) THEN done
  ELSE LET answer == ApplyResolution(done.account, snapshot, r) IN
       [account |-> answer.account, refused |-> ~IsOk(answer),
        applied |-> IF answer.status = "accepted" THEN Append(done.applied, r)
                    ELSE done.applied]

\* applyAccountSyncResolutionPlan's loop over the resolutions, its rounds numbered
Rounds(account, resolutions, snapshot, accepted) ==
  LET done[n \in 0..Len(resolutions)] ==
        IF n = 0 THEN [account |-> account, refused |-> FALSE, applied |-> << >>]
        ELSE ApplyNext(snapshot, accepted, done[n - 1], resolutions[n])
  IN done[Len(resolutions)]

\* mutant of ApplyPlan: what was written before the refused write is kept
ApplyPlanInPlace(account, plan, snapshot, accepted) ==
  LET done == Rounds(account, plan.resolutions, snapshot, accepted) IN
  [status |-> IF ~CanApply(plan, accepted) THEN "blocked"
              ELSE IF done.refused THEN "rejected" ELSE "accepted",
   account |-> IF CanApply(plan, accepted) THEN done.account ELSE account,
   applied |-> done.applied]

\* The copy the loop has worked on replaces the account only when no write was
\* refused
Committed(account, done) ==
  IF done.refused
  THEN [status |-> "rejected", account |-> account, applied |-> << >>]
  ELSE [status |-> "accepted", account |-> done.account, applied |-> done.applied]

\* applyAccountSyncResolutionPlan
ApplyPlan(account, plan, snapshot, accepted) ==
  IF ~CanApply(plan, accepted)
  THEN [status |-> "blocked", account |-> account, applied |-> << >>]
  ELSE Committed(account, Rounds(account, plan.resolutions, snapshot, accepted))

\* createDigest
Digest(account) ==
  [words |-> {w \in Words : account.savedWords[w] # None},
   states |-> {w \in Words : account.reviewState[w] # None},
   events |-> [i \in DOMAIN account.reviewEvents |-> account.reviewEvents[i].eventId],
   dates |-> {d \in Dates : account.dailyStats[d] # None},
   packs |-> {p \in Packs : account.packProgress[p] # None},
   interest |-> account.upgradeInterest, cursor |-> account.syncVersion]
==============================================================================
