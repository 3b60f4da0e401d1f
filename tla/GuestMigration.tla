---------------------------- MODULE GuestMigration ----------------------------
(***************************************************************************)
(* src/src/lib/account-persistence/migration-prototype: the learning a      *)
(* guest left in a browser moves into the account they signed in to.        *)
(*                                                                          *)
(* A plan is made from a snapshot of the browser's stores and a digest of   *)
(* the account, and shown to the learner with its conflicts.  Its run sends *)
(* the plan's operations, one by one, to the service of ServerSrsSync.      *)
(* Between the plan and the run, and between two runs of one plan, devices  *)
(* write to the account; a plan and a run are each one synchronous call,    *)
(* with nothing in between their steps.                                     *)
(*                                                                          *)
(* Of a stored row, only what the plan or the service tells apart is kept:  *)
(* whether its shape is valid, its word, its event.  Daily statistics, pack *)
(* progress and upgrade interest are planned and then skipped.              *)
(***************************************************************************)
EXTENDS ServerSrsSync

CONSTANTS
  Snapshots,   \* of guests' browsers: the rows of each store, in the order of
               \* their keys
  Migrations,  \* which snapshot may move into whose account
  AccountInterest \* [Users -> SUBSET ids], the upgrade interest of each account

VARIABLES
  plan,  \* the plan made last, with the digest it was made from
  run    \* the run that is going through it

guestVars == <<vars, plan, run>>

-----------------------------------------------------------------------------
(* createGuestToAccountMigrationPlan *)

\* toSortedEvents: only copies of an event share their instant, and sort() leaves
\* equals in place
Precedes(events, i, j) ==
  LET x == events[i].answer  y == events[j].answer IN
  x.createdAt < y.createdAt \/ (x.createdAt = y.createdAt /\ i < j)

Sorted(events) ==
  [n \in DOMAIN events |->
     events[CHOOSE i \in DOMAIN events :
              Cardinality({j \in DOMAIN events : Precedes(events, j, i)}) = n - 1]]

\* createOperationBase
Offer(kind, rows) ==
  [i \in DOMAIN rows |-> [kind |-> kind, of |-> <<rows[i].slug>>, row |-> rows[i]]]

OfferEvents(events) ==
  [i \in DOMAIN events |->
     [kind |-> "import_review_event", of |-> <<i, events[i].answer.eventId>>,
      row |-> events[i]]]

\* An operation for each row, valid or not
Offered == [s \in Snapshots |->
  OfferEvents(Sorted(s.reviewEvents))
  \o Offer("import_saved_word", s.savedWords)
  \o Offer("import_review_state", s.reviewState)
  \o Offer("import_daily_stats", s.dailyStats)
  \o Offer("import_pack_progress", s.packProgress)
  \o Offer("import_upgrade_interest", s.upgradeInterest)]

\* The operations at some positions, in their order
Only(ops, at) ==
  [n \in 1..Cardinality(at) |->
     ops[CHOOSE i \in at : Cardinality({j \in at : j <= i}) = n]]

Operations == [s \in Snapshots |->
  Only(Offered[s], {i \in DOMAIN Offered[s] : Offered[s][i].row.valid})]

OfKind(kind, s) == {op \in Range(Operations[s]) : op.kind = kind}

\* mutant of DuplicateEvents: seenReviewEventIds is not kept
DuplicatesOfDigest(s, digest) ==
  {op \in OfKind("import_review_event", s) : op.row.answer.eventId \in digest.events}

DuplicateEvents(s, digest) ==
  {op \in OfKind("import_review_event", s) :
     \/ op.row.answer.eventId \in digest.events
     \/ \E other \in OfKind("import_review_event", s) :
          /\ other.row.answer.eventId = op.row.answer.eventId
          /\ other.of[1] < op.of[1]}

HasEvents(op, s) ==
  \E e \in OfKind("import_review_event", s) : e.row.answer.slug = op.row.slug

\* The saved word is looked for in the store, whatever its shape
HasSavedWord(op, s, digest) ==
  \/ \E w \in Range(s.savedWords) : w.slug = op.row.slug
  \/ op.row.slug \in digest.savedWords

HasLearning(s) ==
  \E store \in {s.reviewEvents, s.savedWords, s.reviewState, s.dailyStats,
                s.packProgress} : store # << >>

\* seenUpgradeInterestIds: the operations whose interest was listed before
ListedBefore == [s \in Snapshots |->
  {op \in OfKind("import_upgrade_interest", s) :
     \E i, j \in DOMAIN Operations[s] :
       /\ i < j /\ Operations[s][j] = op
       /\ Operations[s][i].kind = op.kind /\ Operations[s][i].of = op.of}]

\* Known to the account, listed before, or beside no learning at all
InterestOnly(s, digest) ==
  {op \in OfKind("import_upgrade_interest", s) :
     \/ op.row.slug \in digest.upgradeInterest
     \/ op \in ListedBefore[s]
     \/ ~HasLearning(s)}

\* classifyMigrationConflict
Conflict(category, ops) == {<<category, op>> : op \in ops}

\* addConflict, of every row that calls for one
Conflicts(s, digest) ==
  LET states == OfKind("import_review_state", s)
      unsupported == {op \in Range(Offered[s]) : ~op.row.valid} IN
  Conflict("unsupported_payload", unsupported)
  \cup Conflict("duplicate_review_event", DuplicateEvents(s, digest))
  \cup Conflict("duplicate_saved_word",
          {op \in OfKind("import_saved_word", s) : op.row.slug \in digest.savedWords})
  \cup Conflict("stale_review_state",
          {op \in states : ~HasEvents(op, s) /\ ~HasSavedWord(op, s, digest)})
  \cup Conflict("fake_mastery_risk",
          {op \in states : /\ op.row.mastered /\ ~HasEvents(op, s)
                           /\ op.row.slug \notin digest.reviewState})
  \cup Conflict("pack_progress_without_events",
          {op \in OfKind("import_pack_progress", s) : s.reviewEvents = << >>})
  \cup Conflict("upgrade_interest_only", InterestOnly(s, digest))

\* isPlanBlocked
Status(conflicts) ==
  IF \E c \in conflicts : c[1] \in {"unsupported_payload", "fake_mastery_risk"}
  THEN "blocked" ELSE "preview_only"

\* The accountStateDigest of the account's profile, as its holder would take it;
\* the service keeps no interest, so what the account knows of it is a constant.
\* It is as old as the plan when the plan runs; a profile without a digest reads
\* as one of the empty account.
DigestOf(u) ==
  [events |-> {e.answer.eventId : e \in {x \in Range(reviewEvents) : x.user = u}},
   savedWords |-> {w \in Words : savedWords[<<u, w>>] # None},
   reviewState |-> {w \in Words : reviewState[<<u, w>>] # None},
   upgradeInterest |-> AccountInterest[u]]

MakePlan(s, u) ==
  /\ batch = None /\ run = None
  /\ LET digest == DigestOf(u) IN
       plan' = [snapshot |-> s, user |-> u, digest |-> digest,
                conflicts |-> Conflicts(s, digest),
                status |-> Status(Conflicts(s, digest))]
  /\ UNCHANGED <<vars, run>>

-----------------------------------------------------------------------------
(* runGuestToAccountMigrationPlan *)

MigrationKey(s, op) == <<"migration", s.id, op.kind>> \o op.of

\* toReviewEventRequest and toSaveRequest: what the plan let through is valid
\* to the service
RequestOf(s, u, op) ==
  IF op.kind = "import_review_event"
  THEN [key |-> MigrationKey(s, op), user |-> u,
        operation |-> "submit_review_event", valid |-> TRUE,
        answer |-> op.row.answer, pack |-> None]
  ELSE [key |-> MigrationKey(s, op), user |-> u, operation |-> "save_word",
        valid |-> TRUE, slug |-> op.row.slug, savedAt |-> op.row.savedAt]

\* The operations a run carries out; the others come after them, and are
\* reported as skipped
Imports == [s \in Snapshots |->
  Only(Operations[s], {i \in DOMAIN Operations[s] :
    Operations[s][i].kind \in {"import_review_event", "import_saved_word"}})]

MigrationWrites ==
  UNION {{RequestOf(at[1], at[2], op) : op \in Range(Imports[at[1]])} :
           at \in Migrations}

DeviceWrites == Envelopes \ MigrationWrites

\* What devices and runs send are the writes the service is modelled with, and
\* createOperationBase alone makes keys of migrations
ASSUME MigrationsAssumption ==
  /\ Migrations \subseteq Snapshots \X Users
  /\ MigrationWrites \subseteq Envelopes
  /\ \A m \in MigrationWrites :
       /\ m.key # None
       /\ \A n \in DeviceWrites \cup Batches \cup {i.write : i \in Queued} :
            n.key # m.key

\* A run, as far as it got
Runs == [results: Seq({"accepted", "rejected"}), eventsBefore: Nat, unmoved: BOOLEAN]

\* A snapshot is known by its id, its stores are lists, a word has one entry in a
\* store, and None is no run
ASSUME GuestsAssumption ==
  /\ None \notin Runs
  /\ \A s, t \in Snapshots : s.id = t.id => s = t
  /\ \A s \in Snapshots :
       /\ \A store \in {s.reviewEvents, s.savedWords, s.reviewState, s.dailyStats,
                         s.packProgress, s.upgradeInterest} :
            store \in Seq(Range(store))
       /\ \A i, j \in DOMAIN s.savedWords :
            s.savedWords[i].slug = s.savedWords[j].slug => i = j

\* A run looks at no status: a blocked plan runs as any other
StartRun ==
  /\ batch = None /\ run = None /\ plan # None
  /\ run' = [results |-> << >>, eventsBefore |-> Len(reviewEvents),
             unmoved |-> plan.digest = DigestOf(plan.user)]
  /\ UNCHANGED <<vars, plan>>

Todo == Imports[plan.snapshot]
Position == Len(run.results) + 1
IsRunning == run # None /\ Position \in DOMAIN Todo

Import ==
  /\ IsRunning
  /\ Receive(RequestOf(plan.snapshot, plan.user, Todo[Position]))
  /\ run' = [run EXCEPT !.results =
       Append(@, IF reply'.response.status = "ok" THEN "accepted" ELSE "rejected")]
  /\ UNCHANGED plan

\* Making the plan again sends the same operations: it is not kept
EndRun ==
  /\ run # None /\ ~IsRunning
  /\ run' = None /\ plan' = None
  /\ UNCHANGED vars

-----------------------------------------------------------------------------
GuestInit == Init /\ plan = None /\ run = None

ServiceNext ==
  /\ run = None
  /\ \/ \E m \in DeviceWrites : Receive(m)
     \/ \E b \in Batches : StartBatch(b) \/ RepeatBatch(b)
     \/ SkipRetryable \/ RejectUnsupported \/ WriteItem \/ FinishBatch
  /\ UNCHANGED <<plan, run>>

GuestNext ==
  \/ ServiceNext
  \/ \E at \in Migrations : MakePlan(at[1], at[2])
  \/ StartRun \/ Import \/ EndRun

GuestSpec == GuestInit /\ [][GuestNext]_guestVars
-----------------------------------------------------------------------------
(* Correctness *)

\* The preview tells the truth.  Run on the account its digest describes, a
\* plan has added, at each of its operations, exactly the review events that
\* it listed without a duplicate_review_event conflict, in the plan's order;
\* and the words it listed without a duplicate_saved_word conflict have new
\* rows.  Operations the service rejected count for neither.
Listed(category) == {c[2] : c \in {x \in plan.conflicts : x[1] = category}}

Accepted(kind) ==
  {i \in DOMAIN run.results : Todo[i].kind = kind /\ run.results[i] = "accepted"}

PreviewIsTrue ==
  (run # None /\ run.unmoved) =>
    LET shown == {i \in Accepted("import_review_event") :
                    Todo[i] \notin Listed("duplicate_review_event")} IN
    /\ Len(reviewEvents) = run.eventsBefore + Cardinality(shown)
    /\ \A i \in shown :
         reviewEvents[run.eventsBefore + Cardinality({j \in shown : j <= i})].answer.eventId
           = Todo[i].row.answer.eventId
    /\ \A i \in Accepted("import_saved_word") :
         Todo[i] \notin Listed("duplicate_saved_word") =>
           savedWords[<<plan.user, Todo[i].row.slug>>].saves = <<Todo[i].row.savedAt>>

==============================================================================
