# Visual Lexicon: a TLA+ model of its learning, its accounts and its factory

This directory holds TLA+ modules for three parts of Visual Lexicon. One keeps
a learner's memory: the spaced-repetition engine, the local review stores, the
review queues, the review page, and the server side that will keep accounts in
step with their devices (a sync service, the migration of a guest's browser, a
persistence adapter, a conflict resolver and their harnesses). One is the magic-link sign-in. The third is the
delivery factory, the planners that decide which change of the repository comes
next and whether it may be merged. TLC checks them on small instances; TLAPS
proves every invariant and action property that a passing run checks, of all three
parts, for every value of the constants. Liveness stays with TLC. Paths
below are relative to the repository's root (`src/lib/srs/engine.ts` is
`src/src/lib/srs/engine.ts` in `PROJECT.json`).

1. The system
2. Modules and code
3. Runs: what is checked and what it shows
4. Bounds and fairness
5. Proofs
6. Where the code and its documentation disagree
7. What is left out, and why
8. Plan


## 1. The system

Visual Lexicon is a Next.js application. A learner saves words, reviews them on
review pages, and sees the result on a dashboard. Today everything a learner
does is kept in the browser's `localStorage`; a magic-link sign-in exists, and
behind it a family of server-side prototypes (a sync service, a persistence
adapter, a conflict resolver, migration plans, read-only previews) that no page
writes to yet. Beside the application the repository holds the delivery factory
(`src/lib/factory`), pure planners over the roadmap, issues, pull requests and
evidence, which an operator follows.

### Components that carry learning state

**SRS engine** (`src/lib/srs/engine.ts`, `types.ts`). Pure. One
answer (result, response speed, confidence, hint) takes a review item to the
next one: box 0 to 5, weak score 0 to 1, streak, counts, due date, mastery label,
and adds to the day's statistics. Used by the local stores, the page and the
server service. *Correct when* boxes and scores keep their ranges, mastery is
reached only through a delayed recall, and every word that is not mastered comes
back.

**Review storage** (`src/lib/srs/storage.ts`). Three keys of `localStorage`:
`vlx_review_state_v1`, `vlx_review_events_v1`, `vlx_daily_stats_v1`.
`applyReviewAnswer` reads the three, refuses malformed ones, answers a known
`eventId` from the log (replay) or refuses it (conflict), computes the next
stores, and writes them one `setItem` at a time; when one throws, it writes the
snapshots back and reports a retryable error, or a fatal one if that fails too.
The save page adds a review item through a lenient read. *Hard:* every call can
throw, the tab can close between two calls, several tabs share the keys without
a lock. *Correct when* an answer is applied as a whole or not at all, an
`eventId` at most once, and the three stores tell one story.

**Review queues** (`src/lib/srs/selectors.ts`,
`src/components/views/review-session-view.tsx` 537-613, `save-landing-view.tsx`).
Which words are due, weak, new or mastered, and what the due and weak review routes
offer. Three places decide independently what "weak" means, and the save page
writes a word in two steps. *Correct when* they agree, no word is lost, and a
learner who follows them masters every word. The dashboard's primary action and the
mixed route, which choose among these, are not modelled.

**Review session page** (`src/components/views/review-session-view.tsx`). A
React state machine: load, select, confidence, commit, feedback, next, summary,
review again; with refs (`answerSubmissionLocked`, `nextActionLocked`,
`completionRecordedSessionId`) against double clicks, a pending selection that
survives a failed write, and the pack's progress recorded at the end. *Hard:* a
handler runs on the state of the last render, several clicks fit between two
renders, every write can throw, another tab can overwrite the log. *Correct
when* a card leaves one event at most, none is skipped, feedback means saved,
the summary is that of the log, and the session can always be finished.

**Server SRS sync spike** (`src/lib/server-srs-sync/spike/`). An in-memory
service: `saveWord`, `archiveWord`, `submitReviewEvent` and
`syncPendingLocalQueue`, each answered from `processedIdempotencyKeys` when its
key was used before; review state, daily statistics, pack progress and the sync
cursor follow from the accepted events. *Hard:* writes are retried, delayed,
reordered, repeated in batches, and sent under other keys with the same
`eventId`. *Correct when* an event is accepted once, the account is the replay of
the accepted events, a retry gets the first answer and changes nothing, and the
cursor moves exactly with the account.

**Guest migration prototype** (`src/lib/account-persistence/migration-prototype`).
A plan is made of a snapshot of a browser's stores and a digest of the account, with
the conflicts a learner is shown; its run sends the plan's review events and saved
words to the sync service, each under a key made from the snapshot's id. *Hard:* the
account moves between digest, plan and run, snapshots share events, a run is
repeated. *Correct when* the preview is true of the account it was made for, an
event is imported once, and a repeated run changes nothing.

**Pack progress** (`src/lib/packs/progress.ts`). One key, read, changed and
written without a lock when a pack is opened, previewed or reviewed. The review
page's call is part of ReviewSession.

**Analytics** (`src/lib/analytics/`). Pushes events to the data layer, one
`reviewStart` and one `reviewComplete` per session. The two are part of
ReviewSession; cleaning of payloads is not.

### Components that carry an account

**Server persistence adapter** (`src/lib/account-persistence/server-adapter`).
Per account: saved words, review state, events, daily statistics, pack progress,
upgrade interest, audits, processed keys, and a sync version. Single writes
(saved word, review event, upgrade interest, audit), previews, and
`applyResolutionPlan`, which carries out a plan's accepted resolutions on a clone
and keeps it only when every write succeeded. *Hard:* a retry is answered
from the current state, an audit has no key, a plan can fail at its last
write. *Correct when* the account is what its events make of it, and a plan is
applied as a whole or not at all.

**Sync conflict resolver** (`src/lib/account-persistence/sync-conflicts`). Pure.
A device's snapshot and the account give a plan: which words to import, which
events to merge, which contradict each other, what each word's state becomes.
*Correct when* running it again finds nothing new to do, and no state gets in
that the events do not support.

**Integration harness and mock handlers** (`sync-harness`, `api-handler-harness`).
The harness loads, resolves, previews and applies in one call. The route handlers
split it: a client previews, confirms some of the plan, and applies it later by a
request with an idempotency key, which a ledger answers from the second time on.
*Hard:* the account moves between preview and apply. *Correct when* what is
applied was shown and confirmed.

**Magic-link sign-in** (`src/lib/auth`, `src/app/login`, `src/app/auth`,
`src/app/settings`). Three cookies (request state, staged confirmation, session)
and the provider's single-use credentials. A login request mails a link; opening
it stages a confirmation; the deliberate POST consumes the credential; sign-out
ends the session at the provider. *Hard:* tabs share the cookie jar, an answer
sets cookies when it arrives, in any order or never, a mail scanner opens the
link too. *Correct when* only the browser that asked gets in, a consumed request
stays consumed, "signed out" is true, and the learner gets in.

**Delivery factory** (`src/lib/factory`). Nine planners that change nothing: the
issue materializer, the draft pull request orchestrator, the CI repair loop, the
risk classifier, the quality gate, the owner queue, the release evidence guard,
the owner command center, the next-task packet. Each takes a snapshot of the
roadmap, of the repository and of what was reported, and returns a plan or the
reasons for none. State is in the roadmap, the issues, branches, pull requests,
runs and approvals, which people change as well. *Hard:* the operator stops
between two writes of a plan and asks again; marks the planners match by are
edited; results are missing, fail, mean nothing, are listed twice, or grow old;
each planner has a path table of its own. *Correct when* a task gets one issue and
an attempt one pull request, nothing is called verified without its evidence,
and the roadmap advances.

### Components around them

| component | state | operations | what is hard, what would make it correct |
|---|---|---|---|
| Supabase sessions, account principal | the provider's cookies | refresh, verify, map claims | |
| Server SRS selectors, read-only previews and digests | none | bounded owner-scoped reads | |
| Staging schema (`supabase/`) | two owner-scoped append-only tables | none from the app yet | |
| Entitlements, paywall triggers, upgrade interest | one local list of interests | pure decisions, one append | |
| Pack reader, extension bridge, aliases, routes, other views | none | pure lookups, rendering | |
| Account-persistence contracts, release and launch gates | none at run time | evaluators of hand-written records | |

`PROJECT.json` lists each with its sources and its status, and under `hazards`
every place of the code where something can go wrong that a test would hardly
reach, with the property that watches it.

### How they interact

```
 save page ──createReviewItem──┐                    ┌── dashboard, routes
                               v                    v
 review page ──applyReviewAnswer──> review storage ──> selectors / queues
     │   └─getReviewEvents──────────────^   │
     └─recordPackReviewCompleted──> pack progress
                                            │ (engine.ts computes every step)
                                            v
 devices' queues ──envelopes, batches──> server sync service (same engine)
 guest's browser ──snapshot──> plan ──run, one write at a time──^
 devices' snapshots ──> resolver ──plan──> adapter: the account (same engine)
                          ^ harness, or preview route ── client ── apply route

 /login ──state cookie, mail──> link ──/auth/confirm──> staged cookie
                                     ──/auth/continue──> provider ──> session cookie

 roadmap ─> issues ─> branch, draft PR ─> runs <─> repair loop
    ^                     └─ classifier, quality gate ─> owner queue ─> merge
    └─ release evidence guard <─ runs of the merge commit ─┘
 roadmap, merges ─> command center ─> packet ─> next task
```


## 2. Modules and code

| module | code | kind |
|---|---|---|
| `SrsEngine` | `engine.ts`, `types.ts` | operators: one answer on one item and on a day's statistics |
| `ReviewStores` | `storage.ts` (what the keys hold, duplicate and session lookup, the next stores) | operators and types, shared by the next two |
| `ReviewLog` | what `storage.ts` promises, as `docs/TRACK_B_REVIEW_RELIABILITY_GATE.md` states it | abstract specification: an answer is one atomic step |
| `ReviewStorage` | `storage.ts`, one action per `localStorage` call | state machine of any number of tabs |
| `ReviewQueues` | `selectors.ts` (weak, new, mastered), the due and weak routes' queues, the save page | state machine of time, saving and answering |
| `ReviewSession` | `review-session-view.tsx`, `progress.ts` | state machine of one mounted page, over the promise of `ReviewLog` |
| `ServerSrsSync` | `server-srs-sync/spike/*.ts` | state machine of the service, a batch item by item |
| `GuestMigration` | `migration-prototype/*.ts` | state machine of plans and runs, composed with `ServerSrsSync` |
| `ServerAdapter` | `server-adapter/in-memory-adapter.ts` | operators: each write of an account, and the application of a plan |
| `ConflictResolver` | `sync-conflicts/conflict-resolver.ts` | operators: a snapshot and an account to a plan |
| `AccountSync` | `sync-harness`, `api-handler-harness`, the single writes | state machine of one account and the devices, clients and requests around it |
| `AuthFlow` | `src/lib/auth`, `src/app/login`, `src/app/auth`, sign-out in `src/app/settings` | state machine of tabs, cookie jars and the provider |
| `FactoryPlans` | `roadmap-issue-materializer.ts`, `draft-pr-orchestrator.ts`, `ci-repair-loop.ts` | operators: what is due and what exists already |
| `RiskGate` | `risk-classifier.ts`, `quality-gate.ts` | operators: the risk of a change, the checks it needs |
| `FactoryEvidence` | `pr-readiness-owner-queue.ts`, `release-evidence-guard.ts`, `owner-command-center.ts`, `next-task-run-packet.ts` | operators: whether the evidence is enough |
| `DeliveryFactory` | the planners composed, an operator, people, runs and time | state machine |
| `MC...` | | instances for TLC |
| `..._proofs` | | theorems and their proofs |

`SrsEngine` is extended by `ReviewStores`, `ReviewQueues` and `ServerSrsSync`, as
`engine.ts` is imported by the local and by the server's code. `ReviewStorage`
extends `ReviewStores` and instantiates `ReviewLog`. `GuestMigration` extends
`ServerSrsSync`: an import is a `Receive` of the service. `ServerAdapter` extends
`SrsEngine`, `ConflictResolver` extends `ServerAdapter`, and `AccountSync`
composes them. `FactoryEvidence` extends `FactoryPlans` and `RiskGate`;
`DeliveryFactory` composes the three.

**SrsEngine.** Time is counted in ten minutes (`BoxZeroDue = 1`, a day is 144):
the shortest interval of the code is the ten minutes of box zero. `now` and
every `createdAt` are such instants, and UTC dates are instants divided by a
day. The weak score is kept in hundredths, the step in which the code changes
it. Response times are the three classes the thresholds of `types.ts` (5000 and 10000 ms)
distinguish. An item holds what a transition reads or a property needs; the
average response time, the review minutes and the word's text are left out.

**ReviewStorage.** `store` is what the three keys hold, `malformed` the keys
whose text does not parse, `tab[t]` the call tab `t` is in: its `pc`, the key it
is at (`step`), the snapshot it read, the stores it computed, the keys its
rollback could not restore. The actions follow `applyReviewAnswer`:
`BeginAnswer`, `ReadKey` (three times), `RejectMalformed`, `ReturnDuplicate` or
`RejectDuplicate`, `ComputeCommit`, `WriteKey` / `WriteFails` (three times,
in the order of the code), `RestoreKey` / `RestoreFails` (from the first key on),
then the error. `Crash` ends a tab between two calls. The ghost variables are
`acked` (answers reported as saved), `fatal`, `crashes` and `failures`.

**ReviewQueues.** `reviewState` and `savedWords` as the stores hold them, `now`,
and `diligent`, which turns on the learner of the liveness property. `Tick`
moves time to one of `Instants`, so that recalls happen early, on the exact
instant and late. `SaveWithoutItem` is the save page stopped between its two writes.

**ReviewSession.** React state is kept twice: `view`, the state of the last
render, which the handlers' closures read, and `ui`, with the updates collected
since. `Render` makes them equal and runs the effect that releases
`nextActionLocked`. Handlers are enabled by `view`, so a second click before a
render is an ordinary behaviour of the model. Refs are variables of their own.
`events` is the log, `torn` the eventIds a fatal error left half applied,
`Filtered` is the array's `filter`,
`writable` whether `localStorage` takes writes now, `OtherTabOverwrites` the
documented lost update. The eventId of a selection is its session, card and the
random token of the code.

**ServerSrsSync.** The store of `in-memory-store.ts`. `Receive` is one request:
`Write` is the whole handler, its validation, the key's lookup, the operation
and what is remembered. `StartBatch`, `WriteItem`, `SkipRetryable`,
`RejectUnsupported` and `FinishBatch` are `syncPendingLocalQueue`: one handler,
so nothing else is received between its items. `reply` is the last response.
Time stamps that the service takes from its clock are not part of the state.
The properties read the log by positions: `Replay` is the recursive function that makes
a word's row of the events up to each, a day's and a pack's events are a set of them, and
`Lists` compares such a set with the identifiers a row holds, in order.

**GuestMigration.** `plan` is the plan made last with the digest it was made from,
`run` the results of the run going through it. Plan and run are synchronous calls:
while a run is under way nothing else is received. Between them anything is, so
the digest may be stale; a profile without a digest is planned as the digest of
the empty account. The service keeps no upgrade interest, so what the account knows of
it is a constant (`AccountInterest`). After a run the plan is dropped, as making it again sends the same
operations under the same keys. Only events and saved words are sent; the other
operations come after them in the code's order and are reported as skipped. A run
looks at no status, so a blocked plan runs as well. Of a stored row the module keeps
its word or event and whether its shape is valid; events that share an instant are
copies of one event. The planner's sort and filters are stated by positions: an event
stands in the sorted list (`Sorted`) behind the ones that precede it, and `Only`
picks the operations at some positions, in their order. The planner's rules about its
rows, `OfKind` to `Conflicts`, read the plan's list of operations so made. Named as
assumptions: a snapshot is known by its id and lists a word once (`GuestsAssumption`,
which also keeps `None` out of the runs), and only the planner makes migration keys
(`MigrationsAssumption`).

**ServerAdapter, ConflictResolver.** An account is a record; each operation is a
function from an account and a request to the answer and the account that
follows, so that applying a plan to a clone is applying the functions one after
the other: `Rounds` is the loop, a recursive function whose n-th place is what the
n-th resolution leaves behind, and `Committed` keeps its last place, or the account as
it was. The adapter never reads another account, so one stands for
the store. Audits are counted, since nothing reads them. A resolution's id is
made, as in the code, of plan, target, category and entry; a snapshot's entry
that its validator refuses is marked, not spelled out. Events of one snapshot that
share an eventId are copies, as a browser stores an event once
(`SnapshotsAssumption` in `AccountSync`); `None` is neither a pack nor a row
(`NamesAssumption`).

**AccountSync.** `account` is the store, `preview` what the client was shown,
`ledger` the handlers' memory of apply requests, `reply` the last answer. Every
call is a whole handler. `Run` is the harness from load to apply. `PreviewRoute`,
`ApplyNew` and `ApplyAgain` are the routes: an apply request is any plan shown
earlier with any part of it accepted. The harness hands its account on; the
handlers work on a copy they do not keep, as in the code, and hand on their
ledger.

**AuthFlow.** A tab has one request at a time, with the cookies its jar had when
it was sent (`AskLogin`, `OpenLink`, `PressContinue`, `PressLogout`,
`VisitPage`), handled by the server (`Handle`), answered, and its cookies
set in the jar when the answer is delivered (`Deliver`) or lost. A request in flight holds its form, link or
confirmation as `input`. A request state,
the credential it mails and the session that buys share a number. `consumed` and
`faults` are ghosts. The provider is external: a credential is spent once, may
expire, may fail.

**FactoryPlans, RiskGate, FactoryEvidence.** A task is the number of its id, a
text names the task it is about and the edition of the roadmap entry it was made
from, a path is the set of rules it matches in each planner's own table, a result
is a record of name, status, commit, age and sort text. A planner is a set of due
items or a predicate that holds when the planner would give no reason against.
Searches keep the code's order: over a sorted list, one kind of match
after the other (`FirstMatch`, which takes the kinds of match and the sort keys as
functions on the list's positions).

**DeliveryFactory.** The operator follows plans one write at a time and may stop
after any: issues are seen to before a branch, the branch before its pull
request, and what was written is all that the next plan can know. `made` on an
issue or pull request is a ghost: what it was opened for, which no planner sees.
Runs happen on the head of an open pull request and on the last merge; a snapshot
lists either all the runs of a commit or the last (`Listings`), as the code takes
whichever list its caller gives. `Approve`, `MarkReady` and `Merge` are the owner's,
`Verify` applies the guard's proposals to the roadmap, `Publish` the command
center's packet, `SelectNext` the packet of the next task. Edits by hand strip a
mark or close an issue of a ready task, strip, close or push to an open pull
request, reword a ready entry, set a gate's status.

## 3. Runs: what is checked and what it shows

`tlc -config X.cfg MCModule` repeats a run. States are distinct states; times
are for two workers.

| run | specification and instance | states | shows |
|---|---|---|---|
| `review_storage_one_tab` | `ReviewStorageOneTab.cfg` | 512,000 (36 s) | one tab: a commit is atomic whatever call throws, refines `ReviewLog`, acknowledged answers stay, the stores agree, a death in mid-commit costs its own answer at most |
| `review_storage_fatal_retry` | `ReviewStorageFatalRetry.cfg` | violated | a retry after a fatal rollback reports success for an answer that was not applied |
| `review_queues` | `ReviewQueues.cfg` | 106,000 (25 s) | schedule, mastery, the agreement of the three notions of weak, and that diligence masters every word |
| `review_session_pack` | `ReviewSessionPack.cfg` | 2,200,000 (58 s) | the page over two sessions of a pack, with double clicks, outages and another tab's overwrite |
| `review_session_ends` | `ReviewSessionEnds.cfg` | 38,000 (14 s) | the session can be finished, but for a fatal error's event that matches no retry |
| `review_session_stuck` | `ReviewSessionStuck.cfg` | violated | an outage at the last click leaves "View summary" dead |
| `server_srs_sync` | `ServerSrsSync.cfg` | 276,000 (165 s) | single writes, a batch, and the plans and runs of two guest snapshots, in every order and any number of times |
| `account_sync` | `AccountSync.cfg` | 25,000 (20 s) | single writes, snapshots and apply requests in every order: the account follows from its events, plans are all or nothing |
| `account_sync_rerun` | `AccountSyncRerun.cfg` | violated | the resolver blocks a snapshot it brought in itself |
| `auth_flow` | `AuthFlow.cfg` | 288,000 (136 s) | sign-in and sign-out over a shared cookie jar, with a mail scanner, lost answers and provider errors |
| `delivery_factory` | `DeliveryFactory.cfg` | 141,000 (70 s) | the factory from two ready tasks to the choice of the next one, under edits, bad runs and time |
| `delivery_factory_failure` | `DeliveryFactoryFailure.cfg` | violated | a failed check hidden by a passed result of the same name |

The properties, by module (each is stated in words above its definition):

*ReviewStorage.* `AtomicCommit` is the refinement: with `stores` mapped to the
snapshot while the tab writes or rolls back, every step of `storage.ts` is a step
of `ReviewLog` or a stutter, so the three writes and their rollback are one step,
or a reported mixture. `AckedStay`: no later failure, rollback or death removes
an acknowledged event. `StoresAgree`: counts, boxes and day statistics are those
of the log, and consecutive events of a word continue each other.
`DriftBoundedByCrashes` bounds what `StoresAgree` loses when tabs die.
`UniqueEventIds`, the one property that also holds between tabs, is proved.
`MalformedPreserved`: an answer never replaces a store that does not parse.

*ReviewQueues.* `ComesBack` says that no word is lost, by the engine or by a save that
stops half way; `MasteryIsEarned`, `MasteryNeedsDelayedRecall` are the engine's promise over time, `WeakWordsAreOffered` the agreement of the selectors
with the routes, `DiligenceMasters` the liveness of the schedule.

*ReviewSession.* `OneEventPerCard`, `NoCardSkipped`, `FeedbackMeansSaved` against
clicks between renders and failed writes; `SummaryMatchesLog` against another
tab; `PackCountsReviews` against counting a session twice. `SessionEnds`: the learner
reaches the summary, or the page is left for good with a card whose event a fatal
error stored and no retry gets past (`CannotBeRetried`: torn, or under another
confidence than the retry's; section 6).

*ServerSrsSync.* `OnceEach`, `StateIsReplay`, `RollupsFollowEvents` say that the
account is the replay of the accepted events, each once;
`RetryReturnsOriginal`, `AcceptedIsCarried`, `ArchivedUntilSavedAgain` what a
device may conclude from an answer; `CursorTracksAccount` that hydration misses
nothing. All are checked with migrations among the writes.

*GuestMigration.* `PreviewIsTrue`: a plan run on the account its digest describes adds
exactly the events it showed without a duplicate conflict, in its order, and new rows
for the words it showed as new, whatever copies and malformed rows the snapshot
holds.

*AccountSync.* `AccountFollowsEvents`: states, days and packs are what the accepted
events make of them and each event is held once, whatever was retried, merged or
run again. `RunIsAllOrNothing` against a plan that fails half way;
`RerunAddsNothing` and `MasteryAgrees` about a device that comes back, or boasts;
`AppliedWasPreviewed` about the account moving between preview and apply.

*AuthFlow.* `OwnRequestOnly` and `ConsumedStaysConsumed` against links opened
elsewhere and answers overtaking each other, `SignOutIsHonest` against a provider that
fails, `SignInCompletes` the liveness.

*DeliveryFactory.* `OneIssuePerTask` and `OnePrPerAttempt`: an operator who stops
and asks again, over marks that were edited, writes nothing twice.
`VerifiedRestsOnEvidence` composes the whole road to a verified task: what the guard,
the owner and the runs said is about this task's one merge. `NextTaskIsSafe` is about
a packet that may be stale when the next task is chosen. `FactoryDelivers` is
the liveness: the planners' conditions never lock each other out.

Each property of a passing run has a mutant in `PROJECT.json`: a plausible bug of
the mapped definition (the rollback that starts at the wrong key, the session
lookup that is dropped, the label that is not refreshed, the lock that is not
taken, the key that is not looked up) with which TLC finds the property
violated in the same instance. The mutated forms stand above the definition they
mutate, marked "mutant of".


## 4. Bounds and fairness

**ReviewStorage.** `OneTabAnswers`: three answers of one session, on one word and
then another, around midnight, so that the session must count once on each of
two days, and a conflicting reuse of the first eventId. `MaxFailures = 3`: the write
that fails and two of the three rollback writes, so every combination of
restored and lost keys but the loss of all three; `MaxCrashes = 1`: a death at
every point of every call. `MaxReviews = 4` is more than the three eventIds can
apply; it only stops answers applied again after a fatal error or a death.
One of the three keys may start
malformed.

**ReviewQueues.** One word: the words of the module do not interact. `AllKinds` are the six answers the engine
tells apart (fast recall, thoughtful recall, hinted, guessed, missed, missed
though sure). `FewInstants`: ten minutes later, the next day, and the unit after
the fourteen days of delayed recall, so that practice comes early and late.
`MaxReviews = 5` answers before the learner turns diligent, `Horizon = 5760` units
(forty days), more than the 1 + 3 + 7 + 14 days from the first box to mastery.

**ReviewSession.** `SessionLimit = 2`: a card that is not the last and one that
is. The queues are an empty one, a single card, and one with a repeated word and
one word too many. `MaxSessions = 2`: a first session and "Review again";
`MaxOutages = 1` (2 in the liveness run); `MaxOverwrites = 1`; two random tokens, so
that a second eventId for a card would show. The liveness run has one session and all
three confidences, so that a second button can be clicked before the first is
rendered; the run over two sessions has one confidence (two pass its five minutes),
and there the theorems, which hold for every set of confidences, say the rest.
`CHECK_DEADLOCK FALSE` is set for
these runs because a page whose last session is finished really stops: nothing
is left to click once the bounds are used up.

**ServerSrsSync, GuestMigration.** Two users, one word, one pack. Five envelopes of
devices: a save, an archive, an event of each user, and what a batch sends: four items
(its sender's event, under the key of the other user's, an item that waits for its
retry, an operation the service does not know, an archive that is also sent alone), and
a batch without a key. Two
snapshots of one guest: `Practised` holds the same two events, the first with another
result and twice, so that one eventId comes under three keys with two payloads;
`Claimed` has no events, a mastery nothing earned, a malformed row and an interest
listed twice beside one the account knows, so that its plan is blocked and all seven conflicts appear. Every envelope,
batch, plan and run may come again at any time, so the instance has every order and
repetition without a bound on their number.

**AccountSync.** Two words, one pack, two events on the first word a day apart.
Five devices: `Device` with an honest log; `Master` with the five delayed answers of
mastery; `Boaster` whose state claims a mastery its events do not have; `Reuser`
which uses a key for another payload; `Broken` with malformed entries. One key is
shared by a saved word and an event, so that a plan can be refused by the adapter
after its first write. Clients preview `Device` and `Boaster`; there is one apply
key, so that the second request meets the ledger. `MaxCalls = 4`: two writes between
a preview and its apply, or a run, two writes and the run again. `CHECK_DEADLOCK
FALSE`, because calls are bounded.

**AuthFlow.** Browser `own` with tabs `t1` (every request) and `t2` (log in,
continue), browser `other`, the scanner (log in, open a link).
`MaxRequests = 2`, so that a second request overwrites the first one's cookie;
`MaxFaults = 1`: one lost answer, provider error or expiry anywhere. `Forms`: an
address the provider knows, and one sent from another host. Deadlock is checked.

**DeliveryFactory.** Five tasks with the ids the code names: 40 (product UI, medium risk)
and 50 (factory code, high risk, behind the owner), both in release gate G0; 60, blocked
on 50; 70, deferred; 1010, the owner's. In the real roadmap FCT-060 depends on 020 and
040. Paths: docs, UI, factory code, and two a later push may add, sign-in code (high
risk) and payment code (forbidden). A failing run fails the build. Two candidates for the next
task: the first needs the audit that was not merged, the second is chosen.
`MaxEdits = 1`, and `MaxMishaps = 2` edits, bad runs and ticks together: an edit
and a bad run, two bad runs, or a bad run whose cure grows old. A tick is two
hours and evidence lasts one, so one tick makes everything stale.
`AttemptLimit = 2`. The factory stops when the next task is chosen: `CHECK_DEADLOCK FALSE`.

**Fairness.** `DiligentSpec` assumes that a learner who has turned diligent goes
on reviewing what is due (`WF(FollowTheQueue)`): it is the hypothesis of
`DiligenceMasters`, not a claim about learners. `FairSpec` assumes that React
renders pending updates (`WF(Render)`), that storage does not refuse writes for
ever (`WF(StorageRecovers)`; a full disk that stays full ends no session), and
that the learner goes on with the card on the screen: chooses an answer, presses
one of the confidence buttons, retries a failed save, presses next. Weak fairness is
enough: each of these buttons stays enabled until it is pressed or the page has
moved on. Nothing is assumed of `RouteLoads`, `ReviewAgain`, other tabs or the
outages. In AuthFlow the server answers (`WF(Handle)`) and answers arrive or are lost
(`WF(Deliver)`); the learner opens the link they have and presses the button they
see, again if need be: strong fairness, since other requests of the same tab and
expiries disable both for a while. In DeliveryFactory the operator, the owner and
the runs go on while there is something to do and nobody has edited by hand
(`WF(edits = 0 /\ Work)`): which work is done next is left open. `FactoryDelivers` says
nothing once somebody has edited.


## 5. Proofs

`tlapm M.tla` checks a module's proofs. Each `_proofs` module extends its
component. The theorems hold for every value of the constants that satisfies
the assumptions named in the modules, all of which TLC evaluates in the runs. "One
tab" means that the theorem has `Tabs = {t}` as a hypothesis.

| module | theorem | property |
|---|---|---|
| `ReviewStorage_proofs` | `TypeCorrect` | `TypeOK`, with any number of tabs, answers, failures and crashes |
| | `EventIdsStayUnique` | `UniqueEventIds` (in no run), any number of tabs |
| | `MalformedSurvives` | `MalformedPreserved`, any number of tabs |
| | `CommitIsAtomic` | `AtomicCommit`, the refinement of `ReviewLog`, one tab |
| | `SavedAnswersStay`, `StoresTellOneStory`, `DriftStaysBounded` | `AckedStay`, `StoresAgree`, `DriftBoundedByCrashes`, one tab |
| `ReviewQueues_proofs` | `AlwaysOnSchedule` | `Schedule`: every tracked word is on the schedule of its box |
| | `QueuesTypeCorrect`, `WordsComeBack`, `MasteredWasEarned`, `MasteryByDelayedRecall` | `TypeOK`, `ComesBack`, `MasteryIsEarned`, `MasteryNeedsDelayedRecall` |
| | `WeakIsOffered` | `WeakWordsAreOffered` |
| `ReviewSession_proofs` | `CardsLeaveOneEvent`, `CardsAreNotSkipped`, `FeedbackIsOfSaved` | `OneEventPerCard`, `NoCardSkipped`, `FeedbackMeansSaved` |
| | `PackProgressIsExact`, `SummaryIsOfTheLog` | `PackCountsReviews`, `SummaryMatchesLog` |
| `ServerSrsSync_proofs` | `ServerTypeCorrect` | `TypeOK` (in no run) |
| | `EventsAcceptedOnce`, `RetriesReturnOriginal` | `OnceEach`, `RetryReturnsOriginal` |
| | `CursorFollowsAccount`, `ArchivedStaysArchived` | `CursorTracksAccount`, `ArchivedUntilSavedAgain` |
| | `AcceptedStaysCarried` | `AcceptedIsCarried` |
| | `StateIsReplayed`, `RollupsCountEvents` | `StateIsReplay`, `RollupsFollowEvents` |
| | `MigrationUsesService` | `GuestSpec => Spec`: the service with migrations implements the service |
| | `PreviewTellsTheTruth` | `PreviewIsTrue` |
| | `ImportedOnce`, `RerunReturnsOriginal`, `CursorFollowsImports`, `MigrationReopensBySave`, `ImportsStayCarried`, `MigratedStateIsReplayed`, `MigratedRollupsCount` | the seven properties above, of `GuestSpec` |
| `AccountSync_proofs` | `AccountFollows`, `RunsAreAllOrNothing` | `AccountFollowsEvents`, `RunIsAllOrNothing` |
| | `RerunKeepsLearning`, `MasteryIsEarned` | `RerunAddsNothing`, `MasteryAgrees` |
| | `AppliedIsPreviewed` | `AppliedWasPreviewed` |
| `AuthFlow_proofs` | `OnlyTheAskerGetsIn`, `TakenForGood`, `SignedOutMeansEnded` | `OwnRequestOnly`, `ConsumedStaysConsumed`, `SignOutIsHonest` |
| `DeliveryFactory_proofs` | `FactoryInvariant` | the inductive invariant itself |
| | `NoIssueTwice`, `NoPrTwice` | `OneIssuePerTask`, `OnePrPerAttempt` |
| | `VerifiedOnEvidence`, `NextTaskIsChosenSafely` | `VerifiedRestsOnEvidence`, `NextTaskIsSafe` |

**SrsEngine_proofs** holds the lemmas the others cite: an answer keeps a well
typed item well typed, boxes climb by one, a word is labelled Mastered exactly in
box five, which due date each box sets, which counters an answer moves and by how much.

**Storage.** `TypeOK` is inductive because it says of a tab in a call that it has
an answer (`CallHasAnswer`). `UniqueEventIds` alone is not inductive: a
rollback or a write puts back a log the tab has held for a while. The
strengthening `UniqueEverywhere` asks it of the snapshot and of the computed log
of every tab as well; `AppendUnique` is the one place where an event is added.
`MalformedPreserved` needs `NoneOverlooked`: a tab that goes on to write has read
every key, each parsed when it was read, and no key becomes malformed later. Neither argument needs
the tabs to take turns, so both properties survive several tabs.

The others are proved for one tab. `MirrorInv` says that what the tab holds in its
call mirrors the stores: before the writes its snapshot is the store, while it
writes each key is the computed one up to `step` and the snapshot's from there,
and during the rollback each key is one of the two, the snapshot's where the rollback
has been unless that write failed. `EveryStepIsLogged` takes the steps one by one and
shows each a step of `ReviewLog` or a stutter under the mapping of `CommittedStores`:
the last `WriteKey` is the commit, a fatal rollback or a death in between is
the reported mixture (`TornStore`). From the refinement the other three follow as
invariants of the log, which has no half-written states: `LogKeepsAnswers`,
`LogKeepsAgreement`, `LogDrifts`. `Agree` and `DriftWithin` are stated over sets of
positions (`EventsIn`, `EventsOnDay`, `SessionsOn`), so that an appended
event adds one position to one set and a cardinality moves by one; no
induction over the log is needed.

**Queues.** The inductive invariant is `Schedule`: a tracked word's due date is
that of its box and its last review, its label is Mastered exactly in box five, a
box has at least as many correct answers behind it, and box five at least
fourteen days since the word was first seen. Every theorem but one follows from
it; `MasteryByDelayedRecall` is an action property of a step from `Schedule`. For
`WeakWordsAreOffered` it is not enough: `LabelsCurrent` adds that the stored label
is the one the engine gives the item now, which is what makes the dashboard's and
the routes' notions of weak the same.

**Session.** The hard part is that handlers read the last render (`view`) while
updates collect in `ui`. `InStep` lists how far the two may be apart: on the same
card, on the next card or in the summary with the next action locked, or in a new
session. With `EventsBehind` (stored events are of earlier cards, or of the
selection on the screen) a click of a stale closure can only store what is
stored already. `AnswerInv` is inductive over that and holds the first three theorems;
`CompleteInv` adds that a session is reported complete only when it is over, which
gives `PackCountsReviews`. The summary is an action property, from `Listed` and
facts about `Filtered` (the kept elements are counted off, each at a place of its
own).

**Server.** `OnceEach` (per user, an eventId and a key are stored once) needs
`KeysRemembered`: the key of a stored event is in `processed`, so a key that is
new to the service is the key of no stored event. `RetryReturnsOriginal` needs
`BatchUnanswered`: while a batch runs its own answer is not remembered. The
cursor and archive theorems go through the operations one by one from `TypeOK`:
each changes the account and the cursor together, or neither.

`AcceptedIsCarried` needs more (`CarriedInv`): a saved word has its state, so that an
archive that was answered with ok has a row to be found on; and a running batch
is in step, its results and the items left make up its items, each accepted
result resting on the item's own key. `StateIsReplay` compares a row with a
recursive function of the log. Instead of an induction, `ReplayInv` has as part of
the invariant that such a function exists and that every such function ends in
the stored row (`ReplaysTo`); an accepted event extends it by one place
(`ReplayExtends`). `RollupsInv` counts over the positions of a day's or a
pack's events (`TallyCounts`), and lists them in their order (`ListGrows`).

Assumed of the constants is that envelopes are records with the fields of their
operation and that no write has the fingerprint of a batch (`EnvelopesAssumption`),
and that the absent value is no row (`NoneAssumption`).

**Migration.** `PlanIsAllowed` (the plan at hand moves a snapshot into an account it
may move into) is inductive; with it, what a run sends is one of the service's
envelopes (`MigrationsAssumption`), so each step of `GuestSpec` is a step of the
service or leaves the account alone. The service's theorems then hold with
migrations too.

`PreviewIsTrue` needs to know what became of the keys of a migration. Of all the
writes only a run sends them, and nothing comes between its operations, so a snapshot
has been sent and answered as a whole, to one account, or not at all, but for
the run at hand, which may be sending it for the first time: `WholeSnapshots`. An
operation of a run is therefore answered from its key in all of the run or in none of
it. If from the keys, `CarriedInv` says that every accepted event is on the account
already, so the digest has it, the plan lists it as a duplicate, and nothing is shown
nor added. If the run is the first (`Filling`), `EventsAreShown` follows it: on the
account are the digest's events, the ones shown so far at the end of the log in the
plan's order, and nothing else; `WordsAreShown` the same of the words. Then the next
event is a duplicate exactly when the account has it (`KnownIsListed`,
`NewIsNotListed`), which uses that an earlier copy in the plan stands at a smaller
place of the sorted list (`PlacesOfTwo`, `OffersInOrder`).

**Accounts.** `AccountInv` is `AccountFollowsEvents` with what its induction needs: rows
have their types and name their word, day or pack, and the keys of stored events are
remembered with an answer. One lemma for each write of the adapter shows that it is
kept (`SaveKeepsInv`, `AcceptKeepsInv`, ...); a plan is applied round by
round, and `RoundsKeepInv` counts up along the places of `Rounds`. The resolver
replays a device's events over an item, and so does the invariant: `RecomputeGrows`
says that a log with one more event replays to one more answer.

That nothing is added by a snapshot the account has (`RerunKeepsLearning`) is about the
plan: its resolutions are all audits or no-ops (`SyncedResolution`), and no
round of those moves the learning. For `AppliedIsPreviewed` the account between
preview and apply is known to have grown only (`Below`: no word, event or interest
goes away, whatever the calls), and a plan made over a larger account writes no
more than one made over a smaller (`PlansShrink`), so what the new plan writes was
in the old one.

`RunsAreAllOrNothing` is the longest argument, as it compares two computations: the
plan's, which replays the new events of a word over its state before anything is
applied, and the application's, which accepts them one at a time on a copy that
changes under it. `InStep` puts them side by side: after the resolution of the
snapshot's k-th event, the copy holds the new events up to k, its item is the
plan's after as many, and it counts as many correct answers more. `RunGoesThrough`
takes it through the imports, the merges and the rest of the plan, for every word
at once. `MasteryIsEarned` reads the end of it: a state the resolver lets stand as
mastered has its five correct answers among the ones the account then holds
(`MasteryHasEvidence`).

**Sign-in.** `OwnInv` follows ownership through everything that travels: what a
browser has in its jar, has sent, or is about to be answered comes from its own
login requests, and a session from one of them that was spent. `KeepsRequests`
(what a browser owns it goes on owning) lets every other tab's request stand
while one tab moves. `ConsumedStaysConsumed` is not inductive: an old answer could
bring a consumed state back. `IssuedOnce` says that the answer that issues a state
is the first to bring it, and is gone before it can be consumed; `TakesState`
that a confirmation's answer always clears it. `SignOutIsHonest` is preserved
given `OwnInv`.

**Factory.** `OneIssuePerTask` and `OnePrPerAttempt` rest on what a search of the
planners misses. `FirstMatch` takes the least hit in the order of its list; that a
nonempty set of hits has a least one is the well-foundedness of the lexicographic
order (`LeastNumber`, `LeastTuple`), whence "the search found nothing" means
that nothing was there (`IssueFound`, `BranchFound`, `PrFound`). The invariant adds
that marks are edited away but never into another task's (`IssuesOwn`, `PrsOwn`), that
every pull request not opened by hand is on a branch of its task and attempt
(`PrsOnBranches`) and that a verified task has a merge on record
(`VerifiedIsRecorded`). `VerifiedRestsOnEvidence` and `NextTaskIsSafe` are action
properties of a step from it; the first uses that the guard, whichever list of
runs it is shown, sees the last result of each name (`ListedRunIsLast`).

**Only model-checked.** The liveness properties (`DiligenceMasters`,
`SessionEnds`, `SignInCompletes`, `FactoryDelivers`), which the prover does not
reach: they need fairness and ENABLED. The properties of the runs that are violated
are refuted, not proved. Of several tabs that write to one storage at once only
`TypeOK`, `UniqueEventIds` and `MalformedPreserved` are proved, since the other storage
properties do not hold there. Termination of the recursive functions is not an issue: each
is a function over an interval of numbers.

**What the proofs changed.** Three things in the models on which TLC had
nothing to say, and the form of some operators. A death in `ReviewLog` named the answer it may have torn, which no step
of a tab that dies on the save page gives when nobody answers anything: a death names
none now. `VerifiedRestsOnEvidence` said that the merge's run had no failure at all,
which held because the instance's failing runs fail a name somebody wants; the guard
passes over a failure of a name nobody asked for, and the property now says that every
wanted name passed in the last result of it. `FactoryAssumption` and
`EvidenceAssumption` had to say that failing runs fail known names and that neither a
candidate nor a check is the number that stands for "none". Sorts, filters and
folds of the account and migration modules are written as positions and recursive
functions, which have places a proof can go through. The assumptions of
`GuestMigration` and `AccountSync` grew by what the instances had and nobody had said:
that snapshots are told apart by their ids, that a browser stores an event or a word
once, that no device invents a migration's key, and what `None` is not.


## 6. Where the code and its documentation disagree

1. **A retry after a fatal rollback reports success** (`storage.ts:461`, run
   `review_storage_fatal_retry`). When the rollback restores the state but not the
   events, the event stays without its effect. The page offers "Retry save" for
   a fatal error too; the retry finds the event, checks only that some state and
   some statistics exist, and returns success.
   `docs/TRACK_B_REVIEW_RELIABILITY_GATE.md:270` says the app must not report the
   answer as saved.
2. **"View summary" can stay dead** (`review-session-view.tsx:1679`, run
   `review_session_stuck`). The lock is taken before the pack's progress is
   written; when that `setItem` throws, nothing releases it.
3. **A snapshot the account took in can be blocked when it comes again**
   (`in-memory-adapter.ts:791`, run `account_sync_rerun`). The adapter stores the
   engine's event, whose boxes and weak scores follow from the account; the resolver
   compares the payload, those fields included, with what the device sent.
   `docs/SERVER_PERSISTENCE_ADAPTER_CONTRACT.md:70` promises a no-op duplicate.
4. **A failed check can hide behind a passed one**
   (`pr-readiness-owner-queue.ts:1470`, run `delivery_factory_failure`). The owner queue
   takes, of several results of one check, the one whose evidence text sorts
   first; `quality-gate.ts` fails on any failed result. The queue's own safety
   note (1456) says that ambiguous evidence fails closed.

Met while modelling, without a run of their own:

- `srs-reducer.ts:30` of the sync spike counts a session per event, where
  `docs/SERVER_SRS_SYNC_ARCHITECTURE.md:146` defines sessions as distinct ids.
- The dashboard counts as due what is due by the end of the UTC day
  (`dashboard-v3-view.tsx:155`), the review route what is due now: "Start due
  review" can lead to an empty page.
- Continuing with a stale staged confirmation clears the state cookie of a newer
  login request as well; its link then has nothing to match.
- The repair loop plans a second attempt only when it sees no pull request of
  the first, which its label keeps visible: attempts two and three of
  `docs/AUTONOMOUS_DELIVERY_POLICY.md:63` are not reached. The CI run it is given
  is tied neither to the task nor to a commit.
- A roadmap entry whose title changed after its draft pull request was opened blocks
  the orchestrator and the repair loop with `title_mismatch`
  (`draft-pr-orchestrator.ts:977`, `ci-repair-loop.ts:1472`) until somebody edits the
  pull request; the materializer plans an update of the issue instead.
- A fatal error may leave the review event whole. When a second confidence button was
  clicked before the page had rendered, every retry carries the second confidence, the
  stored event has the first, and `storage.ts:69-82` refuses it as a conflict: the card
  cannot be finished without a reload. `SessionEnds` names this as its exception.
- The owner queue's path table rates files as low which the risk classifier rates
  high (`src/lib/auth`, `src/lib/factory`, `docs/roadmap`).
- A migration run sends the save of a word its plan lists as `duplicate_saved_word`:
  a word archived in the account is opened again, where `conflicts.ts:142` gives as
  reason that migration keeps account state.
- A migration's keys name the snapshot and not the account, and keys are global in the
  service: a snapshot imported into one account cannot be imported into a second.
  On a repeated run the runner reports the first answer's `duplicate` flag.
- The command center's results and the owner's approval are bound to no commit.

Lost updates between tabs are not in this list: the reliability gate documents
them as a limit. They are why `AckedStay`, `StoresAgree` and the refinement are
checked for one tab.


## 7. What is left out, and why

- *In the modelled parts.* `appendReviewEvent`, `writeReviewState` and
  `writeDailyStats` of `storage.ts` (only tests call them); the weekly, streak, hub
  and due-today read-outs of `selectors.ts`, the mixed route and the dashboard's primary
  action; the question generator, focus and copy of the
  review page; the read-only handlers of the sync service; the average response
  time, minutes and time stamps no decision reads.
- *Windows the models close.* `RouteLoads` is a route's effect and the render
  after it in one step: a click handled between the effect and the render is not
  in the model. The review page is over `ReviewLog`'s promise, not over the
  calls of `ReviewStorage`: the composition is by that refinement, which holds
  for one tab, with the other tab's interference as `OtherTabOverwrites`. In
  `ServerSrsSync` a batch has a key no single write carries.
- *The save page's lenient read* is modelled (`BeginSave`): it may replace a
  malformed review state. `MalformedPreserved` names it as the one exception.
- *Practising weak words only.* A word with three wrong answers stays Weak until
  box five, and each practice moves its due date; practised daily it never meets
  the delayed recall of mastery. `DiligenceMasters` is about a learner who reviews
  words when they are due.
- *Around the account.* Feature switches, headers and the shape checks of payloads
  are one refused request (`RefuseRequest`); the load and preview operations change
  nothing and are part of `ReadRoutes`. Other accounts are never read.
- *In the migration.* Entries for daily statistics, pack progress and interest are
  offered and skipped, as in the code; the report is formatting. A malformed instant makes
  the planner's sort meaningless before validation; snapshots in the model have
  instants.
- *Around sign-in.* Redirect targets, e-mail normalisation and cookie attributes; a
  deployment without provider configuration (`unavailable`, `unconfigured`), which sends
  nothing;
  the provider is modelled by what the code relies on.
- *In the factory.* The planners' formatting, their reports and identifiers; options
  no caller may set (`dryRun: false`, live mutations, auto-merge); the owner queue's
  special case of one stale pull request. What the owner queue reads out of texts (a
  missing title, an unknown state, surfaces named in a title or body, the
  `public_paid_beta_launch` gate) and the callers' own lists of blocked tasks, blocked
  surfaces and high-risk surfaces, of the queue and of the next-task packet, only
  refuse more and are left out. That an operator follows a plan is an
  assumption: the repository holds no code that executes one.
- *Hazards without a property.* Lost updates of two tabs, the lenient read of the
  save page, a route reloading under a click, and pack progress without a lock do
  happen as described; a property would only restate them.
- *Not modelled components.* The release and launch gates and the account contracts
  (some 21,000 lines) are evaluators of one hand-written record each: they keep no
  state, call nothing, and what they return is a list of rules that either hold of
  the record or do not. A model of one is its rules again, and no property
  tells the two apart. Entitlements, selectors, pack and alias lookups are pure
  read-outs; previews and digests are bounded reads behind a session;
  `PROJECT.json` gives the reason for each.


## 8. Plan

1. Local learning core: `SrsEngine`, `ReviewStores`, `ReviewLog`, `ReviewStorage`,
   `ReviewQueues`, `ReviewSession`. Written, checked, proved.
2. Server sync: `ServerSrsSync` over the same engine, `GuestMigration` on top.
   Written, checked, proved.
3. Accounts: `ServerAdapter`, `ConflictResolver`, `AccountSync`, and `AuthFlow`.
   Written, checked, proved.
4. The delivery factory: `FactoryPlans`, `RiskGate`, `FactoryEvidence`,
   `DeliveryFactory`. Written, checked, proved.
5. Still to model: pack progress between tabs, entitlements, the window between a
   route's effect and its render.
6. Still to prove: nothing that a passing run checks, liveness excepted. Pack progress
   and entitlements would bring properties of their own.
