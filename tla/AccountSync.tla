----------------------------- MODULE AccountSync -----------------------------
(***************************************************************************)
(* Devices bring their learning to one account: single writes to the server *)
(* adapter, whole snapshots through the integration harness of              *)
(* src/src/lib/account-persistence/sync-harness (load, resolve, preview,    *)
(* apply), and the route handlers of api-handler-harness, where a client    *)
(* previews a plan, confirms some of it and applies it later.               *)
(*                                                                          *)
(* Any device may write or sync between any two of these steps, and any     *)
(* request may come again.  The harness hands its account on to the next    *)
(* run; the handlers work on a copy they do not keep, and hand on the       *)
(* ledger of the apply requests they answered.                              *)
(***************************************************************************)
EXTENDS ConflictResolver

CONSTANTS
  Snapshots,      \* the snapshots the devices hold
  Previewed,      \* those a client previews and applies by the routes
  WordWrites, EventWrites, InterestWrites,  \* the single writes that arrive
  ApplyKeys,      \* the idempotency keys of apply requests
  Flaws,          \* what makes a request invalid
  MaxCalls        \* bound on the calls that arrive

\* What the events that arrive are made of
EventFields == {"eventId", "order", "slug", "result", "speed", "confidence", "usedHint",
                "createdAt", "pack", "key", "valid", "boxBefore", "boxAfter",
                "weakScoreBefore", "weakScoreAfter"}
Arriving == {m.event : m \in EventWrites}
            \cup UNION {Range(s.reviewEvents) : s \in Snapshots}
EventNames == {e.eventId : e \in Arriving}

\* The rows of dailyStats and packProgress
DayRow  == [stats: DailyStats, from: Seq(EventNames)]
PackRow == [reviewed: Nat, correct: Nat, from: Seq(EventNames)]

\* What the validators let through can be learned from
ASSUME EventsAssumption ==
  \A e \in Arriving :
    /\ DOMAIN e = EventFields
    /\ e.createdAt \in Nat /\ e.order \in Nat
    /\ e.valid => /\ EngineAnswer(e)
                  /\ e.slug \in Words /\ e.pack \in Packs \cup {None}
                  /\ DateOf(e.createdAt) \in Dates

ASSUME WordsAssumption ==
  /\ \A m \in WordWrites : m.word # None /\ (m.word.valid =>
       m.word.slug \in Words /\ m.word.savedAt \in Nat)
  /\ \A s \in Snapshots, w \in Words : LET word == s.savedWords[w] IN
       (word # None /\ word.valid) => word.slug = w /\ word.savedAt \in Nat

\* A snapshot is known by its id.  A browser stores an event once, so events of
\* one snapshot that share an eventId are copies.
ASSUME SnapshotsAssumption ==
  /\ Previewed \subseteq Snapshots
  /\ \A s, t \in Snapshots : s.id = t.id => s = t
  /\ \A s \in Snapshots :
       /\ s.reviewEvents \in Seq(Range(s.reviewEvents))
       /\ s.upgradeInterest \in Seq(Range(s.upgradeInterest))
       /\ \A e, f \in Range(s.reviewEvents) : e.eventId = f.eventId => e = f

ASSUME NamesAssumption ==
  /\ Slugs \in Seq(Words) /\ PackIds \in Seq(Packs)
  /\ None \notin Packs \cup Item \cup DayRow \cup PackRow

VARIABLES
  account,   \* the account in the adapter's store
  preview,   \* the preview the client holds
  ledger,    \* mockIdempotencyLedger
  reply,     \* the status of the last answer
  calls      \* the calls so far

vars == <<account, preview, ledger, reply, calls>>

\* An answer, to the call op about an entry, snapshot or request
Say(op, of, status) == reply' = [op |-> op, of |-> of, status |-> status]

-----------------------------------------------------------------------------
(* The adapter's single writes *)

Take(op, of, answer) ==
  /\ account' = answer.account
  /\ Say(op, of, answer.status)
  /\ UNCHANGED <<preview, ledger>>

WriteWord(m) == Take("word", m.word.slug, RecordSavedWord(account, m.word, m.key))
WriteEvent(m) ==
  Take("event", m.event.eventId, RecordReviewEvent(account, m.event, m.key))
WriteInterest(i) ==
  Take("interest", i.id, RecordUpgradeInterest(account, i))
WriteAudit == Take("audit", None, RecordSyncAudit(account))

-----------------------------------------------------------------------------
(* runServerPersistenceIntegrationHarness *)

\* The plan of a snapshot has the same id each time it is run
RunPlan(s) == Resolve(<<"run", s.id>>, s, account)

Harness(plan, s, accepted) ==
  IF CanApply(plan, accepted) THEN ApplyPlan(account, plan, s, accepted)
  ELSE [status |-> "skipped", account |-> account, applied |-> << >>]

Run(s) ==
  LET report == Harness(RunPlan(s), s, None) IN
  /\ account' = report.account
  /\ Say("run", s.id, report.status)
  /\ UNCHANGED <<preview, ledger>>

-----------------------------------------------------------------------------
(* The route handlers *)

\* validateRoute, requireMockAuthenticatedContext and the checks of the body
RefuseRequest(flaw) ==
  /\ Say("refuse", None, flaw)
  /\ UNCHANGED <<account, preview, ledger>>

\* handleAccountSyncPreviewMock
PreviewRoute(s) ==
  LET plan == Resolve(<<"preview", s.id>>, s, account) IN
  /\ preview' = [snapshot |-> s, plan |-> plan]
  /\ Say("preview", s.id, "ok")
  /\ UNCHANGED <<account, ledger>>

\* What a client may send: all of the preview confirmed, or one resolution of
\* it; the previewed plan, or the snapshot to be resolved again
Requests ==
  IF preview = None THEN {}
  ELSE [key: ApplyKeys, snapshot: {preview.snapshot},
        plan: {None, preview.plan},
        accepted: {None} \cup {{r.id} : r \in Range(preview.plan.resolutions)}]

\* The plan handleAccountSyncApplyMock makes: today's, under the previewed id
ApplyPlanOf(req) ==
  Resolve(IF req.plan # None THEN req.plan.planId ELSE <<"apply", req.key>>,
          req.snapshot, account)

\* mutant of ApplyOutcome: the confirmation is not handed on
ApplyOutcomeOfAll(req) == Harness(ApplyPlanOf(req), req.snapshot, None)

ApplyOutcome(req) == Harness(ApplyPlanOf(req), req.snapshot, req.accepted)

IsBlocked(req) ==
  \/ req.plan # None /\ req.plan.status = "blocked"
  \/ ~CanApply(ApplyPlanOf(req), req.accepted)

\* Only an answer is written into the ledger, a blocked plan or an application
Recorded(req, status, body) ==
  ledger' = [ledger EXCEPT ![req.key] =
    [request |-> req, status |-> status, body |-> body]]

\* handleAccountSyncApplyMock, its key new
ApplyNew(req) ==
  LET outcome == ApplyOutcome(req)
      body == [applied |-> outcome.applied, digest |-> Digest(outcome.account)] IN
  /\ ledger[req.key] = None
  /\ \/ /\ IsBlocked(req)
        /\ Recorded(req, "blocked_plan", None)
        /\ Say("apply", req.key, "blocked_plan")
     \/ /\ ~IsBlocked(req) /\ outcome.status = "rejected"
        /\ Say("apply", req.key, "invalid_request")
        /\ UNCHANGED ledger
     \/ /\ ~IsBlocked(req) /\ outcome.status = "accepted"
        /\ Recorded(req, "ok", body)
        /\ Say("apply", req.key, "ok")
  /\ UNCHANGED <<account, preview>>

\* Its key known: the ledger answers
ApplyAgain(req) ==
  LET memo == ledger[req.key] IN
  /\ memo # None
  /\ IF memo.request = req THEN Say("apply", req.key, memo.status)
     ELSE Say("apply", req.key, "idempotency_payload_conflict")
  /\ UNCHANGED <<account, preview, ledger>>

\* handleAccountSyncDigestMock and handleAccountSyncAuditMock
ReadRoutes ==
  /\ Say("read", None, "ok")
  /\ UNCHANGED <<account, preview, ledger>>

-----------------------------------------------------------------------------
Init ==
  /\ account = EmptyAccount
  /\ preview = None
  /\ ledger = [k \in ApplyKeys |-> None]
  /\ reply = [op |-> None, of |-> None, status |-> None]
  /\ calls = 0

Next ==
  /\ calls < MaxCalls /\ calls' = calls + 1
  /\ \/ \E m \in WordWrites : WriteWord(m)
     \/ \E m \in EventWrites : WriteEvent(m)
     \/ \E i \in InterestWrites : WriteInterest(i)
     \/ WriteAudit
     \/ \E s \in Snapshots : Run(s)
     \/ \E flaw \in Flaws : RefuseRequest(flaw)
     \/ \E s \in Previewed : PreviewRoute(s)
     \/ \E req \in Requests : ApplyNew(req) \/ ApplyAgain(req)
     \/ ReadRoutes

Spec == Init /\ [][Next]_vars
-----------------------------------------------------------------------------
(* Correctness *)

EventIds == {e.eventId : e \in Range(account.reviewEvents)}

EventsOfDay(events, d) == {i \in DOMAIN events : DateOf(events[i].createdAt) = d}
EventsOfPack(events, p) == {i \in DOMAIN events : events[i].pack = p}

\* from lists the eventIds of the events at some positions, in their order
Lists(from, events, at) ==
  /\ Len(from) = Cardinality(at)
  /\ \A i \in at : from[Cardinality({j \in at : j <= i})] = events[i].eventId

HeldOnce(events) ==
  \A i, j \in DOMAIN events :
    (events[i].eventId = events[j].eventId \/ events[i].key = events[j].key) => i = j

StateFollows(events, item, w) ==
  IF item = None THEN EventsOn(events, w) = {}
  ELSE item = Recompute(NewItem(item.createdAt), events, EventsOn(events, w))

RowFollows(events, row, at) ==
  IF row = None THEN at = {}
  ELSE Lists(row.from, events, at)

FollowsEvents(acc) ==
  LET events == acc.reviewEvents IN
  /\ HeldOnce(events)
  /\ \A w \in Words : StateFollows(events, acc.reviewState[w], w)
  /\ \A d \in Dates : LET row == acc.dailyStats[d]  on == EventsOfDay(events, d) IN
       RowFollows(events, row, on) /\ (row # None => row.stats.reviewed = Cardinality(on))
  /\ \A p \in Packs : LET row == acc.packProgress[p]  in == EventsOfPack(events, p) IN
       RowFollows(events, row, in) /\ (row # None => row.reviewed = Cardinality(in))

\* Evidence is held once, whatever was retried, merged or run again: no two
\* events of the account share an eventId or a key, and the account is what
\* its events make of it.  The review state of a word is the engine's replay of
\* its events; the rollups list and count them; nothing a snapshot claims about
\* states, days or packs got in.
AccountFollowsEvents == FollowsEvents(account)

Effective(plan) == {r \in Range(plan.resolutions) :
  r.action \in {"import_to_server", "merge_event_evidence", "attribution_only"}}

\* The write a resolution asks for is on the account
IsDone(acc, r) ==
  /\ r.action = "import_to_server" => acc.savedWords[r.of] # None
  /\ r.action = "merge_event_evidence" =>
       \E e \in Range(acc.reviewEvents) : e.eventId = r.of
  /\ r.action = "attribution_only" => r.of \in Range(acc.upgradeInterest)

\* The step runs s
Ran(s) == reply'.op = "run" /\ reply'.of = s.id

Untimed(item) == [item EXCEPT !.createdAt = 0]

\* "no partial plan state is committed": a run leaves the account as it was, or
\* carries out its whole plan, and the review states are then those the plan
\* proposed.
RunIsAllOrNothing ==
  [][\A s \in Snapshots : Ran(s) =>
       \/ account' = account
       \/ /\ reply'.status = "accepted"
          /\ \A r \in Effective(RunPlan(s)) : IsDone(account', r)
          /\ \A r \in Range(RunPlan(s).resolutions) :
               r.proposed # None =>
                 Untimed(account'.reviewState[r.of]) = Untimed(r.proposed)]_vars

Learning(acc) == <<acc.savedWords, acc.reviewState, acc.reviewEvents,
                   acc.dailyStats, acc.packProgress, acc.upgradeInterest>>

\* All that the snapshot brings is there
IsSynced(s) ==
  /\ \A w \in Words : s.savedWords[w] # None => account.savedWords[w] # None
  /\ \A e \in Range(s.reviewEvents) : e.eventId \in EventIds
  /\ \A i \in Range(s.upgradeInterest) : i.id \in Range(account.upgradeInterest)

\* "Re-running the same harness input must not duplicate saved words, review
\* events, daily stats, or pack progress", however much was written between.
RerunAddsNothing ==
  [][\A s \in Snapshots :
       (Ran(s) /\ IsSynced(s)) => Learning(account') = Learning(account)]_vars

\* "Mastery must come through delayed review-event evidence": when a device's
\* snapshot was accepted, what it calls mastered is mastered on the account as
\* well, by five correct answers the account holds; a label alone is refused.
MasteryAgrees ==
  [][\A s \in Snapshots : (Ran(s) /\ reply'.status = "accepted") =>
       \A w \in Words :
         (s.reviewState[w] \notin {None, Malformed} /\ s.reviewState[w].box = 5) =>
           /\ account'.reviewState[w] # None
           /\ account'.reviewState[w].mastery = "Mastered"
           /\ Cardinality(CorrectIn(account'.reviewEvents,
                                    EventsOn(account'.reviewEvents, w))) >= 5]_vars

\* What an apply request carried out of a previewed plan is what the client
\* saw and confirmed, whatever the account became since the preview.
AppliedWasPreviewed ==
  \A k \in ApplyKeys :
    (ledger[k] # None /\ ledger[k].body # None) =>
      LET req == ledger[k].request IN
      \A r \in Range(ledger[k].body.applied) :
        /\ IsAccepted(req.accepted, r)
        /\ req.plan # None => \E shown \in Effective(req.plan) : shown.id = r.id

\* "Replaying the same key with the same payload is a no-op duplicate": the
\* resolver finds nothing to block in a snapshot the account has already.
SyncedIsNotBlocked ==
  \A s \in Snapshots :
    (reply.op = "run" /\ reply.of = s.id /\ reply.status = "accepted" /\ IsSynced(s)) => RunPlan(s).status # "blocked"
==============================================================================
