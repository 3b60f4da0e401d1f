---------------------------- MODULE FactoryEvidence ----------------------------
(* The planners of the delivery factory that weigh evidence:                  *)
(* pr-readiness-owner-queue.ts, release-evidence-guard.ts,                    *)
(* owner-command-center.ts and next-task-run-packet.ts. Each reads a list of  *)
(* results, with what else it needs, and says pass or gives its reasons; here *)
(* a planner passes when it would give none.                                  *)
(*                                                                            *)
(* The queue's special case of one stale pull request, options no caller may  *)
(* set (dryRun false, live mutations, auto-merge), what the queue reads out   *)
(* of texts (a missing title, an unknown state, the surfaces a title or body  *)
(* names, among them the launch's gate) and the callers' own lists of blocked *)
(* tasks, blocked surfaces and high-risk surfaces, which only refuse more,    *)
(* are left out.                                                              *)
EXTENDS FactoryPlans, RiskGate

CONSTANTS
  QueueSurfaces,     \* [Paths -> SUBSET surfaces], the queue's own path rules
  HardBlocked,       \* HARD_BLOCKED_SURFACES
  PolicyBlocked,     \* blockedSurfaces of the risk policy
  PolicyForbidden,   \* and the paths of its forbiddenChangedFiles
  RuntimeUi,         \* the paths isRuntimeUiPath holds for
  QueueChecks,       \* the CI checks the queue wants
  QueueEvidence,     \* its validation evidence for docs and tests,
  QueueUiEvidence,   \* and for runtime UI
  Forbidden,         \* paths of HARD_FORBIDDEN_PATH_RULES
  Protected,         \* and of PROTECTED_PATH_RULES
  Validation,        \* [Tasks -> SUBSET names], the validation of a task
  SupportedSurfaces, \* SUPPORTED_TASK_SURFACES of the next-task packet
  CenterValidation,  \* REQUIRED_VALIDATION_RESULTS
  GateTasks,         \* required_tasks of release gate G0
  DeferredTask,      \* FCT-070
  OwnerTask,         \* ACC-010
  GuardMaxAge, CenterMaxAge, PacketMaxAge \* evidenceMaxAgeHours of each

ASSUME EvidenceAssumption ==
  /\ DOMAIN QueueSurfaces = Paths
  /\ RuntimeUi \cup PolicyForbidden \cup Forbidden \cup Protected \subseteq Paths
  /\ QueueChecks \subseteq Checks
  /\ Checks \subseteq Nat \ {None}  \* names, which titles with them sort by
  /\ GateTasks \cup {DeferredTask, OwnerTask} \subseteq Tasks
  /\ {GuardMaxAge, CenterMaxAge, PacketMaxAge} \subseteq Nat \ {0}

-----------------------------------------------------------------------------
(* pr-readiness-owner-queue.ts                                                *)

\* firstEvidenceByName over the sorted list
FirstResult(items, name) ==
  CHOOSE i \in Named(items, name) : \A j \in Named(items, name) : i.text <= j.text

\* summarizeCiChecks and summarizeValidationEvidence, for one name
QueueResult(items, name) ==
  IF Named(items, name) = {} \/ FirstResult(items, name).noOp THEN "missing"
  ELSE FirstResult(items, name).status

\* summarizeRisk: no low risk for an empty change, none lower than the task's
QueueRisk(paths, taskRisk) ==
  Highest({taskRisk}
    \cup {"high" : p \in {q \in paths : QueueSurfaces[q] # {}}}
    \cup {"medium" : p \in paths \cap RuntimeUi}
    \cup IF paths = {} THEN {"high"} ELSE {})

\* getRequiredValidationEvidence
RequiredEvidence(paths) ==
  IF paths \cap RuntimeUi # {} THEN QueueUiEvidence ELSE QueueEvidence

\* determineReadiness. A merge blocker it does not name means needs_fix
QueueReadiness(pr, taskRisk, items, needsOwner, approved) ==
  LET surfaces == UNION {QueueSurfaces[p] : p \in pr.paths}
      ci == {QueueResult(items, c) : c \in QueueChecks}
      validation == {QueueResult(items, v) : v \in RequiredEvidence(pr.paths)}
  IN  IF \/ surfaces \cap HardBlocked # {}
         \/ pr.paths \cap PolicyForbidden # {}
         \/ (needsOwner \/ QueueRisk(pr.paths, taskRisk) = "high") /\ ~approved
         \/ "failed" \in ci
      THEN "blocked"
      ELSE IF \/ pr.draft
              \/ ci # {"passed"} \/ validation # {"passed"}
              \/ surfaces \cap PolicyBlocked # {}
      THEN "needs_fix" ELSE "ready_for_owner_review"

-----------------------------------------------------------------------------
(* What the guard and the command center share                                *)

\* prMatchesTask
MatchesTask(pr, t) == pr.task = t \/ pr.label = t \/ pr.title[1] = t

IsMerged(pr) == pr.merged # None

\* The pull requests of a snapshot that are the task's
PrsOf(prs, t) == {i \in DOMAIN prs : MatchesTask(prs[i], t)}

\* Every listed result has a state, and none is of a workflow that does nothing
AllMeanSomething(items) ==
  \A i \in items : ~i.noOp /\ i.status \in {"passed", "failed", "skipped", "missing"}

\* mutant of OnePassed: any result of the name that passed will do
OnePassedEver(items, name, now, maxAge) ==
  \E i \in Named(items, name) : /\ ~i.noOp
                               /\ i.status = "passed"
                               /\ i.text # NoText
                               /\ IsFresh(i.at, now, maxAge)

\* Exactly one result of the name, which passed and says how, not too old
OnePassed(items, name, now, maxAge) ==
  LET real == {i \in Named(items, name) : ~i.noOp}
  IN  \E i \in real : /\ real = {i}
                      /\ i.status = "passed"
                      /\ i.text # NoText
                      /\ IsFresh(i.at, now, maxAge)

-----------------------------------------------------------------------------
(* release-evidence-guard.ts                                                  *)

\* validateTargetTask
IsReleasable(status, t) ==
  /\ status[t] = "ready"
  /\ t \in Detailed
  /\ DependenciesVerified(status, t)
  /\ ~(Risk[t] = "high" /\ t \in AutoMergeable)

\* summarizePrAndMergeEvidence: commit is the merge commit the caller names
GuardFindsMerge(prs, t, commit) ==
  \E i \in PrsOf(prs, t) : /\ PrsOf(prs, t) = {i}
                           /\ ~prs[i].draft
                           /\ IsMerged(prs[i])
                           /\ prs[i].merged = commit

\* summarizeNamedEvidence
EvidencePasses(items, names, commit, now) ==
  /\ names # {} => items # {}
  /\ AllMeanSomething(items)
  /\ \A n \in names : /\ OnePassed(items, n, now, GuardMaxAge)
                      /\ \A i \in Named(items, n) : i.commit = commit

\* summarizeRollbackEvidence, of one item
RollbackPasses(rollback, commit, now) ==
  /\ rollback.status = "passed"
  /\ rollback.text # NoText
  /\ rollback.commit = commit
  /\ IsFresh(rollback.at, now, GuardMaxAge)

\* summarizeProtectedPathEvidence: the caller's risky paths and its own
GuardedPaths(paths, risky) == risky \cup (paths \cap (Protected \cup Forbidden))
PathsPass(paths, risky, allowed) ==
  /\ paths \cap Forbidden = {}
  /\ GuardedPaths(paths, risky) \subseteq allowed

GuardNeedsOwner(t, paths, claim) ==
  \/ RequiresOwner(t)
  \/ claim.risk = "high"
  \/ GuardedPaths(paths, claim.risky) # {}

\* planFactoryReleaseEvidenceGuard. claim is the risk classification of the
\* caller, evidence its lists of results
GuardPasses(status, prs, t, commit, paths, claim, evidence, allowed, approved, now) ==
  /\ status \in [Tasks -> Statuses]
  /\ ~HasCycle
  /\ t \in Tasks
  /\ IsReleasable(status, t)
  /\ paths # {}
  /\ claim.risk \in Risks
  /\ claim.paths = paths
  /\ PathsPass(paths, claim.risky, allowed)
  /\ GuardFindsMerge(prs, t, commit)
  /\ EvidencePasses(evidence.ci, Checks, commit, now)
  /\ EvidencePasses(evidence.validation, Validation[t], commit, now)
  /\ RollbackPasses(evidence.rollback, commit, now)
  /\ GuardNeedsOwner(t, paths, claim) => approved

\* mutant of UnlockedBy: the target's own status, not yet verified, counts
UnlockedAfter(status, t) ==
  {u \in Tasks : status[u] = "blocked_dependency" /\ DependenciesVerified(status, u)}

\* buildNextTaskUnlockProposals
UnlockedBy(status, t) ==
  {u \in Tasks : /\ status[u] = "blocked_dependency"
                 /\ t \in Deps[u]
                 /\ \A d \in Deps[u] \ {t} : status[d] = "verified"}

-----------------------------------------------------------------------------
(* owner-command-center.ts                                                    *)

\* validateMergedPrForTask: recorded is the evidence in the roadmap, pairs of a
\* pull request and a merge commit
HasMergeEvidence(status, recorded, prs, t) ==
  \E i \in PrsOf(prs, t) :
    /\ PrsOf(prs, t) = {i}
    /\ ~prs[i].draft
    /\ IsMerged(prs[i])
    /\ status[t] = "verified" => <<i, prs[i].merged>> \in recorded[t]

\* buildFactoryGateStatus
GateStatus(status, recorded, prs) ==
  LET valid == {t \in GateTasks : /\ status[t] \in {"verified", "ready"}
                                  /\ HasMergeEvidence(status, recorded, prs, t)}
  IN  IF valid # GateTasks THEN "blocked"
      ELSE IF \E t \in GateTasks : status[t] = "ready"
      THEN "pending_verification_sync" ELSE "complete"

\* summarizeRequiredEvidence: of whatever commit the results are
CenterEvidencePasses(items, names, now) ==
  /\ AllMeanSomething(items)
  /\ \A n \in names : OnePassed(items, n, now, CenterMaxAge)

\* summarizeReleaseEvidence
ReleaseEvidencePasses(items, now) ==
  /\ items # {}
  /\ \A i \in items : /\ ~i.noOp
                      /\ i.status = "passed"
                      /\ i.text # NoText
                      /\ IsFresh(i.at, now, CenterMaxAge)

CenterNeedsOwner(status, paths, claim) ==
  \/ claim.risk = "high"
  \/ claim.surface \in {"factory_control_plane", "roadmap_release_control_plane"}
  \/ claim.risky \cup (paths \cap (Protected \cup Forbidden)) # {}
  \/ \E t \in ReadyTasks(status) : Risk[t] = "high"

\* planOwnerCommandCenter, over the merged pull requests it is given
CenterPasses(status, recorded, prs, paths, claim, evidence, approved, now) ==
  /\ status \in [Tasks -> Statuses]
  /\ ~HasCycle
  /\ DeferredTask \notin AutoMergeable
  /\ \A i \in DOMAIN prs : \E t \in Tasks : MatchesTask(prs[i], t)
  /\ \A t \in GateTasks : status[t] \in {"verified", "ready"} =>
       HasMergeEvidence(status, recorded, prs, t)
  /\ CenterEvidencePasses(evidence.ci, Checks, now)
  /\ CenterEvidencePasses(evidence.validation, CenterValidation, now)
  /\ ReleaseEvidencePasses(evidence.release, now)
  /\ paths # {}
  /\ claim.risk \in Risks
  /\ claim.surface \in Surfaces
  /\ claim.paths = paths
  /\ paths \cap Forbidden = {}
  /\ CenterNeedsOwner(status, paths, claim) => approved
  /\ GateStatus(status, recorded, prs) # "blocked"
  /\ status[DeferredTask] = "deferred"
  /\ status[OwnerTask] = "blocked_human"

-----------------------------------------------------------------------------
(* next-task-run-packet.ts                                                    *)

\* mutant of FactoryReady: the packet is believed
FactoryWasReady(status, packet) ==
  /\ packet.verified # {} => GateTasks \subseteq packet.verified
  /\ status[DeferredTask] = "deferred"
  /\ status[OwnerTask] = "blocked_human"

\* isFactoryReady: the roadmap now, and what the packet of the command center
\* said when it was made
FactoryReady(status, packet) ==
  /\ \A t \in GateTasks : status[t] = "verified"
  /\ status[DeferredTask] = "deferred"
  /\ status[OwnerTask] = "blocked_human"
  /\ packet.verified # {} => GateTasks \subseteq packet.verified

\* summarizeCiChecks: every result listed must have passed
PacketCiPasses(items, now) ==
  /\ items # {}
  /\ \A i \in items : /\ ~i.noOp
                      /\ i.status = "passed"
                      /\ i.text # NoText
                      /\ IsFresh(i.at, now, PacketMaxAge)
  /\ \A c \in Checks \ {FullSuite} : Named(items, c) # {}

\* What is wrong with a candidate and stops every other one as well
StopsAll(candidate) ==
  \/ candidate.risk \notin Risks
  \/ candidate.surface \notin Surfaces
  \/ ~(candidate.deps \subseteq Tasks)
  \/ candidate.paths = {}
  \/ candidate.paths \cap (Forbidden \cup PolicyForbidden) # {}

\* evaluateCandidate: audit says that the product readiness audit was merged,
\* approved that the owner decided for the candidate, with evidence on both sides
IsSelectable(candidate, status, packet, audit, approved) ==
  /\ candidate.status \in {"ready", "proposed"}
  /\ candidate.surface \in SupportedSurfaces
  /\ FactoryReady(status, packet)
  /\ candidate.task \notin {DeferredTask, OwnerTask}
  /\ \A d \in candidate.deps : status[d] = "verified"
  /\ candidate.paths \cap candidate.forbidden = {}
  /\ candidate.surface \notin PolicyBlocked
  /\ candidate.surface = "product_ui" => audit
  /\ \/ candidate.risk = "high"
     \/ candidate.needsOwner
     \/ candidate.surface \in HighSurfaces
     => approved

\* planNextTaskRunPacket, the candidate selected: candidates by priority
SelectedCandidate(candidates, status, packet, ci, audit, approvals, now) ==
  LET selectable == {k \in DOMAIN candidates :
                       IsSelectable(candidates[k], status, packet, audit,
                                    candidates[k].task \in approvals)}
  IN  IF /\ status \in [Tasks -> Statuses]
         /\ ~HasCycle
         /\ packet.passes
         /\ packet.gate = "complete"
         /\ FactoryReady(status, packet)
         /\ PacketCiPasses(ci, now)
         /\ ~\E k \in DOMAIN candidates : StopsAll(candidates[k])
         /\ selectable # {}
      THEN CHOOSE k \in selectable : \A l \in selectable : k <= l
      ELSE None
=============================================================================
