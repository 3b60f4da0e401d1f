----------------------------- MODULE FactoryPlans -----------------------------
(* Three planners of the delivery factory: roadmap-issue-materializer.ts,       *)
(* draft-pr-orchestrator.ts and ci-repair-loop.ts of src/lib/factory. Each    *)
(* takes a snapshot of the roadmap and of the repository and returns a plan;  *)
(* none changes anything, the operator who follows it does (DeliveryFactory). *)
(*                                                                            *)
(* A task is the number of its FCT id, so tasks are ordered as ids are. What  *)
(* an issue, a branch or a pull request says of itself (task, key, label,     *)
(* title) is the task it names, or None: people edit titles and labels, and a *)
(* snapshot need not carry a field. edition is the edition of the roadmap     *)
(* entry a text was written from.                                             *)
EXTENDS Integers, FiniteSets, Sequences

CONSTANTS
  Tasks,         \* the tasks of the roadmap
  Deps,          \* [Tasks -> SUBSET Tasks], depends_on
  Risk,          \* [Tasks -> Risks]
  HumanGated,    \* the tasks with human_gate
  Detailed,      \* the tasks with a title, deliverables, acceptance, validation
  AutoMergeable, \* the tasks with auto_merge_eligible
  AttemptLimit   \* DEFAULT_REPAIR_ATTEMPT_LIMIT

Risks == {"low", "medium", "high"}
None == 0

ASSUME RoadmapAssumption ==
  /\ Tasks \subseteq Nat \ {None}
  /\ IsFiniteSet(Tasks)
  /\ Deps \in [Tasks -> SUBSET Tasks]
  /\ Risk \in [Tasks -> Risks]
  /\ HumanGated \cup Detailed \cup AutoMergeable \subseteq Tasks
ASSUME LimitAssumption == AttemptLimit \in Nat \ {0}

Statuses == {"done", "verified", "in_review", "ready", "blocked_dependency",
             "blocked_human", "in_progress", "pr_open", "failed", "deferred"}

ReadyTasks(status) == {t \in Tasks : status[t] = "ready"}

DependenciesVerified(status, t) == \A d \in Deps[t] : status[d] = "verified"

\* A cycle is a set of tasks each of which depends on one of the set
HasCycle == \E S \in SUBSET Tasks \ {{}} : \A t \in S : Deps[t] \cap S # {}

RequiresOwner(t) == Risk[t] = "high" \/ t \in HumanGated

-----------------------------------------------------------------------------
(* Lists are searched in the order of their sort keys, None before any task   *)

SortsBefore(a, b) ==
  \E k \in DOMAIN a : a[k] < b[k] /\ \A l \in 1..(k - 1) : a[l] = b[l]

\* find() over a sorted list, for one kind of match after the other: hits[k] are
\* the items that match in the k-th way, key[i] is what the i-th sorts by
FirstMatch(hits, key) ==
  IF \A k \in DOMAIN hits : hits[k] = {} THEN None
  ELSE LET k == CHOOSE n \in DOMAIN hits :
                  hits[n] # {} /\ \A l \in 1..(n - 1) : hits[l] = {}
       IN  CHOOSE i \in hits[k] : \A j \in hits[k] :
             SortsBefore(key[i], key[j]) \/ (key[i] = key[j] /\ i <= j)

-----------------------------------------------------------------------------
(* roadmap-issue-materializer.ts                                              *)

\* One wrong ready task and no issue is planned at all
CanMaterialize(status) ==
  /\ Tasks # {}
  /\ status \in [Tasks -> Statuses]
  /\ ~HasCycle
  /\ \A t \in ReadyTasks(status) : DependenciesVerified(status, t)

\* The issues by what names the task: its id, its key, a label, the title
IssuesNaming(issues, t) ==
  <<{i \in DOMAIN issues : issues[i].task = t},
    {i \in DOMAIN issues : issues[i].key = t},
    {i \in DOMAIN issues : issues[i].label = t},
    {i \in DOMAIN issues : issues[i].title = t}>>

\* mutant of ExistingIssue: closed issues are not looked through
ExistingOpenIssue(issues, t) ==
  LET hits == [k \in 1..4 |-> {i \in IssuesNaming(issues, t)[k] : issues[i].open}]
      key == [i \in DOMAIN issues |->
                <<issues[i].task, issues[i].key, issues[i].title>>]
  IN  FirstMatch(hits, key)

\* findExistingIssue, open issues first
ExistingIssue(issues, t) ==
  LET key == [i \in DOMAIN issues |->
                <<IF issues[i].open THEN 0 ELSE 1,
                  issues[i].task, issues[i].key, issues[i].title>>]
  IN  FirstMatch(IssuesNaming(issues, t), key)

\* shouldSkipExistingIssue
IsCurrentIssue(issue, t, edition) ==
  issue.open => /\ issue.title = t
                /\ issue.edition = edition
                /\ issue.label = t

IssueAction(issues, t, edition) ==
  LET i == ExistingIssue(issues, t) IN
  IF i = None THEN "create"
  ELSE IF IsCurrentIssue(issues[i], t, edition) THEN "skip" ELSE "update"

\* buildIssuePlan, as the issue it makes of one first opened for the task made
PlannedIssue(t, edition, made) ==
  [task |-> t, key |-> t, label |-> t, title |-> t, edition |-> edition,
   open |-> TRUE, made |-> made]

-----------------------------------------------------------------------------
(* What the two planners of pull requests have in common. An attempt is 0 for *)
(* a task's draft PR and n for its n-th repair; names and keys are pairs      *)
(* <<task, attempt>>, a draft branch's name also has the slug of the title.   *)

NoKey == <<None, None>>
NoName == <<None, None, None>>

\* mutant of ExistingBranch: branches are found by their names alone
ExistingBranchByName(branches, plan) ==
  FirstMatch(<<{i \in DOMAIN branches : branches[i].name = plan.branch}>>,
             [i \in DOMAIN branches |-> <<i>>])

\* findExistingBranchMatch
ExistingBranch(branches, plan) ==
  LET hits == <<{i \in DOMAIN branches : branches[i].name = plan.branch},
                {i \in DOMAIN branches : /\ branches[i].task = plan.task
                                         /\ branches[i].attempt = plan.attempt},
                {i \in DOMAIN branches : branches[i].key = plan.key}>>
      key == [i \in DOMAIN branches |->
                <<branches[i].name[1], branches[i].name[2], branches[i].name[3],
                  branches[i].task, branches[i].key[1], branches[i].key[2]>>]
  IN  FirstMatch(hits, key)

\* findExistingDraftPrMatch
ExistingPr(prs, plan) ==
  LET hits == <<{i \in DOMAIN prs : /\ prs[i].task = plan.task
                                    /\ prs[i].attempt = plan.attempt},
                {i \in DOMAIN prs : prs[i].key = plan.key},
                {i \in DOMAIN prs : prs[i].branch = plan.branch},
                {i \in DOMAIN prs : prs[i].label = plan.task},
                {i \in DOMAIN prs : prs[i].title = plan.title}>>
      key == [i \in DOMAIN prs |->
                <<prs[i].task, prs[i].key[1], prs[i].key[2],
                  prs[i].branch[1], prs[i].branch[2], prs[i].branch[3],
                  prs[i].title[1], prs[i].title[2], prs[i].title[3]>>]
  IN  FirstMatch(hits, key)

\* branchMatchConflicts
BranchConflicts(b, plan) ==
  \/ ~b.active
  \/ b.name # plan.branch
  \/ b.task \notin {None, plan.task}
  \/ b.task # None /\ b.attempt # plan.attempt
  \/ b.key \notin {NoKey, plan.key}

\* A match by the label alone: the one that may have another title
MatchedByLabel(p, plan) ==
  /\ ~(p.task = plan.task /\ p.attempt = plan.attempt)
  /\ p.key # plan.key
  /\ p.branch # plan.branch
  /\ p.label = plan.task

\* draftPrMatchConflicts
PrConflicts(p, plan) ==
  \/ ~p.open
  \/ ~p.draft
  \/ p.autoMerge
  \/ p.task \notin {None, plan.task}
  \/ p.task # None /\ p.attempt # plan.attempt
  \/ p.key \notin {NoKey, plan.key}
  \/ p.branch \notin {NoName, plan.branch}
  \/ ~MatchedByLabel(p, plan) /\ p.title \notin {NoName, plan.title}

\* determineAction
PrAction(branches, prs, plan) ==
  LET b == ExistingBranch(branches, plan)
      p == ExistingPr(prs, plan)
  IN  IF \/ b # None /\ BranchConflicts(branches[b], plan)
         \/ p # None /\ PrConflicts(prs[p], plan) THEN "block"
      ELSE IF p = None THEN "create"
      ELSE IF /\ prs[p].title = plan.title
              /\ prs[p].edition = plan.edition
              /\ prs[p].label = plan.task THEN "skip" ELSE "update"

\* findDuplicateExistingIdempotencyKeys
AmbiguousKeys(list) ==
  \E i, j \in DOMAIN list : i # j /\ list[i].key # NoKey /\ list[i].key = list[j].key

-----------------------------------------------------------------------------
(* draft-pr-orchestrator.ts                                                   *)

IsLaterTask(t) == t >= 50

\* validateSelectedTask
IsPlannable(status, t) ==
  /\ status[t] = "ready"
  /\ t \in Detailed
  /\ DependenciesVerified(status, t)
  /\ ~(Risk[t] = "high" /\ t \in AutoMergeable)

CanOrchestrate(status, branches, prs, t) ==
  /\ status \in [Tasks -> Statuses]
  /\ ~HasCycle
  /\ ~AmbiguousKeys(branches)
  /\ ~AmbiguousKeys(prs)
  /\ t \in Tasks
  /\ ~IsLaterTask(t)
  /\ IsPlannable(status, t)

\* buildDraftPrPlan: entry is the roadmap entry, with its title, slug and edition
DraftPlan(t, entry) ==
  [task |-> t, attempt |-> 0, key |-> <<t, 0>>, branch |-> <<t, 0, entry.slug>>,
   title |-> <<t, 0, entry.title>>, edition |-> entry.edition]

\* The branch and the pull request a plan describes
PlannedBranch(plan) ==
  [name |-> plan.branch, task |-> plan.task, attempt |-> plan.attempt,
   key |-> plan.key, active |-> TRUE]

PlannedPr(plan) ==
  [task |-> plan.task, attempt |-> plan.attempt, key |-> plan.key,
   branch |-> plan.branch, label |-> plan.task, title |-> plan.title,
   edition |-> plan.edition, open |-> TRUE, draft |-> TRUE, autoMerge |-> FALSE]

-----------------------------------------------------------------------------
(* ci-repair-loop.ts                                                          *)

RepairedTask == 50
FollowOnTask == 60

\* validateCiTimestamp: whole hours, so an evidence may be almost an hour older
IsFresh(at, now, maxAge) == at <= now /\ now - at <= maxAge

\* KNOWN_CHECK_CONCLUSIONS
KnownConclusions == {"success", "failure", "cancelled", "timed_out", "skipped",
                     "neutral", "action_required", "unknown"}

\* summarizeCiEvidence: a completed, failed run of which one check and one job
\* failed, the job that check's, of a class the loop repairs
RepairTarget(run, now, maxAge) ==
  LET failed == {c \in DOMAIN run.checks : run.checks[c] = "failure"} IN
  IF /\ ~run.noOp
     /\ run.status = "completed"
     /\ run.conclusion = "failure"
     /\ IsFresh(run.at, now, maxAge)
     /\ \A c \in DOMAIN run.checks : run.checks[c] \in KnownConclusions
     /\ \E c \in failed : failed = {c} /\ run.failedJobs = {c}
     /\ failed \subseteq run.repairable
  THEN CHOOSE c \in failed : TRUE ELSE None

\* nextAttemptNumber
NextAttempt(attempts) ==
  IF attempts = <<>> THEN 1
  ELSE 1 + (CHOOSE n \in {attempts[i].number : i \in DOMAIN attempts} :
              \A i \in DOMAIN attempts : attempts[i].number <= n)

CanRepair(status, branches, prs, attempts, run, now, maxAge) ==
  /\ status \in [Tasks -> Statuses]
  /\ ~HasCycle
  /\ ~AmbiguousKeys(branches)
  /\ ~AmbiguousKeys(prs)
  /\ {RepairedTask, FollowOnTask} \subseteq Tasks
  /\ IsPlannable(status, RepairedTask)
  /\ Deps[RepairedTask] # {}
  /\ status[FollowOnTask] = "blocked_dependency"
  /\ Len(attempts) < AttemptLimit
  /\ RepairTarget(run, now, maxAge) # None

\* buildRepairPlan
RepairPlan(attempt, check) ==
  [task |-> RepairedTask, attempt |-> attempt,
   key |-> <<RepairedTask, attempt>>, branch |-> <<RepairedTask, attempt, 0>>,
   title |-> <<RepairedTask, attempt, check>>, edition |-> check]
=============================================================================
