---------------------------- MODULE DeliveryFactory ----------------------------
(* The delivery factory at work. Its planners only ever plan; here an operator *)
(* takes a snapshot, asks a planner and follows the plan, one write at a time, *)
(* and may stop after any of them: what was written is all that the next plan  *)
(* can know. Around it people edit what the planners match by, runs fail or    *)
(* mean nothing, and results grow old.                                         *)
(*                                                                             *)
(* A pull request has what FactoryPlans says of one, and its changed paths,    *)
(* its head commit, its merge commit, and what it was opened for (a task and   *)
(* an attempt), which no planner can see; so has an issue the task it was      *)
(* opened for.                                                                 *)
EXTENDS FactoryEvidence

CONSTANTS
  Changed,      \* [Tasks -> SUBSET Paths], the change each task asks for
  Surface,      \* [Tasks -> Surfaces]
  Pushed,       \* the paths a later push may add
  Names,        \* every name a run reports on, the rollback rehearsal included
  Rollback,     \* its name
  FailureSets,  \* what may fail in one run
  Candidates,   \* the backlog candidates, by priority
  Audited,      \* the product readiness audit was merged
  RepairMaxAge, \* evidenceMaxAgeHours of the repair loop
  TickHours,    \* the hours that pass at once, enough for a result to be stale
  MaxEdits, MaxMishaps \* bounds: edits by hand; with bad runs and hours, in all

ASSUME FactoryAssumption ==
  /\ Changed \in [Tasks -> SUBSET Paths]
  /\ Rollback \in Names
  /\ FailureSets \subseteq SUBSET Names
  /\ DOMAIN Candidates \subseteq Nat \ {None}
  /\ RepairMaxAge \in Nat \ {0} /\ TickHours \in Nat \ {0}
  /\ Checks \cup RoadmapChecks \cup QueueEvidence \cup QueueUiEvidence
       \cup CenterValidation \cup UNION {Validation[t] : t \in Tasks} \subseteq Names

VARIABLES
  status, entries, recorded,  \* the roadmap: statuses, texts, evidence
  issues, branches, prs,      \* the repository
  commits, reports,           \* commits made and what the runs reported
  attempts,                   \* the repair attempts recorded
  approvals, allowed,         \* tasks and paths the owner approved
  packet, selected,           \* the command center's packet, the next task
  now, edits, faults

vars == <<status, entries, recorded, issues, branches, prs, commits, reports,
          attempts, approvals, allowed, packet, selected, now, edits, faults>>
roadmap == <<status, entries, recorded>>
repository == <<issues, branches, prs>>
owner == <<approvals, allowed>>
outcome == <<packet, selected>>

Calm == edits + faults + now \div TickHours < MaxMishaps

NoPacket == [passes |-> FALSE, gate |-> "blocked", verified |-> {}]

Init ==
  /\ status = [t \in Tasks |->
                 IF t = DeferredTask THEN "deferred"
                 ELSE IF t = OwnerTask THEN "blocked_human"
                 ELSE IF Deps[t] = {} THEN "ready" ELSE "blocked_dependency"]
  /\ entries = [t \in Tasks |-> [title |-> 0, slug |-> 0, edition |-> 0]]
  /\ recorded = [t \in Tasks |-> {}]
  /\ issues = <<>> /\ branches = <<>> /\ prs = <<>>
  /\ commits = 0 /\ reports = {} /\ attempts = <<>>
  /\ approvals = {} /\ allowed = {}
  /\ packet = NoPacket /\ selected = None
  /\ now = 0 /\ edits = 0 /\ faults = 0

-----------------------------------------------------------------------------
(* Issues, branches and pull requests                                         *)

IssueDue(t) ==
  /\ t \in ReadyTasks(status)
  /\ IssueAction(issues, t, entries[t].edition) # "skip"
  /\ CanMaterialize(status)
NoIssueDue == \A t \in Tasks : ~IssueDue(t)

Materialize(t) ==
  /\ IssueDue(t)
  /\ \/ /\ IssueAction(issues, t, entries[t].edition) = "create"
        /\ issues' = Append(issues, PlannedIssue(t, entries[t].edition, t))
     \/ /\ IssueAction(issues, t, entries[t].edition) = "update"
        /\ issues' = [issues EXCEPT ![ExistingIssue(issues, t)] =
                        PlannedIssue(t, entries[t].edition, @.made)]
  /\ UNCHANGED <<roadmap, branches, prs, commits, reports, attempts, owner,
                 outcome, now, edits, faults>>

OpenedPr(pr, t) ==
  [task |-> pr.task, attempt |-> pr.attempt, key |-> pr.key,
   branch |-> pr.branch, label |-> pr.label, title |-> pr.title,
   edition |-> pr.edition, open |-> pr.open, draft |-> pr.draft,
   autoMerge |-> pr.autoMerge, paths |-> Changed[t], head |-> commits + 1,
   merged |-> None, made |-> <<t, pr.attempt>>]

\* One write of a plan: the branch first, the pull request on it next time
Follow(plan) ==
  LET action == PrAction(branches, prs, plan)
      p == ExistingPr(prs, plan)
  IN  \/ /\ action = "create" /\ ExistingBranch(branches, plan) = None
         /\ branches' = Append(branches, PlannedBranch(plan))
         /\ UNCHANGED <<prs, commits>>
      \/ /\ action = "create" /\ ExistingBranch(branches, plan) # None
         /\ prs' = Append(prs, OpenedPr(PlannedPr(plan), plan.task))
         /\ commits' = commits + 1
         /\ UNCHANGED branches
      \/ /\ action = "update"
         /\ prs' = [prs EXCEPT ![p].title = plan.title,
                               ![p].edition = plan.edition,
                               ![p].label = plan.task]
         /\ UNCHANGED <<branches, commits>>

Orchestrate(t) ==
  /\ CanOrchestrate(status, branches, prs, t)
  /\ \E plan \in {DraftPlan(t, entries[t])} : Follow(plan)
  /\ UNCHANGED <<roadmap, issues, reports, attempts, owner, outcome, now,
                 edits, faults>>

\* The run of a report as the repair loop reads it
CiRun(r) ==
  [noOp |-> r.noOp, status |-> "completed", at |-> r.at,
   conclusion |-> IF r.failed \cap Checks = {} THEN "success" ELSE "failure",
   checks |-> [c \in Checks |-> IF c \in r.failed THEN "failure" ELSE "success"],
   failedJobs |-> r.failed \cap Checks, repairable |-> Checks]

\* run is what the loop reads of a report
Repair(run) ==
  /\ CanRepair(status, branches, prs, attempts, run, now, RepairMaxAge)
  /\ \E plan \in {RepairPlan(NextAttempt(attempts),
                             RepairTarget(run, now, RepairMaxAge))} : Follow(plan)
  /\ UNCHANGED <<roadmap, issues, reports, attempts, owner, outcome, now,
                 edits, faults>>

RecordAttempt(n) ==
  /\ \E i \in DOMAIN prs : prs[i].made = <<RepairedTask, n>> /\ n # 0
  /\ \A i \in DOMAIN attempts : attempts[i].number # n
  /\ attempts' = Append(attempts, [number |-> n])
  /\ UNCHANGED <<roadmap, repository, commits, reports, owner, outcome, now,
                 edits, faults>>

\* A later task the orchestrator does not plan for
OpenByHand(t) ==
  /\ IsLaterTask(t) /\ t \in GateTasks
  /\ status[t] = "ready"
  /\ \A i \in DOMAIN prs : prs[i].made[1] # t
  /\ prs' = Append(prs, OpenedPr(
              [task |-> None, attempt |-> 0, key |-> NoKey,
               branch |-> <<t, 0, 1>>, label |-> t, title |-> <<t, 0, 1>>,
               edition |-> 0, open |-> TRUE, draft |-> TRUE,
               autoMerge |-> FALSE], t))
  /\ commits' = commits + 1
  /\ UNCHANGED <<roadmap, issues, branches, reports, attempts, owner, outcome,
                 now, edits, faults>>

-----------------------------------------------------------------------------
(* Runs, and the lists of results made from them                              *)

ReportsOf(c) == {r \in reports : r.commit = c}
LatestOf(rs) == {r \in rs : \A q \in rs : q.text <= r.text}

Results(rs) ==
  {[name |-> n, status |-> IF n \in r.failed THEN "failed" ELSE "passed",
    text |-> r.text, commit |-> r.commit, at |-> r.at, noOp |-> r.noOp] :
     r \in rs, n \in Names}

\* A list is of the results of all the runs of a commit, or of its last run
Listings(c) == {Results(ReportsOf(c)), Results(LatestOf(ReportsOf(c)))}

\* The heads of open pull requests and the last merge
RunnableCommits ==
  LET merges == {prs[i].merged : i \in DOMAIN prs} \ {None}
  IN  {prs[i].head : i \in {j \in DOMAIN prs : prs[j].open}}
        \cup {c \in merges : \A d \in merges : d <= c}

\* The last run of the commit was real, is fresh, and none of the names failed
LastRunPassed(c, names) ==
  \E r \in LatestOf(ReportsOf(c)) :
    ~r.noOp /\ r.failed \cap names = {} /\ IsFresh(r.at, now, GuardMaxAge)

IsGreen(c) == LastRunPassed(c, Names)

Reported(c, failed, noOp) ==
  reports' = reports \cup {[commit |-> c, failed |-> failed, noOp |-> noOp,
                            at |-> now, text |-> Cardinality(reports) + 1]}

RunPasses(c) ==
  /\ ~IsGreen(c)
  /\ Reported(c, {}, FALSE)
  /\ UNCHANGED <<roadmap, repository, commits, attempts, owner, outcome, now,
                 edits, faults>>

\* A run that fails, or one of a workflow that does nothing and passes
RunMisleads(c, failed, noOp) ==
  /\ Calm
  /\ faults' = faults + 1
  /\ Reported(c, failed, noOp)
  /\ UNCHANGED <<roadmap, repository, commits, attempts, owner, outcome, now,
                 edits>>

-----------------------------------------------------------------------------
(* Review, merge and verification, of a pull request i that is the task's     *)

Claim(i, t) ==
  [risk |-> ClassifyRisk(prs[i].paths, Surface[t]), paths |-> prs[i].paths,
   risky |-> RiskyPaths(prs[i].paths, Surface[t]), surface |-> Surface[t]]

\* The owner reads the change as it is now, and never allows a forbidden path
Approve(i, t) ==
  /\ ~RequiresOwner(t) => Claim(i, t).risk = "high"
  /\ t \in approvals => ~(prs[i].paths \ Forbidden \subseteq allowed)
  /\ approvals' = approvals \cup {t}
  /\ allowed' = allowed \cup (prs[i].paths \ Forbidden)
  /\ UNCHANGED <<roadmap, repository, commits, reports, attempts, outcome, now,
                 edits, faults>>

\* No longer a draft once the quality gate passes
MarkReady(i, t) ==
  /\ prs[i].open /\ prs[i].draft
  /\ {items \in Listings(prs[i].head) :
        QualityGatePasses(Claim(i, t).risk, Surface[t], prs[i].paths, items,
                          t \in approvals)} # {}
  /\ prs' = [prs EXCEPT ![i].draft = FALSE]
  /\ UNCHANGED <<roadmap, issues, branches, commits, reports, attempts, owner,
                 outcome, now, edits, faults>>

\* The owner merges what the queue calls ready
Merge(i, t) ==
  /\ prs[i].open
  /\ "ready_for_owner_review" \in
       {QueueReadiness(prs[i], Risk[t], items, t \in HumanGated,
                       t \in approvals) :
          items \in Listings(prs[i].head)}
  /\ prs' = [prs EXCEPT ![i].open = FALSE, ![i].merged = commits + 1]
  /\ commits' = commits + 1
  /\ UNCHANGED <<roadmap, issues, branches, reports, attempts, owner, outcome,
                 now, edits, faults>>

\* The verification sync: the proposals of a passing guard, put in the roadmap
Verify(i, t) ==
  /\ IsMerged(prs[i])
  /\ {items \in Listings(prs[i].merged) :
        \E rollback \in Named(items, Rollback) :
          GuardPasses(status, prs, t, prs[i].merged, prs[i].paths, Claim(i, t),
                      [ci |-> items, validation |-> items, rollback |-> rollback],
                      allowed, t \in approvals, now)} # {}
  /\ status' = [u \in Tasks |-> IF u = t THEN "verified"
                                ELSE IF u \in UnlockedBy(status, t) THEN "ready"
                                ELSE status[u]]
  /\ recorded' = [recorded EXCEPT ![t] = @ \cup {<<i, prs[i].merged>>}]
  /\ UNCHANGED <<entries, repository, commits, reports, attempts, owner,
                 outcome, now, edits, faults>>

\* The command center over the last change, and its packet when it passes
Publish(i, t) ==
  /\ IsMerged(prs[i])
  /\ packet' = [passes |-> TRUE, gate |-> GateStatus(status, recorded, prs),
                verified |-> {u \in GateTasks : status[u] = "verified"}]
  /\ packet' # packet
  /\ {items \in Listings(prs[i].merged) :
        CenterPasses(status, recorded, prs, prs[i].paths, Claim(i, t),
                     [ci |-> items, validation |-> items,
                      release |-> Named(items, Rollback)],
                     t \in approvals, now)} # {}
  /\ UNCHANGED <<roadmap, repository, commits, reports, attempts, owner,
                 selected, now, edits, faults>>

\* The next task, from the packet as it was published
SelectNext(c) ==
  /\ selected = None
  /\ \E items \in Listings(c) :
       selected' = SelectedCandidate(Candidates, status, packet, items, Audited, approvals, now)
  /\ selected' # None
  /\ UNCHANGED <<roadmap, repository, commits, reports, attempts, owner,
                 packet, now, edits, faults>>

-----------------------------------------------------------------------------
(* People and time                                                            *)

\* A pull request or an issue loses one of the marks the planners match by
Blank == [task |-> None, key |-> NoKey, label |-> None, title |-> NoName]

StripPr(i, mark) == prs' = [prs EXCEPT ![i][mark] = Blank[mark]]

StripIssue(i, mark) == issues' = [issues EXCEPT ![i][mark] = None]

Marks == {"task", "key", "label", "title"}

\* Issues of ready tasks, which a plan will look for, and open pull requests
EditIssues ==
  \E i \in {n \in DOMAIN issues : issues[n].made \in ReadyTasks(status)} :
    /\ \/ \E mark \in Marks : StripIssue(i, mark)
       \/ issues' = [issues EXCEPT ![i].open = FALSE]
    /\ issues' # issues
    /\ UNCHANGED <<prs, commits>>

EditPrs ==
  \E i \in {n \in DOMAIN prs : prs[n].open} :
    /\ \/ /\ \/ \E mark \in Marks : StripPr(i, mark)
             \/ prs' = [prs EXCEPT ![i].open = FALSE]
          /\ UNCHANGED commits
       \/ /\ \E p \in Pushed \ prs[i].paths :
                prs' = [prs EXCEPT ![i].paths = @ \cup {p}, ![i].head = commits + 1]
          /\ commits' = commits + 1
    /\ prs' # prs
    /\ UNCHANGED issues

\* The entry of a ready task is reworded or renamed, or a status set by hand
EditRoadmap ==
  \/ /\ \E t \in ReadyTasks(status) :
          \/ entries' = [entries EXCEPT ![t].edition = @ + 1]
          \/ entries' = [entries EXCEPT ![t].edition = @ + 1,
                                        ![t].title = @ + 1, ![t].slug = @ + 1]
     /\ UNCHANGED status
  \/ /\ \E t \in GateTasks, s \in {"in_progress", "ready"} :
          status[t] # s /\ status' = [status EXCEPT ![t] = s]
     /\ UNCHANGED entries

Edit ==
  /\ Calm /\ edits < MaxEdits
  /\ edits' = edits + 1
  /\ \/ (EditIssues \/ EditPrs) /\ UNCHANGED <<status, entries>>
     \/ EditRoadmap /\ UNCHANGED <<issues, prs, commits>>
  /\ UNCHANGED <<recorded, branches, reports, attempts, owner, outcome, now,
                 faults>>

Tick ==
  /\ Calm
  /\ now' = now + TickHours
  /\ UNCHANGED <<roadmap, repository, commits, reports, attempts, owner,
                 outcome, edits, faults>>

-----------------------------------------------------------------------------

\* The operator sees to the issues first, and to pull requests when none is due
Plan ==
  \/ \E t \in Tasks : Materialize(t)
  \/ /\ NoIssueDue
     /\ \/ \E t \in Tasks : Orchestrate(t) \/ OpenByHand(t)
        \/ \E run \in {CiRun(r) : r \in reports} : Repair(run)
  \/ \E n \in 1..AttemptLimit : RecordAttempt(n)

Run == \E c \in RunnableCommits : RunPasses(c)
Mislead == \E c \in RunnableCommits :
  \/ \E failed \in FailureSets : RunMisleads(c, failed, FALSE)
  \/ RunMisleads(c, {}, TRUE)

Review ==
  \E t \in Tasks : \E i \in PrsOf(prs, t) :
    Approve(i, t) \/ MarkReady(i, t) \/ Merge(i, t) \/ Verify(i, t) \/ Publish(i, t)

Select == \E c \in RunnableCommits : SelectNext(c)

\* What the operator and the owner do when some plan says to
Work == Run \/ Select \/ Review \/ Plan

Next == Work \/ Mislead \/ Edit \/ Tick

Spec == Init /\ [][Next]_vars

\* They keep at it while there is anything to do, and until somebody edits by
\* hand, after which nothing is promised. Nobody has to err.
FairSpec == Spec /\ WF_vars(edits = 0 /\ Work)

-----------------------------------------------------------------------------
(* Properties                                                                 *)

\* However issues are closed, relabelled or retitled between two plans, the
\* materializer never makes a second issue for a task while the first one bears
\* any mark of it (findExistingIssue looks at four, in closed issues too).
OneIssuePerTask ==
  \A i, j \in DOMAIN issues :
    i < j /\ issues[i].made = issues[j].made =>
      \A mark \in Marks : issues[i][mark] # issues[i].made

\* Nor do the orchestrator and the repair loop, stopped between the branch and
\* the pull request and run again over marks and titles that changed meanwhile,
\* open two branches or two pull requests for one attempt at a task.
OnePrPerAttempt ==
  /\ \A i, j \in DOMAIN prs : prs[i].made = prs[j].made => i = j
  /\ \A i, j \in DOMAIN branches :
       /\ branches[i].task = branches[j].task
       /\ branches[i].attempt = branches[j].attempt
       => i = j

\* A task becomes verified only by its one visible pull request, merged, whose
\* merge commit's last run was real, fresh and without a failure of a check, of
\* the task's validation or of the rollback's rehearsal, and with the owner's
\* word for every path of the change that is risky by the classifier: whatever
\* was pushed after the review, and whichever runs are listed.
VerifiedRestsOnEvidence ==
  [][\A t \in Tasks : status[t] # "verified" /\ status'[t] = "verified" =>
       \E i \in PrsOf(prs, t) :
         /\ PrsOf(prs, t) = {i}
         /\ prs[i].made[1] = t
         /\ IsMerged(prs[i])
         /\ LastRunPassed(prs[i].merged,
                          Checks \cup Validation[t] \cup {Rollback})
         /\ <<i, prs[i].merged>> \in recorded'[t]
         /\ RiskyPaths(prs[i].paths, Surface[t]) \subseteq allowed
         /\ RiskyPaths(prs[i].paths, Surface[t]) # {} => t \in approvals]_vars

\* The next task is chosen from a packet published earlier; when it is, every
\* task of the gate is verified still, each by a merge that is on record, and
\* the chosen task's own dependencies are too.
NextTaskIsSafe ==
  [][selected' # selected =>
       \A t \in GateTasks \cup Candidates[selected'].deps :
         /\ status[t] = "verified"
         /\ \E i \in DOMAIN prs : /\ prs[i].made[1] = t
                                 /\ IsMerged(prs[i])
                                 /\ <<i, prs[i].merged>> \in recorded[t]]_vars

\* Unless somebody edits by hand, runs that fail, report nothing or grow old
\* never stop the factory: it gets from its first task to choosing the next one.
FactoryDelivers == <>(edits > 0 \/ selected # None)

\* "Unknown, missing, ambiguous, no-op-only, unsafe, stale, or forbidden
\* evidence fails closed." (pr-readiness-owner-queue.ts): no pull request whose
\* listed results include a failure of a wanted check is ready for the owner.
FailureIsSeen ==
  \A t \in Tasks : \A i \in PrsOf(prs, t) :
    LET items == Results(ReportsOf(prs[i].head)) IN
    prs[i].open /\ QueueReadiness(prs[i], Risk[t], items, t \in HumanGated,
                                  t \in approvals) = "ready_for_owner_review" =>
      FailedChecks(QueueChecks, items) = {}
=============================================================================
