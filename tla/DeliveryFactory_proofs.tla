------------------------- MODULE DeliveryFactory_proofs -------------------------
(* What the delivery factory never does, for any roadmap, any rules, any runs  *)
(* and any number of edits and mishaps.                                        *)
EXTENDS DeliveryFactory, FiniteSetTheorems, WellFoundedInduction, TLAPS

-----------------------------------------------------------------------------
(* A list that is sorted has a first element: numbers, and tuples of numbers   *)
(* by their first difference, have a least one in every set that is not empty. *)

Smaller == {ab \in Nat \X Nat : ab[1] < ab[2]}

\* There is no endless descent in the natural numbers.
LEMMA SmallerDescends == IsWellFoundedOn(Smaller, Nat)
  BY NatLessThanWellFounded DEF OpToRel, Smaller

\* Every set of natural numbers that is not empty has a least element.
LEMMA LeastNumber ==
  ASSUME NEW S, S \subseteq Nat, S # {}
  PROVE  \E a \in S : \A b \in S : a <= b
<1>1. PICK a \in S : \A b \in S : ~(<<b, a>> \in Smaller)
  BY SmallerDescends, WFMin
<1>2. ASSUME NEW b \in S
      PROVE  a <= b
  <2>1. a \in Nat /\ b \in Nat
    OBVIOUS
  <2>2. b < a => <<b, a>> \in Smaller
    BY <2>1 DEF Smaller
  <2>3. ~(b < a)
    BY <1>1, <2>2
  <2> QED
    BY <2>1, <2>3
<1> QED
  BY <1>2

\* Of two different tuples of numbers one sorts before the other.
LEMMA TuplesCompare ==
  ASSUME NEW n \in Nat, NEW a \in [1..n -> Nat], NEW b \in [1..n -> Nat], a # b
  PROVE  SortsBefore(a, b) \/ SortsBefore(b, a)
<1> DEFINE S == {k \in 1..n : a[k] # b[k]}
<1>1. S # {}
  OBVIOUS
<1>2. S \subseteq Nat
  OBVIOUS
<1>3. PICK k \in S : \A l \in S : k <= l
  BY <1>1, <1>2, LeastNumber
<1>4. \A l \in 1..(k - 1) : a[l] = b[l]
  BY <1>3
<1>5. a[k] \in Nat /\ b[k] \in Nat /\ a[k] # b[k]
  BY <1>3
<1>6. a[k] < b[k] \/ b[k] < a[k]
  BY <1>5
<1>7. k \in DOMAIN a /\ k \in DOMAIN b
  BY <1>3
<1> QED
  BY <1>4, <1>6, <1>7 DEF SortsBefore

\* Every set of tuples that is not empty has one that sorts before the others.
LEMMA LeastTuple ==
  ASSUME NEW n \in Nat, NEW S, S \subseteq [1..n -> Nat], S # {}
  PROVE  \E a \in S : \A b \in S : a = b \/ SortsBefore(a, b)
<1>1. PICK a \in S : \A b \in S : ~(<<b, a>> \in LexProductOrdering(Smaller, Nat, n))
  BY SmallerDescends, WFLexProductOrdering, WFMin
<1>2. ASSUME NEW b \in S, a # b
      PROVE  SortsBefore(a, b)
  <2>1. a \in [1..n -> Nat] /\ b \in [1..n -> Nat]
    OBVIOUS
  <2>2. ASSUME SortsBefore(b, a)
        PROVE  FALSE
    <3>1. PICK k \in DOMAIN b : b[k] < a[k] /\ \A l \in 1..(k - 1) : b[l] = a[l]
      BY <2>2 DEF SortsBefore
    <3>2. k \in 1..n /\ b[k] \in Nat /\ a[k] \in Nat
      BY <2>1, <3>1
    <3>3. <<b[k], a[k]>> \in Smaller
      BY <3>1, <3>2 DEF Smaller
    <3>4. <<b, a>> \in LexProductOrdering(Smaller, Nat, n)
      BY <2>1, <3>1, <3>2, <3>3 DEF LexProductOrdering
    <3> QED
      BY <1>1, <3>4
  <2> QED
    BY <1>2, <2>1, <2>2, TuplesCompare
<1> QED
  BY <1>2

-----------------------------------------------------------------------------
(* Searching a list                                                           *)

\* A list D to search, in ways n, by sort keys that are tuples of m numbers
Searchable(D, hits, n, key, m) ==
  /\ D \subseteq Nat \ {None}
  /\ n \in Nat /\ DOMAIN hits = 1..n
  /\ \A k \in 1..n : hits[k] \subseteq D
  /\ m \in Nat /\ \A i \in D : key[i] \in [1..m -> Nat]

\* The search over a sorted list finds nothing only when nothing matches in any
\* way, and what it finds is a match.
LEMMA FirstMatchHits ==
  ASSUME NEW D, NEW n, NEW hits, NEW m, NEW key, Searchable(D, hits, n, key, m)
  PROVE  /\ FirstMatch(hits, key) = None => \A k \in 1..n : hits[k] = {}
         /\ FirstMatch(hits, key) # None =>
              \E k \in 1..n : FirstMatch(hits, key) \in hits[k]
<1> USE DEF Searchable
<1>1. CASE \A k \in 1..n : hits[k] = {}
  BY <1>1 DEF FirstMatch
<1>2. ASSUME NEW some \in 1..n, hits[some] # {}
      PROVE  \E k \in 1..n : FirstMatch(hits, key) \in hits[k]
  <2> DEFINE First(k) == hits[k] # {} /\ \A l \in 1..(k - 1) : hits[l] = {}
  <2> DEFINE Leads(k, i) == \A j \in hits[k] :
               SortsBefore(key[i], key[j]) \/ (key[i] = key[j] /\ i <= j)
  <2>1. \E k \in 1..n : First(k)
    <3> DEFINE S == {k \in 1..n : hits[k] # {}}
    <3>1. S # {} /\ S \subseteq Nat
      BY <1>2
    <3>2. PICK k \in S : \A l \in S : k <= l
      BY <3>1, LeastNumber
    <3>3. \A l \in 1..(k - 1) : l \in 1..n /\ ~(k <= l)
      BY <3>2
    <3>4. \A l \in 1..(k - 1) : hits[l] = {}
      BY <3>2, <3>3
    <3> QED
      BY <3>2, <3>4
  <2> DEFINE k == CHOOSE q \in 1..n : First(q)
  <2>2. k \in 1..n /\ First(k)
    BY <2>1
  <2>3. \E i \in hits[k] : Leads(k, i)
    <3> HIDE DEF k
    <3> DEFINE Keys == {key[i] : i \in hits[k]}
    <3>0. hits[k] # {} /\ \A i \in hits[k] : i \in D
      BY <2>2
    <3>1. Keys # {} /\ Keys \subseteq [1..m -> Nat] /\ m \in Nat
      <4>1. m \in Nat /\ \A i \in hits[k] : key[i] \in [1..m -> Nat]
        BY <3>0
      <4>2. PICK i : i \in hits[k]
        BY <3>0
      <4>3. key[i] \in Keys
        BY <4>2
      <4>4. ASSUME NEW b \in Keys PROVE b \in [1..m -> Nat]
        BY <4>1
      <4> QED
        BY <4>1, <4>3, <4>4
    <3> HIDE DEF Keys
    <3>2. PICK least \in Keys : \A b \in Keys : least = b \/ SortsBefore(least, b)
      BY <3>1, LeastTuple
    <3> USE DEF Keys
    <3> DEFINE Equal == {i \in hits[k] : key[i] = least}
    <3>3. Equal # {} /\ Equal \subseteq Nat
      BY <2>2, <3>2
    <3>4. PICK i \in Equal : \A j \in Equal : i <= j
      BY <3>3, LeastNumber
    <3>5. ASSUME NEW j \in hits[k]
          PROVE  SortsBefore(key[i], key[j]) \/ (key[i] = key[j] /\ i <= j)
      BY <3>2, <3>4
    <3> QED
      BY <3>4, <3>5
  <2> DEFINE found == CHOOSE i \in hits[k] : Leads(k, i)
  <2>4. found \in hits[k]
    BY <2>3
  <2>5. FirstMatch(hits, key) = found
    BY <1>2 DEF FirstMatch
  <2> QED
    BY <2>2, <2>4, <2>5
<1>3. ASSUME NEW some \in 1..n, hits[some] # {}
      PROVE  FirstMatch(hits, key) # None
  BY <1>2, <1>3
<1> QED
  BY <1>1, <1>2, <1>3

-----------------------------------------------------------------------------
(* The invariant                                                              *)

Number3 == Nat \X Nat \X Nat

Entry == [title : Nat, slug : Nat, edition : Nat]
Issue == [task : Nat, key : Nat, label : Nat, title : Nat, edition : Nat,
          open : BOOLEAN, made : Tasks]
Branch == [name : Number3, task : Tasks, attempt : Nat, key : Nat \X Nat,
           active : BOOLEAN]
Pr == [task : Nat, attempt : Nat, key : Nat \X Nat, branch : Number3,
       label : Nat, title : Number3, edition : Nat, open : BOOLEAN,
       draft : BOOLEAN, autoMerge : BOOLEAN, paths : SUBSET (Paths \cup Pushed),
       head : Nat, merged : Nat, made : Tasks \X Nat]
Attempt == [number : 1..AttemptLimit]
Report == [commit : Nat, failed : SUBSET Names, noOp : BOOLEAN, at : Nat,
           text : Nat]

TypeOK ==
  /\ status \in [Tasks -> Statuses]
  /\ entries \in [Tasks -> Entry]
  /\ recorded \in [Tasks -> SUBSET (Nat \X Nat)]
  /\ issues \in Seq(Issue)
  /\ branches \in Seq(Branch)
  /\ prs \in Seq(Pr)
  /\ commits \in Nat
  /\ reports \subseteq Report /\ IsFiniteSet(reports)
  /\ attempts \in Seq(Attempt)
  /\ now \in Nat

\* An issue names no task but the one it was opened for
IssueIsOwn(issue) == \A mark \in Marks : issue[mark] \in {None, issue.made}
IssuesOwn == \A i \in DOMAIN issues : IssueIsOwn(issues[i])

\* Nor does a pull request; its branch is never renamed, and what is merged is
\* closed
PrIsOwn(pr) ==
  /\ pr.task \in {None, pr.made[1]}
  /\ pr.key[1] \in {None, pr.made[1]}
  /\ pr.label \in {None, pr.made[1]}
  /\ pr.title[1] \in {None, pr.made[1]}
  /\ pr.branch[1] = pr.made[1]
  /\ IsMerged(pr) => ~pr.open
PrsOwn == \A i \in DOMAIN prs : PrIsOwn(prs[i])

\* It was opened by hand, or from the branch of its task and attempt
OpenedByHand(pr) == IsLaterTask(pr.made[1]) /\ pr.made[2] = 0
IsOnBranch(pr, b) == b.name = pr.branch /\ <<b.task, b.attempt>> = pr.made
PrsOnBranches ==
  \A i \in DOMAIN prs :
    OpenedByHand(prs[i]) \/ \E b \in DOMAIN branches : IsOnBranch(prs[i], branches[b])

\* A verified task has a merge on record
IsOnRecord(t, i) ==
  /\ prs[i].made[1] = t
  /\ IsMerged(prs[i])
  /\ <<i, prs[i].merged>> \in recorded[t]
VerifiedIsRecorded ==
  \A t \in Tasks : status[t] = "verified" => \E i \in DOMAIN prs : IsOnRecord(t, i)

IInv ==
  /\ TypeOK
  /\ IssuesOwn /\ OneIssuePerTask
  /\ PrsOwn /\ PrsOnBranches /\ OnePrPerAttempt
  /\ VerifiedIsRecorded

-----------------------------------------------------------------------------
(* What the planners find                                                     *)

\* No issue names the task when the materializer finds none, and the one it
\* finds does.
LEMMA IssueFound ==
  ASSUME TypeOK, NEW t \in Tasks
  PROVE  LET found == ExistingIssue(issues, t) IN
         /\ found = None =>
              \A i \in DOMAIN issues : \A mark \in Marks : issues[i][mark] # t
         /\ found # None => /\ found \in DOMAIN issues
                            /\ \E mark \in Marks : issues[found][mark] = t
<1> DEFINE hits == IssuesNaming(issues, t)
           key == [i \in DOMAIN issues |->
                     <<IF issues[i].open THEN 0 ELSE 1,
                       issues[i].task, issues[i].key, issues[i].title>>]
           found == FirstMatch(hits, key)
<1>1. DOMAIN issues \subseteq Nat \ {None}
  BY DEF TypeOK, None
<1>2. /\ DOMAIN hits = 1..4
      /\ \A k \in 1..4 : hits[k] \subseteq DOMAIN issues
      /\ hits[1] = {i \in DOMAIN issues : issues[i].task = t}
      /\ hits[2] = {i \in DOMAIN issues : issues[i].key = t}
      /\ hits[3] = {i \in DOMAIN issues : issues[i].label = t}
      /\ hits[4] = {i \in DOMAIN issues : issues[i].title = t}
  BY DEF IssuesNaming
<1>3. \A i \in DOMAIN issues : key[i] \in [1..4 -> Nat]
  <2> SUFFICES ASSUME NEW i \in DOMAIN issues
               PROVE  key[i] \in [1..4 -> Nat]
    OBVIOUS
  <2>1. issues[i] \in Issue
    BY DEF TypeOK
  <2>2. issues[i].task \in Nat /\ issues[i].key \in Nat /\ issues[i].title \in Nat
    BY <2>1 DEF Issue
  <2> QED
    BY <2>2
<1>4. /\ found = None => \A k \in 1..4 : hits[k] = {}
      /\ found # None => \E k \in 1..4 : found \in hits[k]
  <2> HIDE DEF hits, key
  <2>1. Searchable(DOMAIN issues, hits, 4, key, 4)
    BY <1>1, <1>2, <1>3 DEF Searchable
  <2> QED
    BY <2>1, FirstMatchHits
<1>5. ExistingIssue(issues, t) = found
  BY DEF ExistingIssue
<1> HIDE DEF hits, key, found
<1>6. ASSUME found = None, NEW i \in DOMAIN issues, NEW mark \in Marks
      PROVE  issues[i][mark] # t
  <2>1. hits[1] = {} /\ hits[2] = {} /\ hits[3] = {} /\ hits[4] = {}
    BY <1>4, <1>6
  <2> QED
    BY <1>2, <2>1 DEF Marks
<1>7. ASSUME found # None
      PROVE  found \in DOMAIN issues /\ \E mark \in Marks : issues[found][mark] = t
  <2>1. PICK k \in 1..4 : found \in hits[k]
    BY <1>4, <1>7
  <2>2. k = 1 \/ k = 2 \/ k = 3 \/ k = 4
    BY <2>1
  <2> QED
    BY <1>2, <2>1, <2>2 DEF Marks
<1> QED
  BY <1>5, <1>6, <1>7

\* The plans of the orchestrator and of the repair loop: a draft only of a task
\* that is not a later one
Plans == [task : Tasks, attempt : Nat, key : Nat \X Nat, branch : Number3,
          title : Number3, edition : Nat]
IsPlan(plan) ==
  /\ plan \in Plans
  /\ plan.key[1] = plan.task
  /\ plan.branch[1] = plan.task
  /\ plan.title[1] = plan.task
  /\ plan.attempt = 0 => ~IsLaterTask(plan.task)

\* No branch is of the plan's task and attempt when none is found.
LEMMA BranchFound ==
  ASSUME TypeOK, NEW plan
  PROVE  LET found == ExistingBranch(branches, plan) IN
         /\ found = None =>
              \A b \in DOMAIN branches :
                ~(branches[b].task = plan.task /\ branches[b].attempt = plan.attempt)
         /\ found # None => found \in DOMAIN branches
<1> DEFINE hits == <<{i \in DOMAIN branches : branches[i].name = plan.branch},
                     {i \in DOMAIN branches : /\ branches[i].task = plan.task
                                              /\ branches[i].attempt = plan.attempt},
                     {i \in DOMAIN branches : branches[i].key = plan.key}>>
           key == [i \in DOMAIN branches |->
                     <<branches[i].name[1], branches[i].name[2],
                       branches[i].name[3], branches[i].task,
                       branches[i].key[1], branches[i].key[2]>>]
           found == FirstMatch(hits, key)
<1>1. DOMAIN branches \subseteq Nat \ {None}
  BY DEF TypeOK, None
<1>2. /\ DOMAIN hits = 1..3
      /\ \A k \in 1..3 : hits[k] \subseteq DOMAIN branches
      /\ hits[2] = {i \in DOMAIN branches : /\ branches[i].task = plan.task
                                           /\ branches[i].attempt = plan.attempt}
  OBVIOUS
<1>3. \A i \in DOMAIN branches : key[i] \in [1..6 -> Nat]
  <2> SUFFICES ASSUME NEW i \in DOMAIN branches
               PROVE  key[i] \in [1..6 -> Nat]
    OBVIOUS
  <2>1. branches[i] \in Branch
    BY DEF TypeOK
  <2>2. /\ branches[i].name[1] \in Nat /\ branches[i].name[2] \in Nat
        /\ branches[i].name[3] \in Nat
        /\ branches[i].key[1] \in Nat /\ branches[i].key[2] \in Nat
    BY <2>1 DEF Branch, Number3
  <2>3. branches[i].task \in Nat
    BY <2>1, RoadmapAssumption DEF Branch
  <2> QED
    BY <2>2, <2>3
<1>4. /\ found = None => \A k \in 1..3 : hits[k] = {}
      /\ found # None => \E k \in 1..3 : found \in hits[k]
  <2> HIDE DEF hits, key
  <2>1. Searchable(DOMAIN branches, hits, 3, key, 6)
    BY <1>1, <1>2, <1>3 DEF Searchable
  <2> QED
    BY <2>1, FirstMatchHits
<1>5. ExistingBranch(branches, plan) = found
  BY DEF ExistingBranch
<1> HIDE DEF hits, key, found
<1>6. ASSUME found = None
      PROVE  \A b \in DOMAIN branches :
               ~(branches[b].task = plan.task /\ branches[b].attempt = plan.attempt)
  <2>1. hits[2] = {}
    BY <1>4, <1>6
  <2> QED
    BY <1>2, <2>1
<1>7. ASSUME found # None
      PROVE  found \in DOMAIN branches
  BY <1>2, <1>4, <1>7
<1> QED
  BY <1>5, <1>6, <1>7

\* No pull request has a mark of the plan when none is found, and the one that
\* is found has one.
LEMMA PrFound ==
  ASSUME TypeOK, NEW plan
  PROVE  LET found == ExistingPr(prs, plan) IN
         /\ found = None =>
              \A i \in DOMAIN prs : prs[i].branch # plan.branch
         /\ found # None =>
              /\ found \in DOMAIN prs
              /\ \/ prs[found].task = plan.task
                 \/ prs[found].key = plan.key
                 \/ prs[found].branch = plan.branch
                 \/ prs[found].label = plan.task
                 \/ prs[found].title = plan.title
<1> DEFINE hits == <<{i \in DOMAIN prs : /\ prs[i].task = plan.task
                                         /\ prs[i].attempt = plan.attempt},
                     {i \in DOMAIN prs : prs[i].key = plan.key},
                     {i \in DOMAIN prs : prs[i].branch = plan.branch},
                     {i \in DOMAIN prs : prs[i].label = plan.task},
                     {i \in DOMAIN prs : prs[i].title = plan.title}>>
           key == [i \in DOMAIN prs |->
                     <<prs[i].task, prs[i].key[1], prs[i].key[2],
                       prs[i].branch[1], prs[i].branch[2], prs[i].branch[3],
                       prs[i].title[1], prs[i].title[2], prs[i].title[3]>>]
           found == FirstMatch(hits, key)
<1>1. DOMAIN prs \subseteq Nat \ {None}
  BY DEF TypeOK, None
<1>2. /\ DOMAIN hits = 1..5
      /\ \A k \in 1..5 : hits[k] \subseteq DOMAIN prs
      /\ \A i \in hits[1] : prs[i].task = plan.task
      /\ \A i \in hits[2] : prs[i].key = plan.key
      /\ hits[3] = {i \in DOMAIN prs : prs[i].branch = plan.branch}
      /\ \A i \in hits[4] : prs[i].label = plan.task
      /\ \A i \in hits[5] : prs[i].title = plan.title
  OBVIOUS
<1>3. \A i \in DOMAIN prs : key[i] \in [1..9 -> Nat]
  <2> SUFFICES ASSUME NEW i \in DOMAIN prs
               PROVE  key[i] \in [1..9 -> Nat]
    OBVIOUS
  <2>1. prs[i] \in Pr
    BY DEF TypeOK
  <2>2. /\ prs[i].task \in Nat
        /\ prs[i].key[1] \in Nat /\ prs[i].key[2] \in Nat
        /\ prs[i].branch[1] \in Nat /\ prs[i].branch[2] \in Nat
        /\ prs[i].branch[3] \in Nat
        /\ prs[i].title[1] \in Nat /\ prs[i].title[2] \in Nat
        /\ prs[i].title[3] \in Nat
    BY <2>1 DEF Pr, Number3
  <2> QED
    BY <2>2
<1>4. /\ found = None => \A k \in 1..5 : hits[k] = {}
      /\ found # None => \E k \in 1..5 : found \in hits[k]
  <2> HIDE DEF hits, key
  <2>1. Searchable(DOMAIN prs, hits, 5, key, 9)
    BY <1>1, <1>2, <1>3 DEF Searchable
  <2> QED
    BY <2>1, FirstMatchHits
<1>5. ExistingPr(prs, plan) = found
  BY DEF ExistingPr
<1> HIDE DEF hits, key, found
<1>6. ASSUME found = None
      PROVE  \A i \in DOMAIN prs : prs[i].branch # plan.branch
  <2>1. hits[3] = {}
    BY <1>4, <1>6
  <2> QED
    BY <1>2, <2>1
<1>7. ASSUME found # None
      PROVE  /\ found \in DOMAIN prs
             /\ \/ prs[found].task = plan.task
                \/ prs[found].key = plan.key
                \/ prs[found].branch = plan.branch
                \/ prs[found].label = plan.task
                \/ prs[found].title = plan.title
  <2>1. PICK k \in 1..5 : found \in hits[k]
    BY <1>4, <1>7
  <2>2. k = 1 \/ k = 2 \/ k = 3 \/ k = 4 \/ k = 5
    BY <2>1
  <2> QED
    BY <1>2, <2>1, <2>2
<1> QED
  BY <1>5, <1>6, <1>7

-----------------------------------------------------------------------------
(* What the planners plan                                                     *)

\* The orchestrator's plan is one, with the task's own key, branch and title.
LEMMA DraftIsPlan ==
  ASSUME TypeOK, NEW t \in Tasks, ~IsLaterTask(t)
  PROVE  IsPlan(DraftPlan(t, entries[t]))
<1>1. entries[t] \in Entry
  BY DEF TypeOK
<1>2. t \in Nat
  BY RoadmapAssumption
<1>3. DraftPlan(t, entries[t]) \in Plans
  BY <1>1, <1>2 DEF DraftPlan, Plans, Number3, Entry
<1> QED
  BY <1>3 DEF IsPlan, DraftPlan

\* The repair loop numbers its attempts from 1.
LEMMA AttemptsCount ==
  ASSUME TypeOK
  PROVE  NextAttempt(attempts) \in Nat \ {0}
<1>1. CASE attempts = <<>>
  BY <1>1 DEF NextAttempt
<1>2. CASE attempts # <<>>
  <2> DEFINE S == {attempts[i].number : i \in DOMAIN attempts}
             IsLast(n) == \A i \in DOMAIN attempts : attempts[i].number <= n
             Left == {AttemptLimit - n : n \in S}
  <2>1. \A i \in DOMAIN attempts : attempts[i].number \in 1..AttemptLimit
    <3> SUFFICES ASSUME NEW i \in DOMAIN attempts
                 PROVE  attempts[i].number \in 1..AttemptLimit
      OBVIOUS
    <3>1. attempts[i] \in Attempt
      BY DEF TypeOK
    <3> QED
      BY <3>1 DEF Attempt
  <2>2. AttemptLimit \in Nat
    BY LimitAssumption
  <2>3. 1 \in DOMAIN attempts
    BY <1>2 DEF TypeOK
  <2>4. S # {} /\ S \subseteq 1..AttemptLimit
    BY <2>1, <2>3
  <2> HIDE DEF S
  <2>5. Left # {} /\ Left \subseteq Nat
    <3>1. \A n \in S : n \in Nat /\ AttemptLimit - n \in Nat
      BY <2>2, <2>4
    <3> QED
      BY <2>4, <3>1
  <2>6. PICK least \in Left : \A left \in Left : least <= left
    BY <2>5, LeastNumber
  <2>7. PICK last \in S : least = AttemptLimit - last
    BY <2>6
  <2>8. \A n \in S : n <= last
    BY <2>2, <2>4, <2>6, <2>7
  <2>9. \E n \in S : IsLast(n)
    BY <2>7, <2>8 DEF S
  <2>10. (CHOOSE n \in S : IsLast(n)) \in S
    BY <2>9
  <2>11. (CHOOSE n \in S : IsLast(n)) \in Nat
    <3>1. S \subseteq Nat
      BY <2>2, <2>4
    <3> QED
      BY <2>10, <3>1
  <2>12. NextAttempt(attempts) = 1 + (CHOOSE n \in S : IsLast(n))
    BY <1>2 DEF NextAttempt, S
  <2> QED
    BY <2>11, <2>12
<1> QED
  BY <1>1, <1>2

\* What the repair loop repairs is a check that a run reported on.
LEMMA TargetIsCheck ==
  ASSUME NEW r, RepairTarget(CiRun(r), now, RepairMaxAge) # None
  PROVE  RepairTarget(CiRun(r), now, RepairMaxAge) \in Checks
<1> DEFINE run == CiRun(r)
           failed == {c \in DOMAIN run.checks : run.checks[c] = "failure"}
<1>1. DOMAIN run.checks = Checks
  BY DEF CiRun
<1> HIDE DEF run
<1>2. RepairTarget(run, now, RepairMaxAge) # None =>
        /\ failed # {}
        /\ RepairTarget(run, now, RepairMaxAge) = CHOOSE c \in failed : TRUE
  BY DEF RepairTarget
<1>3. failed # {} => (CHOOSE c \in failed : TRUE) \in failed
  OBVIOUS
<1> QED
  BY <1>1, <1>2, <1>3 DEF run

\* The repair loop's plan is one too, of an attempt that is no draft.
LEMMA RepairIsPlan ==
  ASSUME TypeOK, NEW r,
         CanRepair(status, branches, prs, attempts, CiRun(r), now, RepairMaxAge)
  PROVE  IsPlan(RepairPlan(NextAttempt(attempts),
                           RepairTarget(CiRun(r), now, RepairMaxAge)))
<1>1. PICK n \in Nat \ {0} : n = NextAttempt(attempts)
  BY AttemptsCount
<1>2. PICK check \in Checks : check = RepairTarget(CiRun(r), now, RepairMaxAge)
  BY TargetIsCheck DEF CanRepair
<1>3. check \in Nat
  BY EvidenceAssumption
<1>4. RepairedTask \in Tasks /\ RepairedTask \in Nat
  BY RoadmapAssumption DEF CanRepair
<1>5. RepairPlan(n, check) \in Plans
  BY <1>3, <1>4 DEF RepairPlan, Plans, Number3
<1>6. IsPlan(RepairPlan(n, check))
  BY <1>5 DEF IsPlan, RepairPlan
<1> QED
  BY <1>1, <1>2, <1>6

-----------------------------------------------------------------------------
(* Issues                                                                     *)

IssuesGood == issues \in Seq(Issue) /\ IssuesOwn /\ OneIssuePerTask

\* An issue that is changed may lose marks of its task, and regain them all as
\* long as it has one.
LEMMA IssueChanged ==
  ASSUME IssuesGood, NEW i \in DOMAIN issues, NEW issue \in Issue,
         issues' = [issues EXCEPT ![i] = issue],
         issue.made = issues[i].made, IssueIsOwn(issue),
         \A mark \in Marks : issue[mark] = issue.made =>
           \E own \in Marks : issues[i][own] = issue.made
  PROVE  IssuesGood'
<1>1. /\ issues \in Seq(Issue)
      /\ DOMAIN issues \subseteq Nat
  BY DEF IssuesGood
<1>2. /\ issues' \in Seq(Issue)
      /\ DOMAIN issues' = DOMAIN issues
      /\ issues'[i] = issue
      /\ \A j \in DOMAIN issues \ {i} : issues'[j] = issues[j]
  BY <1>1
<1>3. IssuesOwn'
  <2> SUFFICES ASSUME NEW j \in DOMAIN issues'
               PROVE  IssueIsOwn(issues'[j])
    BY DEF IssuesOwn, IssueIsOwn
  <2>1. CASE j = i
    BY <1>2, <2>1
  <2>2. CASE j # i
    BY <1>2, <2>2 DEF IssuesGood, IssuesOwn
  <2> QED
    BY <2>1, <2>2
<1>4. OneIssuePerTask'
  <2> SUFFICES ASSUME NEW a \in DOMAIN issues', NEW b \in DOMAIN issues',
                      a < b, issues'[a].made = issues'[b].made,
                      NEW mark \in Marks, issues'[a][mark] = issues'[a].made
               PROVE  FALSE
    BY DEF OneIssuePerTask, Marks
  <2>1. issues[a].made = issues[b].made
    BY <1>2
  <2>2. \A own \in Marks : issues[a][own] # issues[a].made
    BY <1>2, <2>1 DEF IssuesGood, OneIssuePerTask
  <2>3. CASE a = i
    BY <1>2, <2>2, <2>3
  <2>4. CASE a # i
    BY <1>2, <2>2, <2>4
  <2> QED
    BY <2>3, <2>4
<1> QED
  BY <1>2, <1>3, <1>4 DEF IssuesGood

\* An issue that is opened is the first for its task that still names it.
LEMMA IssueOpened ==
  ASSUME IssuesGood, NEW issue \in Issue,
         issues' = Append(issues, issue), IssueIsOwn(issue),
         \A i \in DOMAIN issues : \A mark \in Marks : issues[i][mark] # issue.made
  PROVE  IssuesGood'
<1>1. /\ issues \in Seq(Issue) /\ Len(issues) \in Nat
      /\ DOMAIN issues = 1..Len(issues)
  BY DEF IssuesGood
<1>2. /\ issues' \in Seq(Issue)
      /\ DOMAIN issues' = 1..(Len(issues) + 1)
      /\ issues'[Len(issues) + 1] = issue
      /\ \A j \in DOMAIN issues : issues'[j] = issues[j]
  BY <1>1
<1>3. \A j \in DOMAIN issues' : j \in DOMAIN issues \/ j = Len(issues) + 1
  BY <1>1, <1>2
<1>4. IssuesOwn'
  <2> SUFFICES ASSUME NEW j \in DOMAIN issues'
               PROVE  IssueIsOwn(issues'[j])
    BY DEF IssuesOwn, IssueIsOwn
  <2> QED
    BY <1>2, <1>3 DEF IssuesGood, IssuesOwn
<1>5. OneIssuePerTask'
  <2> SUFFICES ASSUME NEW a \in DOMAIN issues', NEW b \in DOMAIN issues',
                      a < b, issues'[a].made = issues'[b].made,
                      NEW mark \in Marks, issues'[a][mark] = issues'[a].made
               PROVE  FALSE
    BY DEF OneIssuePerTask, Marks
  <2>1. a \in DOMAIN issues
    BY <1>1, <1>2, <1>3
  <2>2. CASE b \in DOMAIN issues
    BY <1>2, <2>1, <2>2 DEF IssuesGood, OneIssuePerTask
  <2>3. CASE b = Len(issues) + 1
    BY <1>2, <2>1, <2>3
  <2> QED
    BY <1>3, <2>2, <2>3
<1> QED
  BY <1>2, <1>4, <1>5 DEF IssuesGood

\* The issue of a plan is of its task alone.
LEMMA PlannedIssueIsOwn ==
  ASSUME TypeOK, NEW t \in Tasks
  PROVE  LET issue == PlannedIssue(t, entries[t].edition, t) IN
         issue \in Issue /\ IssueIsOwn(issue) /\ issue.made = t
<1>1. entries[t] \in Entry
  BY DEF TypeOK
<1>2. PICK edition \in Nat : edition = entries[t].edition
  BY <1>1 DEF Entry
<1>3. t \in Nat
  BY RoadmapAssumption
<1>4. PlannedIssue(t, edition, t) \in Issue
  BY <1>3 DEF PlannedIssue, Issue
<1>5. IssueIsOwn(PlannedIssue(t, edition, t))
  BY DEF PlannedIssue, IssueIsOwn, Marks
<1>6. PlannedIssue(t, edition, t).made = t
  BY DEF PlannedIssue
<1> QED
  BY <1>2, <1>4, <1>5, <1>6

\* The materializer opens an issue only for a task that no issue names, and
\* rewrites one only of the task it was opened for.
LEMMA MaterializeKeepsIssues ==
  ASSUME IInv, NEW t \in Tasks, Materialize(t)
  PROVE  IssuesGood'
<1>1. IssuesGood /\ TypeOK
  BY DEF IInv, TypeOK, IssuesGood
<1>2. PICK issue : issue = PlannedIssue(t, entries[t].edition, t)
  OBVIOUS
<1>3. issue \in Issue /\ IssueIsOwn(issue) /\ issue.made = t
  BY <1>1, <1>2, PlannedIssueIsOwn
<1>4. PICK found : found = ExistingIssue(issues, t)
  OBVIOUS
<1>5. /\ found = None =>
           \A i \in DOMAIN issues : \A mark \in Marks : issues[i][mark] # t
      /\ found # None => /\ found \in DOMAIN issues
                         /\ \E mark \in Marks : issues[found][mark] = t
  BY <1>1, <1>4, IssueFound
<1>6. CASE IssueAction(issues, t, entries[t].edition) = "create"
  <2>1. found = None
    BY <1>4, <1>6 DEF IssueAction
  <2>2. issues' = Append(issues, issue)
    BY <1>2, <1>6 DEF Materialize
  <2> QED
    BY <1>1, <1>3, <1>5, <2>1, <2>2, IssueOpened
<1>7. CASE IssueAction(issues, t, entries[t].edition) = "update"
  <2>1. found # None
    BY <1>4, <1>7 DEF IssueAction
  <2>2. PICK own \in Marks : issues[found][own] = t
    BY <1>5, <2>1
  <2>3. t # None
    BY RoadmapAssumption
  <2>4. issues[found].made = t
    BY <1>1, <1>5, <2>1, <2>2, <2>3 DEF IssuesGood, IssuesOwn, IssueIsOwn
  <2>5. issues' = [issues EXCEPT ![found] = issue]
    BY <1>2, <1>4, <1>5, <1>7, <2>1, <2>4 DEF Materialize
  <2>6. \A mark \in Marks : issue[mark] = issue.made =>
          \E named \in Marks : issues[found][named] = issue.made
    BY <1>3, <2>2
  <2>7. found \in DOMAIN issues /\ issue.made = issues[found].made
    BY <1>3, <1>5, <2>1, <2>4
  <2> QED
    BY <1>1, <1>3, <2>5, <2>6, <2>7, IssueChanged
<1> QED
  BY <1>6, <1>7 DEF Materialize

\* Edits take marks away and close.
LEMMA EditsKeepIssues ==
  ASSUME IssuesGood, EditIssues
  PROVE  IssuesGood'
<1>1. PICK i \in DOMAIN issues :
        \/ \E mark \in Marks : StripIssue(i, mark)
        \/ issues' = [issues EXCEPT ![i].open = FALSE]
  BY DEF EditIssues
<1>2. issues \in Seq(Issue) /\ issues[i] \in Issue /\ IssueIsOwn(issues[i])
  BY DEF IssuesGood, IssuesOwn
<1>3. issues[i].made # None
  BY <1>2, RoadmapAssumption DEF Issue
<1>4. ASSUME NEW mark \in Marks, StripIssue(i, mark)
      PROVE  IssuesGood'
  <2> DEFINE issue == [issues[i] EXCEPT ![mark] = None]
  <2>1. issues' = [issues EXCEPT ![i] = issue]
    BY <1>4 DEF StripIssue
  <2>2. /\ issue \in Issue /\ issue.made = issues[i].made
        /\ issue[mark] = None
        /\ \A other \in Marks \ {mark} : issue[other] = issues[i][other]
    BY <1>2 DEF Issue, Marks, None
  <2> HIDE DEF issue
  <2>3. IssueIsOwn(issue)
    BY <1>2, <2>2 DEF IssueIsOwn
  <2>4. \A other \in Marks : issue[other] = issue.made => issues[i][other] = issue.made
    BY <1>3, <2>2
  <2> QED
    BY <2>1, <2>2, <2>3, <2>4, IssueChanged
<1>5. ASSUME issues' = [issues EXCEPT ![i].open = FALSE]
      PROVE  IssuesGood'
  <2> DEFINE issue == [issues[i] EXCEPT !.open = FALSE]
  <2>1. issues' = [issues EXCEPT ![i] = issue]
    BY <1>5
  <2>2. /\ issue \in Issue /\ issue.made = issues[i].made
        /\ \A mark \in Marks : issue[mark] = issues[i][mark]
    BY <1>2 DEF Issue, Marks
  <2> HIDE DEF issue
  <2>3. IssueIsOwn(issue)
    BY <1>2, <2>2 DEF IssueIsOwn
  <2>4. \A mark \in Marks : issue[mark] = issue.made =>
          \E own \in Marks : issues[i][own] = issue.made
    BY <2>2
  <2> QED
    BY <2>1, <2>2, <2>3, <2>4, IssueChanged
<1> QED
  BY <1>1, <1>4, <1>5

-----------------------------------------------------------------------------
(* Branches and pull requests                                                 *)

PrsGood ==
  /\ branches \in Seq(Branch) /\ prs \in Seq(Pr)
  /\ PrsOwn /\ PrsOnBranches /\ OnePrPerAttempt

\* What was opened stays, what was merged stays merged as it was
PrsStay ==
  \A i \in DOMAIN prs :
    /\ i \in DOMAIN prs'
    /\ prs'[i].made = prs[i].made
    /\ IsMerged(prs[i]) => prs'[i].merged = prs[i].merged

\* A pull request may change in all but what it was opened for and its branch.
LEMMA PrChanged ==
  ASSUME PrsGood, NEW i \in DOMAIN prs, NEW pr \in Pr,
         prs' = [prs EXCEPT ![i] = pr], branches' = branches,
         pr.made = prs[i].made, pr.branch = prs[i].branch, PrIsOwn(pr),
         IsMerged(prs[i]) => pr.merged = prs[i].merged
  PROVE  PrsGood' /\ PrsStay
<1>1. prs \in Seq(Pr) /\ branches \in Seq(Branch)
  BY DEF PrsGood
<1>2. /\ prs' \in Seq(Pr)
      /\ DOMAIN prs' = DOMAIN prs
      /\ prs'[i] = pr
      /\ \A j \in DOMAIN prs \ {i} : prs'[j] = prs[j]
  BY <1>1
<1>3. \A j \in DOMAIN prs : /\ prs'[j].made = prs[j].made
                           /\ prs'[j].branch = prs[j].branch
  BY <1>2
<1>4. PrsOwn'
  <2> SUFFICES ASSUME NEW j \in DOMAIN prs'
               PROVE  PrIsOwn(prs'[j])
    BY DEF PrsOwn, PrIsOwn, IsMerged
  <2>1. CASE j = i
    BY <1>2, <2>1
  <2>2. CASE j # i
    BY <1>2, <2>2 DEF PrsGood, PrsOwn
  <2> QED
    BY <2>1, <2>2
<1>5. PrsOnBranches'
  <2> SUFFICES ASSUME NEW j \in DOMAIN prs'
               PROVE  \/ OpenedByHand(prs'[j])
                      \/ \E b \in DOMAIN branches : IsOnBranch(prs'[j], branches[b])
    BY DEF PrsOnBranches, OpenedByHand, IsOnBranch
  <2>1. \/ OpenedByHand(prs[j])
        \/ \E b \in DOMAIN branches : IsOnBranch(prs[j], branches[b])
    BY <1>2 DEF PrsGood, PrsOnBranches
  <2>2. prs'[j].made = prs[j].made /\ prs'[j].branch = prs[j].branch
    BY <1>2, <1>3
  <2> QED
    BY <2>1, <2>2 DEF OpenedByHand, IsOnBranch
<1>6. OnePrPerAttempt'
  BY <1>2, <1>3 DEF PrsGood, OnePrPerAttempt
<1>7. PrsStay
  BY <1>2, <1>3 DEF PrsStay
<1> QED
  BY <1>1, <1>2, <1>4, <1>5, <1>6, <1>7 DEF PrsGood

\* One that is opened is the first for its task and attempt.
LEMMA PrOpened ==
  ASSUME PrsGood, NEW pr \in Pr,
         prs' = Append(prs, pr), branches' = branches, PrIsOwn(pr),
         OpenedByHand(pr) \/ \E b \in DOMAIN branches : IsOnBranch(pr, branches[b]),
         \A i \in DOMAIN prs : prs[i].made # pr.made
  PROVE  PrsGood' /\ PrsStay
<1>1. /\ prs \in Seq(Pr) /\ branches \in Seq(Branch)
      /\ Len(prs) \in Nat /\ DOMAIN prs = 1..Len(prs)
  BY DEF PrsGood
<1>2. /\ prs' \in Seq(Pr)
      /\ DOMAIN prs' = 1..(Len(prs) + 1)
      /\ prs'[Len(prs) + 1] = pr
      /\ \A j \in DOMAIN prs : prs'[j] = prs[j]
  BY <1>1
<1>3. \A j \in DOMAIN prs' : j \in DOMAIN prs \/ j = Len(prs) + 1
  BY <1>1, <1>2
<1>4. PrsOwn'
  <2> SUFFICES ASSUME NEW j \in DOMAIN prs'
               PROVE  PrIsOwn(prs'[j])
    BY DEF PrsOwn, PrIsOwn, IsMerged
  <2> QED
    BY <1>2, <1>3 DEF PrsGood, PrsOwn
<1>5. PrsOnBranches'
  <2> SUFFICES ASSUME NEW j \in DOMAIN prs'
               PROVE  \/ OpenedByHand(prs'[j])
                      \/ \E b \in DOMAIN branches : IsOnBranch(prs'[j], branches[b])
    BY DEF PrsOnBranches, OpenedByHand, IsOnBranch
  <2> QED
    BY <1>2, <1>3 DEF PrsGood, PrsOnBranches
<1>6. OnePrPerAttempt'
  <2>1. ASSUME NEW a \in DOMAIN prs', NEW b \in DOMAIN prs',
               prs'[a].made = prs'[b].made
        PROVE  a = b
    <3>1. CASE a \in DOMAIN prs /\ b \in DOMAIN prs
      BY <1>2, <2>1, <3>1 DEF PrsGood, OnePrPerAttempt
    <3>2. CASE ~(a \in DOMAIN prs /\ b \in DOMAIN prs)
      BY <1>2, <1>3, <2>1, <3>2
    <3> QED
      BY <3>1, <3>2
  <2> QED
    BY <2>1 DEF PrsGood, OnePrPerAttempt
<1>7. PrsStay
  BY <1>1, <1>2 DEF PrsStay
<1> QED
  BY <1>1, <1>2, <1>4, <1>5, <1>6, <1>7 DEF PrsGood

\* A branch that is made is the first for its task and attempt.
LEMMA BranchMade ==
  ASSUME PrsGood, NEW branch \in Branch,
         branches' = Append(branches, branch), prs' = prs,
         \A b \in DOMAIN branches : ~(/\ branches[b].task = branch.task
                                      /\ branches[b].attempt = branch.attempt)
  PROVE  PrsGood' /\ PrsStay
<1>1. /\ prs \in Seq(Pr) /\ branches \in Seq(Branch)
      /\ Len(branches) \in Nat /\ DOMAIN branches = 1..Len(branches)
  BY DEF PrsGood
<1>2. /\ branches' \in Seq(Branch)
      /\ DOMAIN branches' = 1..(Len(branches) + 1)
      /\ branches'[Len(branches) + 1] = branch
      /\ \A b \in DOMAIN branches : branches'[b] = branches[b]
  BY <1>1
<1>3. /\ \A b \in DOMAIN branches' : b \in DOMAIN branches \/ b = Len(branches) + 1
      /\ \A b \in DOMAIN branches : b \in DOMAIN branches'
  BY <1>1, <1>2
<1>4. PrsOwn'
  BY DEF PrsGood, PrsOwn
<1>5. PrsOnBranches'
  <2>1. ASSUME NEW i \in DOMAIN prs, ~OpenedByHand(prs[i])
        PROVE  \E b \in DOMAIN branches' : IsOnBranch(prs[i], branches'[b])
    <3>1. PICK b \in DOMAIN branches : IsOnBranch(prs[i], branches[b])
      BY <2>1 DEF PrsGood, PrsOnBranches
    <3>2. b \in DOMAIN branches' /\ branches'[b] = branches[b]
      BY <1>2, <1>3
    <3> QED
      BY <3>1, <3>2
  <2> QED
    BY <2>1 DEF PrsOnBranches, OpenedByHand, IsOnBranch
<1>6. OnePrPerAttempt'
  <2>1. ASSUME NEW a \in DOMAIN branches', NEW b \in DOMAIN branches',
               branches'[a].task = branches'[b].task,
               branches'[a].attempt = branches'[b].attempt
        PROVE  a = b
    <3>1. CASE a \in DOMAIN branches /\ b \in DOMAIN branches
      BY <1>2, <2>1, <3>1 DEF PrsGood, OnePrPerAttempt
    <3>2. CASE ~(a \in DOMAIN branches /\ b \in DOMAIN branches)
      BY <1>2, <1>3, <2>1, <3>2
    <3> QED
      BY <3>1, <3>2
  <2> QED
    BY <2>1 DEF PrsGood, OnePrPerAttempt
<1>7. PrsStay
  BY DEF PrsStay
<1> QED
  BY <1>1, <1>2, <1>4, <1>5, <1>6, <1>7 DEF PrsGood

\* A pull request, when it is opened, is of the task and the attempt it is for.
LEMMA OpenedPrIsOwn ==
  ASSUME commits \in Nat, NEW t \in Tasks, NEW made,
         made.task \in {None, t}, made.attempt \in Nat,
         made.key \in Nat \X Nat, made.key[1] \in {None, t},
         made.branch \in Number3, made.branch[1] = t,
         made.label = t, made.title \in Number3, made.title[1] = t,
         made.edition \in Nat, made.open \in BOOLEAN, made.draft \in BOOLEAN,
         made.autoMerge \in BOOLEAN
  PROVE  LET pr == OpenedPr(made, t) IN
         /\ pr \in Pr /\ PrIsOwn(pr)
         /\ pr.made = <<t, made.attempt>> /\ pr.branch = made.branch
<1> DEFINE pr == OpenedPr(made, t)
<1>1. /\ pr.task = made.task /\ pr.key = made.key /\ pr.label = made.label
      /\ pr.title = made.title /\ pr.branch = made.branch
      /\ pr.merged = None /\ pr.made = <<t, made.attempt>>
  BY DEF OpenedPr
<1>2. t \in Nat /\ None \in Nat
  BY RoadmapAssumption DEF None
<1>3. Changed[t] \in SUBSET (Paths \cup Pushed)
  BY FactoryAssumption
<1>4. made.task \in Nat
  BY <1>2
<1>5. pr \in Pr
  BY <1>2, <1>3, <1>4 DEF OpenedPr, Pr
<1>6. PrIsOwn(pr)
  <2> HIDE DEF pr
  <2> QED
    BY <1>1 DEF PrIsOwn, IsMerged
<1> QED
  BY <1>1, <1>5, <1>6

\* A write of a plan that makes a branch or a pull request makes the first.
LEMMA FollowKeepsPrs ==
  ASSUME IInv, NEW plan, IsPlan(plan), Follow(plan)
  PROVE  PrsGood' /\ PrsStay
<1>1. PrsGood /\ TypeOK
  BY DEF IInv, TypeOK, PrsGood
<1>2. plan \in Plans /\ plan.task \in Tasks /\ plan.task # None
  BY RoadmapAssumption DEF IsPlan, Plans
<1>3. PICK b : b = ExistingBranch(branches, plan)
  OBVIOUS
<1>4. PICK p : p = ExistingPr(prs, plan)
  OBVIOUS
<1>5. /\ b = None => \A c \in DOMAIN branches :
                       ~(branches[c].task = plan.task /\ branches[c].attempt = plan.attempt)
      /\ b # None => b \in DOMAIN branches
  BY <1>1, <1>3, BranchFound
<1>6. /\ p = None => \A i \in DOMAIN prs : prs[i].branch # plan.branch
      /\ p # None => /\ p \in DOMAIN prs
                     /\ \/ prs[p].task = plan.task
                        \/ prs[p].key = plan.key
                        \/ prs[p].branch = plan.branch
                        \/ prs[p].label = plan.task
                        \/ prs[p].title = plan.title
  BY <1>1, <1>4, PrFound
<1>7. ASSUME PrAction(branches, prs, plan) = "create", b = None,
             branches' = Append(branches, PlannedBranch(plan)), prs' = prs
      PROVE  PrsGood' /\ PrsStay
  <2> DEFINE branch == PlannedBranch(plan)
  <2>1. /\ branch.task = plan.task /\ branch.attempt = plan.attempt
    BY DEF PlannedBranch
  <2>2. branch \in Branch
    BY <1>2 DEF Plans, PlannedBranch, Branch
  <2>3. branches' = Append(branches, branch)
    BY <1>7
  <2> HIDE DEF branch
  <2> QED
    BY <1>1, <1>5, <1>7, <2>1, <2>2, <2>3, BranchMade
<1>8. ASSUME PrAction(branches, prs, plan) = "create", b # None,
             prs' = Append(prs, OpenedPr(PlannedPr(plan), plan.task)),
             branches' = branches
      PROVE  PrsGood' /\ PrsStay
  <2>1. /\ ~BranchConflicts(branches[b], plan)
        /\ p = None
    BY <1>3, <1>4, <1>8 DEF PrAction
  <2>2. branches[b] \in Branch
    BY <1>1, <1>5, <1>8 DEF PrsGood
  <2>3. /\ branches[b].name = plan.branch
        /\ branches[b].task = plan.task
        /\ branches[b].attempt = plan.attempt
    BY <2>1, <2>2, RoadmapAssumption DEF BranchConflicts, Branch
  <2> DEFINE made == PlannedPr(plan)
             pr == OpenedPr(made, plan.task)
  <2>4. /\ made.task = plan.task /\ made.attempt = plan.attempt
        /\ made.key = plan.key /\ made.branch = plan.branch
        /\ made.label = plan.task /\ made.title = plan.title
        /\ made.edition = plan.edition /\ made.open \in BOOLEAN
        /\ made.draft \in BOOLEAN /\ made.autoMerge \in BOOLEAN
    BY DEF PlannedPr
  <2>5. commits \in Nat
    BY <1>1 DEF TypeOK
  <2>6. /\ plan.attempt \in Nat /\ plan.key \in Nat \X Nat
        /\ plan.branch \in Number3 /\ plan.title \in Number3
        /\ plan.edition \in Nat /\ plan.key[1] = plan.task
        /\ plan.branch[1] = plan.task /\ plan.title[1] = plan.task
        /\ plan.attempt = 0 => ~IsLaterTask(plan.task)
    BY DEF IsPlan, Plans
  <2>7. prs' = Append(prs, pr)
    BY <1>8
  <2> HIDE DEF made
  <2>8. /\ pr \in Pr /\ PrIsOwn(pr)
        /\ pr.made = <<plan.task, plan.attempt>> /\ pr.branch = plan.branch
    BY <1>2, <2>4, <2>5, <2>6, OpenedPrIsOwn
  <2> HIDE DEF pr
  <2>9. IsOnBranch(pr, branches[b])
    BY <2>3, <2>8 DEF IsOnBranch
  <2>10. ASSUME NEW i \in DOMAIN prs, prs[i].made = pr.made
         PROVE  FALSE
    <3>1. ~OpenedByHand(prs[i])
      BY <2>6, <2>8, <2>10 DEF OpenedByHand
    <3>2. PICK c \in DOMAIN branches : IsOnBranch(prs[i], branches[c])
      BY <1>1, <3>1 DEF PrsGood, PrsOnBranches
    <3>3. branches[c].task = plan.task /\ branches[c].attempt = plan.attempt
      BY <2>8, <2>10, <3>2 DEF IsOnBranch
    <3>4. c = b
      BY <1>1, <1>5, <1>8, <2>3, <3>3 DEF PrsGood, OnePrPerAttempt
    <3> QED
      BY <1>6, <2>1, <2>3, <3>2, <3>4 DEF IsOnBranch
  <2> QED
    BY <1>1, <1>5, <1>8, <2>7, <2>8, <2>9, <2>10, PrOpened
<1>9. ASSUME PrAction(branches, prs, plan) = "update",
             prs' = [prs EXCEPT ![p].title = plan.title,
                                ![p].edition = plan.edition,
                                ![p].label = plan.task],
             branches' = branches
      PROVE  PrsGood' /\ PrsStay
  <2>1. p # None
    BY <1>3, <1>4, <1>9 DEF PrAction
  <2>2. p \in DOMAIN prs /\ prs[p] \in Pr /\ PrIsOwn(prs[p])
    BY <1>1, <1>6, <2>1 DEF PrsGood, PrsOwn
  <2>3. prs[p].made[1] = plan.task
    BY <1>2, <1>6, <2>1, <2>2 DEF PrIsOwn, IsPlan
  <2> DEFINE pr == [prs[p] EXCEPT !.title = plan.title,
                                  !.edition = plan.edition,
                                  !.label = plan.task]
  <2>4. prs' = [prs EXCEPT ![p] = pr]
    BY <1>9, <2>2
  <2>5. /\ plan.title \in Number3 /\ plan.edition \in Nat /\ plan.task \in Nat
        /\ plan.title[1] = plan.task
    BY <1>2, RoadmapAssumption DEF IsPlan, Plans
  <2>6. /\ pr \in Pr
        /\ pr.made = prs[p].made /\ pr.branch = prs[p].branch
        /\ pr.merged = prs[p].merged /\ pr.open = prs[p].open
        /\ pr.task = prs[p].task /\ pr.key = prs[p].key
        /\ pr.label = plan.task /\ pr.title = plan.title
    BY <2>2, <2>5 DEF Pr
  <2> HIDE DEF pr
  <2>7. PrIsOwn(pr)
    BY <2>2, <2>3, <2>5, <2>6 DEF PrIsOwn, IsMerged
  <2> QED
    BY <1>1, <1>9, <2>2, <2>4, <2>6, <2>7, PrChanged
<1> QED
  BY <1>3, <1>4, <1>7, <1>8, <1>9 DEF Follow

\* One opened by hand is the first for its task, which no planner plans for.
LEMMA OpenByHandKeepsPrs ==
  ASSUME IInv, NEW t \in Tasks, OpenByHand(t)
  PROVE  PrsGood' /\ PrsStay
<1>1. PrsGood /\ commits \in Nat
  BY DEF IInv, TypeOK, PrsGood
<1> DEFINE made == [task |-> None, attempt |-> 0, key |-> NoKey,
                    branch |-> <<t, 0, 1>>, label |-> t, title |-> <<t, 0, 1>>,
                    edition |-> 0, open |-> TRUE, draft |-> TRUE,
                    autoMerge |-> FALSE]
           pr == OpenedPr(made, t)
<1>2. /\ prs' = Append(prs, pr) /\ branches' = branches
      /\ IsLaterTask(t) /\ \A i \in DOMAIN prs : prs[i].made[1] # t
  BY DEF OpenByHand, roadmap, owner, outcome
<1>3. t \in Nat
  BY RoadmapAssumption
<1>4. /\ made.task = None /\ made.attempt = 0 /\ made.key = NoKey
      /\ made.branch = <<t, 0, 1>> /\ made.label = t /\ made.title = <<t, 0, 1>>
      /\ made.edition = 0 /\ made.open = TRUE /\ made.draft = TRUE
      /\ made.autoMerge = FALSE
  OBVIOUS
<1>5. /\ NoKey \in Nat \X Nat /\ NoKey[1] = None
      /\ <<t, 0, 1>> \in Number3 /\ <<t, 0, 1>>[1] = t
  BY <1>3 DEF NoKey, None, Number3
<1> HIDE DEF made
<1>6. /\ pr \in Pr /\ PrIsOwn(pr) /\ pr.made = <<t, 0>>
  <2>1. /\ made.task \in {None, t} /\ made.attempt \in Nat
        /\ made.key \in Nat \X Nat /\ made.key[1] \in {None, t}
        /\ made.branch \in Number3 /\ made.branch[1] = t
        /\ made.label = t /\ made.title \in Number3 /\ made.title[1] = t
        /\ made.edition \in Nat /\ made.open \in BOOLEAN
        /\ made.draft \in BOOLEAN /\ made.autoMerge \in BOOLEAN
    <3>1. made.task \in {None, t} /\ made.attempt \in Nat /\ made.label = t
      BY <1>4
    <3>2. made.key \in Nat \X Nat /\ made.key[1] \in {None, t}
      BY <1>4, <1>5
    <3>3. /\ made.branch \in Number3 /\ made.branch[1] = t
          /\ made.title \in Number3 /\ made.title[1] = t
      BY <1>4, <1>5
    <3>4. made.edition \in Nat
      BY <1>4
    <3>5. made.open \in BOOLEAN /\ made.draft \in BOOLEAN /\ made.autoMerge \in BOOLEAN
      BY <1>4
    <3> QED
      BY <3>1, <3>2, <3>3, <3>4, <3>5
  <2>2. commits \in Nat
    BY <1>1
  <2>3. LET opened == OpenedPr(made, t) IN
        /\ opened \in Pr /\ PrIsOwn(opened)
        /\ opened.made = <<t, made.attempt>> /\ opened.branch = made.branch
    BY <2>1, <2>2, OpenedPrIsOwn
  <2> QED
    BY <1>4, <2>3
<1> HIDE DEF pr
<1>7. OpenedByHand(pr)
  BY <1>2, <1>6 DEF OpenedByHand
<1>8. \A i \in DOMAIN prs : prs[i].made # pr.made
  BY <1>2, <1>6
<1> QED
  BY <1>1, <1>2, <1>6, <1>7, <1>8, PrOpened

\* Review takes the draft mark away, and a merge closes.
LEMMA ReviewKeepsPrs ==
  ASSUME IInv, NEW i \in DOMAIN prs, NEW t, MarkReady(i, t) \/ Merge(i, t)
  PROVE  PrsGood' /\ PrsStay
<1>1. PrsGood /\ commits \in Nat
  BY DEF IInv, TypeOK, PrsGood
<1>2. prs[i] \in Pr /\ PrIsOwn(prs[i])
  BY <1>1 DEF PrsGood, PrsOwn
<1>3. ASSUME MarkReady(i, t)
      PROVE  PrsGood' /\ PrsStay
  <2> DEFINE pr == [prs[i] EXCEPT !.draft = FALSE]
  <2>1. prs' = [prs EXCEPT ![i] = pr] /\ branches' = branches
    BY <1>3 DEF MarkReady
  <2>2. /\ pr \in Pr
        /\ pr.made = prs[i].made /\ pr.branch = prs[i].branch
        /\ pr.merged = prs[i].merged /\ pr.open = prs[i].open
        /\ pr.task = prs[i].task /\ pr.key = prs[i].key
        /\ pr.label = prs[i].label /\ pr.title = prs[i].title
    BY <1>2 DEF Pr
  <2> HIDE DEF pr
  <2>3. PrIsOwn(pr)
    BY <1>2, <2>2 DEF PrIsOwn, IsMerged
  <2> QED
    BY <1>1, <2>1, <2>2, <2>3, PrChanged
<1>4. ASSUME Merge(i, t)
      PROVE  PrsGood' /\ PrsStay
  <2>0. PICK merge \in Nat : merge = commits + 1
    BY <1>1
  <2> DEFINE pr == [prs[i] EXCEPT !.open = FALSE, !.merged = merge]
  <2>1. /\ prs[i].open /\ branches' = branches
        /\ prs' = [prs EXCEPT ![i].open = FALSE, ![i].merged = merge]
    BY <1>4, <2>0 DEF Merge
  <2>2. prs' = [prs EXCEPT ![i] = pr]
    BY <2>1
  <2>3. /\ pr \in Pr
        /\ pr.made = prs[i].made /\ pr.branch = prs[i].branch
        /\ pr.open = FALSE
        /\ pr.task = prs[i].task /\ pr.key = prs[i].key
        /\ pr.label = prs[i].label /\ pr.title = prs[i].title
    BY <1>1, <1>2 DEF Pr
  <2> HIDE DEF pr
  <2>4. PrIsOwn(pr)
    BY <1>2, <2>3 DEF PrIsOwn, IsMerged
  <2>5. ~IsMerged(prs[i])
    BY <1>2, <2>1 DEF PrIsOwn
  <2> QED
    BY <1>1, <2>1, <2>2, <2>3, <2>4, <2>5, PrChanged
<1> QED
  BY <1>3, <1>4

\* Edits take marks away, close, and push.
LEMMA EditsKeepPrs ==
  ASSUME IInv, EditPrs, branches' = branches
  PROVE  PrsGood' /\ PrsStay /\ commits' \in Nat
<1>1. PrsGood /\ commits \in Nat
  BY DEF IInv, TypeOK, PrsGood
<1>2. PICK i \in DOMAIN prs :
        \/ /\ \/ \E mark \in Marks : StripPr(i, mark)
              \/ prs' = [prs EXCEPT ![i].open = FALSE]
           /\ UNCHANGED commits
        \/ /\ \E p \in Pushed \ prs[i].paths :
                 prs' = [prs EXCEPT ![i].paths = @ \cup {p}, ![i].head = commits + 1]
           /\ commits' = commits + 1
  BY DEF EditPrs
<1>3. prs[i] \in Pr /\ PrIsOwn(prs[i])
  BY <1>1 DEF PrsGood, PrsOwn
<1>4. ASSUME NEW mark \in Marks, StripPr(i, mark)
      PROVE  PrsGood' /\ PrsStay
  <2> DEFINE pr == [prs[i] EXCEPT ![mark] = Blank[mark]]
  <2>1. prs' = [prs EXCEPT ![i] = pr]
    BY <1>4 DEF StripPr
  <2>2. /\ NoKey \in Nat \X Nat /\ NoKey[1] = None
        /\ NoName \in Number3 /\ NoName[1] = None /\ None \in Nat
    BY DEF NoKey, NoName, None, Number3
  <2>3. /\ mark = "task" => Blank[mark] = None
        /\ mark = "key" => Blank[mark] = NoKey
        /\ mark = "label" => Blank[mark] = None
        /\ mark = "title" => Blank[mark] = NoName
    BY DEF Blank
  <2>4. mark \in {"task", "key", "label", "title"}
    BY <1>4 DEF Marks
  <2>5. /\ pr \in Pr
        /\ pr.made = prs[i].made /\ pr.branch = prs[i].branch
        /\ pr.merged = prs[i].merged /\ pr.open = prs[i].open
        /\ pr.task \in {None, prs[i].task} /\ pr.key \in {NoKey, prs[i].key}
        /\ pr.label \in {None, prs[i].label} /\ pr.title \in {NoName, prs[i].title}
    <3>1. CASE mark = "task"
      BY <1>3, <2>2, <2>3, <3>1 DEF Pr
    <3>2. CASE mark = "key"
      BY <1>3, <2>2, <2>3, <3>2 DEF Pr
    <3>3. CASE mark = "label"
      BY <1>3, <2>2, <2>3, <3>3 DEF Pr
    <3>4. CASE mark = "title"
      BY <1>3, <2>2, <2>3, <3>4 DEF Pr
    <3> QED
      BY <2>4, <3>1, <3>2, <3>3, <3>4
  <2> HIDE DEF pr
  <2>6. PrIsOwn(pr)
    BY <1>3, <2>2, <2>5 DEF PrIsOwn, IsMerged
  <2> QED
    BY <1>1, <2>1, <2>5, <2>6, PrChanged
<1>5. ASSUME prs' = [prs EXCEPT ![i].open = FALSE]
      PROVE  PrsGood' /\ PrsStay
  <2> DEFINE pr == [prs[i] EXCEPT !.open = FALSE]
  <2>1. prs' = [prs EXCEPT ![i] = pr]
    BY <1>5
  <2>2. /\ pr \in Pr
        /\ pr.made = prs[i].made /\ pr.branch = prs[i].branch
        /\ pr.merged = prs[i].merged /\ pr.open = FALSE
        /\ pr.task = prs[i].task /\ pr.key = prs[i].key
        /\ pr.label = prs[i].label /\ pr.title = prs[i].title
    BY <1>3 DEF Pr
  <2> HIDE DEF pr
  <2>3. PrIsOwn(pr)
    BY <1>3, <2>2 DEF PrIsOwn, IsMerged
  <2> QED
    BY <1>1, <2>1, <2>2, <2>3, PrChanged
<1>6. ASSUME NEW p \in Pushed,
             prs' = [prs EXCEPT ![i].paths = @ \cup {p}, ![i].head = commits + 1]
      PROVE  PrsGood' /\ PrsStay
  <2>4. PICK paths \in SUBSET (Paths \cup Pushed) : paths = prs[i].paths \cup {p}
    <3>1. prs[i].paths \in SUBSET (Paths \cup Pushed)
      BY <1>3 DEF Pr
    <3> QED
      BY <3>1
  <2>5. PICK head \in Nat : head = commits + 1
    BY <1>1
  <2> DEFINE pr == [prs[i] EXCEPT !.paths = paths, !.head = head]
  <2>1. prs' = [prs EXCEPT ![i] = pr]
    BY <1>6, <2>4, <2>5
  <2>2. /\ pr \in Pr
        /\ pr.made = prs[i].made /\ pr.branch = prs[i].branch
        /\ pr.merged = prs[i].merged /\ pr.open = prs[i].open
        /\ pr.task = prs[i].task /\ pr.key = prs[i].key
        /\ pr.label = prs[i].label /\ pr.title = prs[i].title
    BY <1>1, <1>3 DEF Pr
  <2> HIDE DEF pr
  <2>3. PrIsOwn(pr)
    BY <1>3, <2>2 DEF PrIsOwn, IsMerged
  <2> QED
    BY <1>1, <2>1, <2>2, <2>3, PrChanged
<1>7. CASE /\ \/ \E mark \in Marks : StripPr(i, mark)
              \/ prs' = [prs EXCEPT ![i].open = FALSE]
           /\ UNCHANGED commits
  BY <1>1, <1>4, <1>5, <1>7
<1>8. CASE /\ \E p \in Pushed \ prs[i].paths :
                prs' = [prs EXCEPT ![i].paths = @ \cup {p}, ![i].head = commits + 1]
           /\ commits' = commits + 1
  <2>1. commits' \in Nat
    BY <1>1, <1>8
  <2> QED
    BY <1>6, <1>8, <2>1
<1> QED
  BY <1>2, <1>7, <1>8

-----------------------------------------------------------------------------
(* Who writes what                                                            *)

\* The materializer and people write issues.
LEMMA WhoWritesIssues ==
  ASSUME Next
  PROVE  \/ issues' = issues
         \/ \E t \in Tasks : Materialize(t)
         \/ EditIssues
<1> USE DEF roadmap, repository, owner, outcome
<1>1. Work => issues' = issues \/ \E t \in Tasks : Materialize(t)
  <2>1. Run => issues' = issues
    BY DEF Run, RunPasses
  <2>2. Select => issues' = issues
    BY DEF Select, SelectNext
  <2>3. Review => issues' = issues
    BY DEF Review, Approve, MarkReady, Merge, Verify, Publish
  <2>4. Plan => issues' = issues \/ \E t \in Tasks : Materialize(t)
    BY DEF Plan, Orchestrate, Repair, RecordAttempt, OpenByHand
  <2> QED
    BY <2>1, <2>2, <2>3, <2>4 DEF Work
<1>2. Mislead => issues' = issues
  BY DEF Mislead, RunMisleads
<1>3. Edit => issues' = issues \/ EditIssues
  BY DEF Edit, EditPrs
<1>4. Tick => issues' = issues
  BY DEF Tick
<1> QED
  BY <1>1, <1>2, <1>3, <1>4 DEF Next

\* The two planners of pull requests, reviewers and people write them.
LEMMA WhoWritesPrs ==
  ASSUME Next
  PROVE  \/ UNCHANGED <<branches, prs, commits>>
         \/ \E t \in Tasks : Orchestrate(t) \/ OpenByHand(t)
         \/ \E r \in reports : Repair(CiRun(r))
         \/ \E t \in Tasks : \E i \in DOMAIN prs : MarkReady(i, t) \/ Merge(i, t)
         \/ EditPrs /\ branches' = branches
<1> USE DEF roadmap, repository, owner, outcome
<1>1. Run => UNCHANGED <<branches, prs, commits>>
  BY DEF Run, RunPasses
<1>2. Select => UNCHANGED <<branches, prs, commits>>
  BY DEF Select, SelectNext
<1>3. Review => \/ UNCHANGED <<branches, prs, commits>>
                \/ \E t \in Tasks : \E i \in DOMAIN prs : MarkReady(i, t) \/ Merge(i, t)
  BY DEF Review, Approve, Verify, Publish, PrsOf
<1>4. Plan => \/ UNCHANGED <<branches, prs, commits>>
              \/ \E t \in Tasks : Orchestrate(t) \/ OpenByHand(t)
              \/ \E r \in reports : Repair(CiRun(r))
  BY DEF Plan, Materialize, RecordAttempt
<1>5. Mislead => UNCHANGED <<branches, prs, commits>>
  BY DEF Mislead, RunMisleads
<1>6. Edit => \/ UNCHANGED <<branches, prs, commits>>
              \/ EditPrs /\ branches' = branches
  BY DEF Edit, EditIssues
<1>7. Tick => UNCHANGED <<branches, prs, commits>>
  BY DEF Tick
<1> QED
  BY <1>1, <1>2, <1>3, <1>4, <1>5, <1>6, <1>7 DEF Next, Work

\* The verification sync and people write the roadmap.
LEMMA WhoWritesRoadmap ==
  ASSUME Next
  PROVE  \/ UNCHANGED <<status, entries, recorded>>
         \/ \E t \in Tasks : \E i \in PrsOf(prs, t) : Verify(i, t)
         \/ EditRoadmap /\ recorded' = recorded
<1> USE DEF roadmap, repository, owner, outcome
<1>1. Run => UNCHANGED <<status, entries, recorded>>
  BY DEF Run, RunPasses
<1>2. Select => UNCHANGED <<status, entries, recorded>>
  BY DEF Select, SelectNext
<1>3. Review => \/ UNCHANGED <<status, entries, recorded>>
                \/ \E t \in Tasks : \E i \in PrsOf(prs, t) : Verify(i, t)
  BY DEF Review, Approve, MarkReady, Merge, Publish
<1>4. Plan => UNCHANGED <<status, entries, recorded>>
  BY DEF Plan, Materialize, Orchestrate, Repair, RecordAttempt, OpenByHand
<1>5. Mislead => UNCHANGED <<status, entries, recorded>>
  BY DEF Mislead, RunMisleads
<1>6. Edit => \/ UNCHANGED <<status, entries, recorded>>
              \/ EditRoadmap /\ recorded' = recorded
  BY DEF Edit
<1>7. Tick => UNCHANGED <<status, entries, recorded>>
  BY DEF Tick
<1> QED
  BY <1>1, <1>2, <1>3, <1>4, <1>5, <1>6, <1>7 DEF Next, Work

\* Runs report, the repair loop's attempts are recorded, and time passes.
LEMMA WhoWritesTheRest ==
  ASSUME Next
  PROVE  /\ \/ reports' = reports
            \/ \E c \in RunnableCommits, failed \in SUBSET Names, noOp \in BOOLEAN :
                 Reported(c, failed, noOp)
         /\ \/ attempts' = attempts
            \/ \E n \in 1..AttemptLimit : RecordAttempt(n)
         /\ now' = now \/ now' = now + TickHours
         /\ selected' = selected \/ \E c \in RunnableCommits : SelectNext(c)
<1> USE DEF roadmap, repository, owner, outcome
<1> DEFINE Goal ==
         /\ \/ reports' = reports
            \/ \E c \in RunnableCommits, failed \in SUBSET Names, noOp \in BOOLEAN :
                 Reported(c, failed, noOp)
         /\ \/ attempts' = attempts
            \/ \E n \in 1..AttemptLimit : RecordAttempt(n)
         /\ now' = now \/ now' = now + TickHours
         /\ selected' = selected \/ \E c \in RunnableCommits : SelectNext(c)
<1>1. Run => Goal
  BY DEF Run, RunPasses
<1>2. Select => Goal
  BY DEF Select, SelectNext
<1>3. Review => Goal
  BY DEF Review, Approve, MarkReady, Merge, Verify, Publish
<1>4. Plan => Goal
  BY DEF Plan, Materialize, Orchestrate, Repair, RecordAttempt, OpenByHand
<1>5. Mislead => Goal
  BY FactoryAssumption DEF Mislead, RunMisleads
<1>6. Edit => Goal
  BY DEF Edit
<1>7. Tick => Goal
  BY DEF Tick
<1> QED
  BY <1>1, <1>2, <1>3, <1>4, <1>5, <1>6, <1>7 DEF Next, Work

-----------------------------------------------------------------------------
(* The invariant holds                                                        *)

\* What matches a task was opened for it.
LEMMA MatchIsOwn ==
  ASSUME NEW pr, NEW t \in Tasks, PrIsOwn(pr), MatchesTask(pr, t)
  PROVE  pr.made[1] = t
<1>1. t # None
  BY RoadmapAssumption
<1> QED
  BY <1>1 DEF PrIsOwn, MatchesTask

LEMMA StepKeepsIssues ==
  ASSUME IInv, Next
  PROVE  IssuesGood'
<1>1. IssuesGood
  BY DEF IInv, TypeOK, IssuesGood
<1>2. CASE issues' = issues
  BY <1>1, <1>2 DEF IssuesGood, IssuesOwn, IssueIsOwn, OneIssuePerTask
<1> QED
  BY <1>1, <1>2, WhoWritesIssues, MaterializeKeepsIssues, EditsKeepIssues

LEMMA StepKeepsPrs ==
  ASSUME IInv, Next
  PROVE  PrsGood' /\ PrsStay /\ commits' \in Nat
<1>1. PrsGood /\ TypeOK /\ commits \in Nat
  BY DEF IInv, TypeOK, PrsGood
<1>2. CASE UNCHANGED <<branches, prs, commits>>
  <2>1. PrsGood'
    BY <1>1, <1>2 DEF PrsGood, PrsOwn, PrsOnBranches, OnePrPerAttempt
  <2> QED
    BY <1>1, <1>2, <2>1 DEF PrsStay
<1>3. ASSUME NEW t \in Tasks, Orchestrate(t)
      PROVE  PrsGood' /\ PrsStay /\ commits' \in Nat
  <2>1. PICK plan : plan = DraftPlan(t, entries[t])
    OBVIOUS
  <2>2. Follow(plan) /\ ~IsLaterTask(t)
    BY <1>3, <2>1 DEF Orchestrate, CanOrchestrate
  <2>3. IsPlan(plan)
    BY <1>1, <2>1, <2>2, DraftIsPlan
  <2>4. commits' \in Nat
    BY <1>1, <2>2 DEF Follow
  <2> QED
    BY <2>2, <2>3, <2>4, FollowKeepsPrs
<1>4. ASSUME NEW t \in Tasks, OpenByHand(t)
      PROVE  PrsGood' /\ PrsStay /\ commits' \in Nat
  <2>1. commits' = commits + 1
    BY <1>4 DEF OpenByHand
  <2> QED
    BY <1>1, <1>4, <2>1, OpenByHandKeepsPrs
<1>5. ASSUME NEW r \in reports, Repair(CiRun(r))
      PROVE  PrsGood' /\ PrsStay /\ commits' \in Nat
  <2>1. PICK plan : plan = RepairPlan(NextAttempt(attempts),
                                      RepairTarget(CiRun(r), now, RepairMaxAge))
    OBVIOUS
  <2>2. /\ Follow(plan)
        /\ CanRepair(status, branches, prs, attempts, CiRun(r), now, RepairMaxAge)
    BY <1>5, <2>1 DEF Repair
  <2>3. IsPlan(plan)
    BY <1>1, <2>1, <2>2, RepairIsPlan
  <2>4. commits' \in Nat
    BY <1>1, <2>2 DEF Follow
  <2> QED
    BY <2>2, <2>3, <2>4, FollowKeepsPrs
<1>6. ASSUME NEW t \in Tasks, NEW i \in DOMAIN prs, MarkReady(i, t) \/ Merge(i, t)
      PROVE  PrsGood' /\ PrsStay /\ commits' \in Nat
  <2>1. commits' \in Nat
    BY <1>1, <1>6 DEF MarkReady, Merge
  <2> QED
    BY <1>6, <2>1, ReviewKeepsPrs
<1>7. CASE EditPrs /\ branches' = branches
  BY <1>7, EditsKeepPrs
<1> QED
  BY <1>2, <1>3, <1>4, <1>5, <1>6, <1>7, WhoWritesPrs

RoadmapTyped ==
  /\ status \in [Tasks -> Statuses]
  /\ entries \in [Tasks -> Entry]
  /\ recorded \in [Tasks -> SUBSET (Nat \X Nat)]

\* Only the verification sync verifies, with the merge it puts on record.
LEMMA StepKeepsRoadmap ==
  ASSUME IInv, Next, PrsStay
  PROVE  RoadmapTyped' /\ VerifiedIsRecorded'
<1>1. RoadmapTyped
  BY DEF IInv, TypeOK, RoadmapTyped
<1>2. \A t \in Tasks, i \in DOMAIN prs :
        IsOnRecord(t, i) /\ recorded[t] \subseteq recorded'[t] =>
          i \in DOMAIN prs' /\ IsOnRecord(t, i)'
  <2> SUFFICES ASSUME NEW t \in Tasks, NEW i \in DOMAIN prs,
                      IsOnRecord(t, i), recorded[t] \subseteq recorded'[t]
               PROVE  i \in DOMAIN prs' /\ IsOnRecord(t, i)'
    OBVIOUS
  <2>1. /\ i \in DOMAIN prs' /\ prs'[i].made = prs[i].made
        /\ prs'[i].merged = prs[i].merged
    BY DEF PrsStay, IsOnRecord
  <2> QED
    BY <2>1 DEF IsOnRecord, IsMerged
<1>3. CASE UNCHANGED <<status, entries, recorded>>
  <2>1. VerifiedIsRecorded'
    BY <1>2, <1>3 DEF IInv, VerifiedIsRecorded
  <2> QED
    BY <1>1, <1>3, <2>1 DEF RoadmapTyped
<1>4. ASSUME NEW t \in Tasks, NEW i \in PrsOf(prs, t), Verify(i, t)
      PROVE  RoadmapTyped' /\ VerifiedIsRecorded'
  <2>1. /\ status' = [u \in Tasks |-> IF u = t THEN "verified"
                                      ELSE IF u \in UnlockedBy(status, t) THEN "ready"
                                      ELSE status[u]]
        /\ recorded' = [recorded EXCEPT ![t] = @ \cup {<<i, prs[i].merged>>}]
        /\ UNCHANGED <<entries, prs>> /\ IsMerged(prs[i])
    BY <1>4 DEF Verify, repository
  <2>2. i \in DOMAIN prs /\ MatchesTask(prs[i], t)
    BY DEF PrsOf
  <2>3. i \in Nat /\ prs[i].merged \in Nat
    <3>1. i \in Nat /\ prs[i] \in Pr
      BY <2>2 DEF IInv, TypeOK
    <3> QED
      BY <3>1 DEF Pr
  <2>4. prs[i].made[1] = t
    BY <2>2, MatchIsOwn DEF IInv, PrsOwn
  <2>5. /\ \A u \in Tasks : recorded[u] \subseteq recorded'[u]
        /\ <<i, prs[i].merged>> \in recorded'[t]
    BY <1>1, <2>1 DEF RoadmapTyped
  <2>6. RoadmapTyped'
    <3>1. status' \in [Tasks -> Statuses]
      <4>1. \A u \in Tasks : status[u] \in Statuses
        BY <1>1 DEF RoadmapTyped
      <4>2. "verified" \in Statuses /\ "ready" \in Statuses
        BY DEF Statuses
      <4> HIDE DEF Statuses
      <4> QED
        BY <2>1, <4>1, <4>2
    <3>2. recorded' \in [Tasks -> SUBSET (Nat \X Nat)]
      BY <1>1, <2>1, <2>3 DEF RoadmapTyped
    <3> QED
      BY <1>1, <2>1, <3>1, <3>2 DEF RoadmapTyped
  <2>7. ASSUME NEW u \in Tasks, status'[u] = "verified"
        PROVE  \E k \in DOMAIN prs' : IsOnRecord(u, k)'
    <3>1. CASE u = t
      BY <2>1, <2>2, <2>4, <2>5, <3>1 DEF IsOnRecord, IsMerged
    <3>2. CASE u # t
      <4>1. status[u] = "verified"
        BY <2>1, <2>7, <3>2
      <4> QED
        BY <1>2, <2>5, <4>1 DEF IInv, VerifiedIsRecorded
    <3> QED
      BY <3>1, <3>2
  <2> QED
    BY <2>6, <2>7 DEF VerifiedIsRecorded
<1>5. CASE EditRoadmap /\ recorded' = recorded
  <2>1. RoadmapTyped'
    <3>1. ASSUME NEW t \in ReadyTasks(status), status' = status,
                 \/ entries' = [entries EXCEPT ![t].edition = @ + 1]
                 \/ entries' = [entries EXCEPT ![t].edition = @ + 1,
                                               ![t].title = @ + 1, ![t].slug = @ + 1]
          PROVE  RoadmapTyped'
      <4>1. t \in Tasks /\ entries[t] \in Entry
        BY <1>1 DEF RoadmapTyped, ReadyTasks
      <4>2. PICK edition \in Nat, title \in Nat, slug \in Nat :
              /\ edition = entries[t].edition + 1
              /\ title = entries[t].title + 1 /\ slug = entries[t].slug + 1
        <5>1. entries[t].edition \in Nat /\ entries[t].title \in Nat
              /\ entries[t].slug \in Nat
          BY <4>1 DEF Entry
        <5>2. \A n \in Nat : n + 1 \in Nat
          OBVIOUS
        <5> QED
          BY <5>1, <5>2
      <4>3. ASSUME entries' = [entries EXCEPT ![t].edition = edition]
            PROVE  entries' \in [Tasks -> Entry]
        <5> DEFINE entry == [entries[t] EXCEPT !.edition = edition]
        <5>1. entry \in Entry
          BY <4>1 DEF Entry
        <5>2. entries' = [entries EXCEPT ![t] = entry]
          BY <4>3
        <5> HIDE DEF entry
        <5> QED
          BY <1>1, <5>1, <5>2 DEF RoadmapTyped
      <4>4. ASSUME entries' = [entries EXCEPT ![t].edition = edition,
                                              ![t].title = title, ![t].slug = slug]
            PROVE  entries' \in [Tasks -> Entry]
        <5> DEFINE entry == [entries[t] EXCEPT !.edition = edition,
                                               !.title = title, !.slug = slug]
        <5>1. entry \in Entry
          BY <4>1 DEF Entry
        <5>2. entries' = [entries EXCEPT ![t] = entry]
          BY <1>1, <4>1, <4>4 DEF RoadmapTyped
        <5> HIDE DEF entry
        <5> QED
          BY <1>1, <5>1, <5>2 DEF RoadmapTyped
      <4>5. entries' \in [Tasks -> Entry]
        BY <3>1, <4>2, <4>3, <4>4
      <4> QED
        BY <1>1, <1>5, <3>1, <4>5 DEF RoadmapTyped
    <3>2. ASSUME NEW t \in GateTasks, NEW s \in {"in_progress", "ready"},
                 status' = [status EXCEPT ![t] = s], entries' = entries
          PROVE  RoadmapTyped'
      BY <1>1, <1>5, <3>2 DEF RoadmapTyped, Statuses
    <3> QED
      BY <1>5, <3>1, <3>2 DEF EditRoadmap
  <2>2. \A t \in Tasks : status'[t] = "verified" => status[t] = "verified"
    BY <1>1, <1>5 DEF EditRoadmap, RoadmapTyped
  <2>3. VerifiedIsRecorded'
    BY <1>2, <1>5, <2>2 DEF IInv, VerifiedIsRecorded
  <2> QED
    BY <2>1, <2>3
<1> QED
  BY <1>3, <1>4, <1>5, WhoWritesRoadmap

RestTyped ==
  /\ reports \subseteq Report /\ IsFiniteSet(reports)
  /\ attempts \in Seq(Attempt)
  /\ now \in Nat

LEMMA StepKeepsTheRest ==
  ASSUME IInv, Next
  PROVE  RestTyped'
<1>1. /\ reports \subseteq Report /\ IsFiniteSet(reports)
      /\ attempts \in Seq(Attempt) /\ now \in Nat
  BY DEF IInv, TypeOK
<1>2. reports' \subseteq Report /\ IsFiniteSet(reports')
  <2>1. ASSUME NEW c \in RunnableCommits, NEW failed \in SUBSET Names,
               NEW noOp \in BOOLEAN, Reported(c, failed, noOp)
        PROVE  reports' \subseteq Report /\ IsFiniteSet(reports')
    <3>1. c \in Nat
      <4>1. \A i \in DOMAIN prs : prs[i].head \in Nat /\ prs[i].merged \in Nat
        <5> SUFFICES ASSUME NEW i \in DOMAIN prs
                     PROVE  prs[i].head \in Nat /\ prs[i].merged \in Nat
          OBVIOUS
        <5>1. prs[i] \in Pr
          BY DEF IInv, TypeOK
        <5> QED
          BY <5>1 DEF Pr
      <4> QED
        BY <4>1 DEF RunnableCommits
    <3>2. PICK text \in Nat : text = Cardinality(reports) + 1
      BY <1>1, FS_CardinalityType
    <3> DEFINE report == [commit |-> c, failed |-> failed, noOp |-> noOp,
                          at |-> now, text |-> text]
    <3>3. report \in Report
      BY <1>1, <3>1, <3>2 DEF Report
    <3>4. reports' = reports \cup {report}
      BY <2>1, <3>2 DEF Reported
    <3> HIDE DEF report
    <3>5. IsFiniteSet(reports \cup {report})
      BY <1>1, FS_AddElement
    <3> QED
      BY <1>1, <3>3, <3>4, <3>5
  <2> QED
    BY <1>1, <2>1, WhoWritesTheRest
<1>3. attempts' \in Seq(Attempt)
  <2>1. ASSUME NEW n \in 1..AttemptLimit, RecordAttempt(n)
        PROVE  attempts' \in Seq(Attempt)
    <3> DEFINE attempt == [number |-> n]
    <3>1. attempt \in Attempt
      BY DEF Attempt
    <3>2. attempts' = Append(attempts, attempt)
      BY <2>1 DEF RecordAttempt
    <3> HIDE DEF attempt
    <3> QED
      BY <1>1, <3>1, <3>2
  <2> QED
    BY <1>1, <2>1, WhoWritesTheRest
<1>4. now' \in Nat
  BY <1>1, FactoryAssumption, WhoWritesTheRest
<1> QED
  BY <1>2, <1>3, <1>4 DEF RestTyped

LEMMA InitIsGood == Init => IInv
<1> SUFFICES ASSUME Init
             PROVE  IInv
  OBVIOUS
<1>1. status \in [Tasks -> Statuses]
  BY DEF Init, Statuses
<1>2. entries \in [Tasks -> Entry]
  <2>1. [title |-> 0, slug |-> 0, edition |-> 0] \in Entry
    BY DEF Entry
  <2> QED
    BY <2>1 DEF Init
<1>3. recorded \in [Tasks -> SUBSET (Nat \X Nat)]
  BY DEF Init
<1>4. /\ issues = <<>> /\ branches = <<>> /\ prs = <<>> /\ attempts = <<>>
      /\ reports = {} /\ commits = 0 /\ now = 0
  BY DEF Init
<1>5. TypeOK
  BY <1>1, <1>2, <1>3, <1>4, FS_EmptySet DEF TypeOK
<1>6. IssuesOwn /\ PrsOwn /\ PrsOnBranches
  BY <1>4 DEF IssuesOwn, PrsOwn, PrsOnBranches
<1>7. OneIssuePerTask /\ OnePrPerAttempt
  BY <1>4 DEF OneIssuePerTask, OnePrPerAttempt
<1>8. VerifiedIsRecorded
  BY DEF Init, VerifiedIsRecorded
<1> QED
  BY <1>5, <1>6, <1>7, <1>8 DEF IInv

LEMMA StepIsGood == IInv /\ [Next]_vars => IInv'
<1> SUFFICES ASSUME IInv, [Next]_vars
             PROVE  IInv'
  OBVIOUS
<1>1. CASE Next
  <2>1. IssuesGood'
    BY <1>1, StepKeepsIssues
  <2>2. PrsGood' /\ PrsStay /\ commits' \in Nat
    BY <1>1, StepKeepsPrs
  <2>3. RoadmapTyped' /\ VerifiedIsRecorded'
    BY <1>1, <2>2, StepKeepsRoadmap
  <2>4. RestTyped'
    BY <1>1, StepKeepsTheRest
  <2>5. TypeOK'
    BY <2>1, <2>2, <2>3, <2>4
       DEF TypeOK, IssuesGood, PrsGood, RoadmapTyped, RestTyped
  <2> QED
    BY <2>1, <2>2, <2>3, <2>5 DEF IInv, IssuesGood, PrsGood
<1>2. CASE UNCHANGED vars
  <2>1. UNCHANGED <<status, entries, recorded, issues, branches, prs, commits,
                    reports, attempts, now>>
    BY <1>2 DEF vars
  <2>2. TypeOK'
    BY <2>1 DEF IInv, TypeOK
  <2>3. IssuesOwn' /\ OneIssuePerTask'
    BY <2>1 DEF IInv, IssuesOwn, IssueIsOwn, OneIssuePerTask
  <2>4. PrsOwn'
    BY <2>1 DEF IInv, PrsOwn, PrIsOwn, IsMerged
  <2>5. PrsOnBranches' /\ OnePrPerAttempt'
    BY <2>1 DEF IInv, PrsOnBranches, OpenedByHand, IsOnBranch, OnePrPerAttempt
  <2>6. VerifiedIsRecorded'
    BY <2>1 DEF IInv, VerifiedIsRecorded, IsOnRecord, IsMerged
  <2> QED
    BY <2>2, <2>3, <2>4, <2>5, <2>6 DEF IInv
<1> QED
  BY <1>1, <1>2

\* The invariant of the factory: what every step may rely on.
THEOREM FactoryInvariant == Spec => []IInv
  BY InitIsGood, StepIsGood, PTL DEF Spec

-----------------------------------------------------------------------------
(* What is never made twice                                                   *)

\* However issues are closed, stripped of marks or rewritten between plans, no
\* second issue is made for a task while the first names it
\* (roadmap-issue-materializer.ts, findExistingIssue).
THEOREM NoIssueTwice == Spec => []OneIssuePerTask
<1>1. IInv => OneIssuePerTask
  BY DEF IInv
<1> QED
  BY <1>1, FactoryInvariant, PTL

\* However pull requests are edited and wherever the operator stops, no second
\* branch or pull request is made for a task's draft or for a numbered repair
\* (draft-pr-orchestrator.ts and ci-repair-loop.ts, determineAction).
THEOREM NoPrTwice == Spec => []OnePrPerAttempt
<1>1. IInv => OnePrPerAttempt
  BY DEF IInv
<1> QED
  BY <1>1, FactoryInvariant, PTL

-----------------------------------------------------------------------------
(* What verifying rests on                                                    *)

\* Whether all runs of a commit are listed or the last one alone, the guard lets
\* the list pass only if the last run itself passed.
LEMMA ListedRunIsLast ==
  ASSUME IInv, NEW t \in Tasks, NEW c, NEW items \in Listings(c),
         NEW rollback \in Named(items, Rollback),
         EvidencePasses(items, Checks, c, now),
         EvidencePasses(items, Validation[t], c, now),
         RollbackPasses(rollback, c, now)
  PROVE  LastRunPassed(c, Checks \cup Validation[t] \cup {Rollback})
<1> DEFINE Item(r, n) ==
      [name |-> n, status |-> IF n \in r.failed THEN "failed" ELSE "passed",
       text |-> r.text, commit |-> r.commit, at |-> r.at, noOp |-> r.noOp]
<1>1. PICK runs : /\ items = Results(runs)
                  /\ runs = ReportsOf(c) \/ runs = LatestOf(ReportsOf(c))
  BY DEF Listings
<1>2. runs \subseteq ReportsOf(c)
  BY <1>1 DEF LatestOf
<1>3. items = {Item(r, n) : r \in runs, n \in Names}
  BY <1>1 DEF Results
<1>4. \A r, n : /\ Item(r, n).name = n /\ Item(r, n).text = r.text
                /\ Item(r, n).at = r.at /\ Item(r, n).noOp = r.noOp
                /\ Item(r, n).status = "passed" => n \notin r.failed
  OBVIOUS
<1> HIDE DEF Item
<1>5. PICK r \in runs : rollback = Item(r, Rollback)
  <2>1. PICK r \in runs, n \in Names : rollback = Item(r, n)
    BY <1>3 DEF Named
  <2>2. n = Rollback
    BY <1>4, <2>1 DEF Named
  <2> QED
    BY <2>1, <2>2
<1>6. ASSUME NEW q \in runs, NEW n \in Names
      PROVE  Item(q, n) \in Named(items, n)
  BY <1>3, <1>4 DEF Named
<1>7. FullSuite \in Checks /\ Checks \subseteq Names /\ Validation[t] \subseteq Names
  BY PathAssumption, FactoryAssumption
<1>8. ASSUME NEW q \in runs
      PROVE  ~q.noOp
  <2>1. Item(q, FullSuite) \in items
    BY <1>6, <1>7 DEF Named
  <2> QED
    BY <1>4, <2>1 DEF EvidencePasses, AllMeanSomething
<1>9. ASSUME NEW q \in runs, NEW n \in Checks \cup Validation[t]
      PROVE  /\ Item(q, n) = Item(r, n)
             /\ Item(q, n).status = "passed"
  <2> DEFINE real == {i \in Named(items, n) : ~i.noOp}
  <2>1. PICK i \in real : real = {i} /\ i.status = "passed"
    BY DEF EvidencePasses, OnePassed
  <2>2. Item(q, n) \in real /\ Item(r, n) \in real
    BY <1>4, <1>6, <1>7, <1>8
  <2> QED
    BY <2>1, <2>2
<1>10. \A q \in runs : q.text = r.text
  BY <1>4, <1>7, <1>9
<1>11. r \in LatestOf(ReportsOf(c))
  <2>1. CASE runs = LatestOf(ReportsOf(c))
    BY <2>1
  <2>2. CASE runs = ReportsOf(c)
    <3>1. r \in Report
      BY <1>2 DEF IInv, TypeOK, ReportsOf
    <3>2. r.text \in Nat
      BY <3>1 DEF Report
    <3>3. \A q \in ReportsOf(c) : q.text <= r.text
      BY <1>10, <2>2, <3>2
    <3> QED
      BY <2>2, <3>3 DEF LatestOf
  <2> QED
    BY <1>1, <2>1, <2>2
<1>12. \A n \in Checks \cup Validation[t] : n \notin r.failed
  BY <1>4, <1>9
<1>13. Rollback \notin r.failed /\ IsFresh(r.at, now, GuardMaxAge)
  BY <1>4, <1>5 DEF RollbackPasses
<1>14. r.failed \cap (Checks \cup Validation[t] \cup {Rollback}) = {}
  BY <1>12, <1>13
<1> QED
  BY <1>8, <1>11, <1>13, <1>14 DEF LastRunPassed

\* What the guard has seen when it passes, and what is put on record.
LEMMA VerifyRests ==
  ASSUME IInv, NEW t \in Tasks, NEW i \in PrsOf(prs, t), Verify(i, t)
  PROVE  /\ PrsOf(prs, t) = {i}
         /\ prs[i].made[1] = t
         /\ IsMerged(prs[i])
         /\ LastRunPassed(prs[i].merged, Checks \cup Validation[t] \cup {Rollback})
         /\ <<i, prs[i].merged>> \in recorded'[t]
         /\ RiskyPaths(prs[i].paths, Surface[t]) \subseteq allowed
         /\ RiskyPaths(prs[i].paths, Surface[t]) # {} => t \in approvals
<1>1. /\ IsMerged(prs[i])
      /\ recorded' = [recorded EXCEPT ![t] = @ \cup {<<i, prs[i].merged>>}]
  BY DEF Verify
<1>2. PICK items \in Listings(prs[i].merged) :
        \E rollback \in Named(items, Rollback) :
          GuardPasses(status, prs, t, prs[i].merged, prs[i].paths, Claim(i, t),
                      [ci |-> items, validation |-> items, rollback |-> rollback],
                      allowed, t \in approvals, now)
  BY DEF Verify
<1>10. PICK rollback \in Named(items, Rollback) :
        GuardPasses(status, prs, t, prs[i].merged, prs[i].paths, Claim(i, t),
                    [ci |-> items, validation |-> items, rollback |-> rollback],
                    allowed, t \in approvals, now)
  BY <1>2
<1>3. /\ EvidencePasses(items, Checks, prs[i].merged, now)
      /\ EvidencePasses(items, Validation[t], prs[i].merged, now)
      /\ RollbackPasses(rollback, prs[i].merged, now)
      /\ GuardFindsMerge(prs, t, prs[i].merged)
      /\ PathsPass(prs[i].paths, Claim(i, t).risky, allowed)
      /\ GuardNeedsOwner(t, prs[i].paths, Claim(i, t)) => t \in approvals
  BY <1>10 DEF GuardPasses
<1>4. PrsOf(prs, t) = {i}
  BY <1>3 DEF GuardFindsMerge
<1>5. prs[i].made[1] = t
  <2>1. i \in DOMAIN prs /\ MatchesTask(prs[i], t)
    BY DEF PrsOf
  <2> QED
    BY <2>1, MatchIsOwn DEF IInv, PrsOwn
<1>6. LastRunPassed(prs[i].merged, Checks \cup Validation[t] \cup {Rollback})
  BY <1>3, ListedRunIsLast
<1>7. <<i, prs[i].merged>> \in recorded'[t]
  BY <1>1 DEF IInv, TypeOK
<1>8. Claim(i, t).risky = RiskyPaths(prs[i].paths, Surface[t])
  BY DEF Claim
<1>9. /\ RiskyPaths(prs[i].paths, Surface[t]) \subseteq allowed
      /\ RiskyPaths(prs[i].paths, Surface[t]) # {} => t \in approvals
  BY <1>3, <1>8 DEF PathsPass, GuardNeedsOwner, GuardedPaths
<1> QED
  BY <1>1, <1>4, <1>5, <1>6, <1>7, <1>9

\* A task becomes verified only by its one visible pull request, merged, whose
\* merge's last run was real, fresh and failed nothing that is wanted, with the
\* owner's word for every risky path (release-evidence-guard.ts).
THEOREM VerifiedOnEvidence == Spec => VerifiedRestsOnEvidence
<1> DEFINE Rests(t, i) ==
      /\ PrsOf(prs, t) = {i}
      /\ prs[i].made[1] = t
      /\ IsMerged(prs[i])
      /\ LastRunPassed(prs[i].merged, Checks \cup Validation[t] \cup {Rollback})
      /\ <<i, prs[i].merged>> \in recorded'[t]
      /\ RiskyPaths(prs[i].paths, Surface[t]) \subseteq allowed
      /\ RiskyPaths(prs[i].paths, Surface[t]) # {} => t \in approvals
<1> DEFINE Step == \A t \in Tasks : status[t] # "verified" /\ status'[t] = "verified" =>
                     \E i \in PrsOf(prs, t) : Rests(t, i)
<1>1. IInv /\ [Next]_vars => [Step]_vars
  <2> SUFFICES ASSUME IInv, Next,
                      NEW t \in Tasks, status[t] # "verified", status'[t] = "verified"
               PROVE  \E i \in PrsOf(prs, t) : Rests(t, i)
    OBVIOUS
  <2>1. status \in [Tasks -> Statuses]
    BY DEF IInv, TypeOK
  <2>2. CASE UNCHANGED <<status, entries, recorded>>
    BY <2>2
  <2>3. ASSUME NEW u \in Tasks, NEW i \in PrsOf(prs, u), Verify(i, u)
        PROVE  \E k \in PrsOf(prs, t) : Rests(t, k)
    <3>1. status' = [v \in Tasks |-> IF v = u THEN "verified"
                                     ELSE IF v \in UnlockedBy(status, u) THEN "ready"
                                     ELSE status[v]]
      BY <2>3 DEF Verify
    <3>2. u = t
      BY <3>1
    <3>3. Rests(t, i)
      BY <2>3, <3>2, VerifyRests
    <3> QED
      BY <3>2, <3>3
  <2>4. CASE EditRoadmap /\ recorded' = recorded
    BY <2>1, <2>4 DEF EditRoadmap
  <2> QED
    BY <2>2, <2>3, <2>4, WhoWritesRoadmap
<1>2. VerifiedRestsOnEvidence <=> [][Step]_vars
  BY DEF VerifiedRestsOnEvidence
<1> QED
  BY <1>1, <1>2, FactoryInvariant, PTL DEF Spec

-----------------------------------------------------------------------------
(* What the next task waits for                                               *)

\* The candidate selected is selectable, and none is malformed.
LEMMA SelectedIsSelectable ==
  ASSUME NEW ci,
         SelectedCandidate(Candidates, status, packet, ci, Audited, approvals, now) # None
  PROVE  LET k == SelectedCandidate(Candidates, status, packet, ci, Audited, approvals, now)
         IN  /\ FactoryReady(status, packet)
             /\ Candidates[k].deps \subseteq Tasks
             /\ \A d \in Candidates[k].deps : status[d] = "verified"
<1> DEFINE selectable == {k \in DOMAIN Candidates :
                            IsSelectable(Candidates[k], status, packet, Audited,
                                         Candidates[k].task \in approvals)}
           IsFirst(k) == \A l \in selectable : k <= l
           first == CHOOSE k \in selectable : IsFirst(k)
<1>1. /\ FactoryReady(status, packet)
      /\ ~\E k \in DOMAIN Candidates : StopsAll(Candidates[k])
      /\ selectable # {}
      /\ SelectedCandidate(Candidates, status, packet, ci, Audited, approvals, now) = first
  BY DEF SelectedCandidate
<1>2. selectable \subseteq Nat
  BY FactoryAssumption
<1>3. \E k \in selectable : IsFirst(k)
  <2> HIDE DEF selectable
  <2> QED
    BY <1>1, <1>2, LeastNumber
<1>4. first \in selectable
  BY <1>3
<1>5. /\ first \in DOMAIN Candidates
      /\ \A d \in Candidates[first].deps : status[d] = "verified"
  BY <1>4 DEF IsSelectable
<1>6. Candidates[first].deps \subseteq Tasks
  BY <1>1, <1>5 DEF StopsAll
<1> QED
  BY <1>1, <1>5, <1>6

\* The next task is chosen only while every task of the gate, and every task the
\* chosen one depends on, is verified by a merge on record, however old the
\* packet is that it is chosen from (next-task-run-packet.ts).
THEOREM NextTaskIsChosenSafely == Spec => NextTaskIsSafe
<1> DEFINE Safe(t) ==
      /\ status[t] = "verified"
      /\ \E i \in DOMAIN prs : /\ prs[i].made[1] = t
                              /\ IsMerged(prs[i])
                              /\ <<i, prs[i].merged>> \in recorded[t]
<1> DEFINE Step == selected' # selected =>
                     \A t \in GateTasks \cup Candidates[selected'].deps : Safe(t)
<1>1. IInv /\ [Next]_vars => [Step]_vars
  <2> SUFFICES ASSUME IInv, Next, selected' # selected,
                      NEW t \in GateTasks \cup Candidates[selected'].deps
               PROVE  Safe(t)
    OBVIOUS
  <2>1. PICK c \in RunnableCommits : SelectNext(c)
    BY WhoWritesTheRest
  <2>2. PICK ci : /\ selected' = SelectedCandidate(Candidates, status, packet, ci,
                                                  Audited, approvals, now)
                  /\ selected' # None
    BY <2>1 DEF SelectNext
  <2>3. /\ FactoryReady(status, packet)
        /\ Candidates[selected'].deps \subseteq Tasks
        /\ \A d \in Candidates[selected'].deps : status[d] = "verified"
    BY <2>2, SelectedIsSelectable
  <2>4. t \in Tasks /\ status[t] = "verified"
    BY <2>3, EvidenceAssumption DEF FactoryReady
  <2> QED
    BY <2>4 DEF IInv, VerifiedIsRecorded, IsOnRecord
<1>2. NextTaskIsSafe <=> [][Step]_vars
  BY DEF NextTaskIsSafe
<1> QED
  BY <1>1, <1>2, FactoryInvariant, PTL DEF Spec
=============================================================================
