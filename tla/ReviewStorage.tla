---------------------------- MODULE ReviewStorage ----------------------------
(***************************************************************************)
(* src/src/lib/srs/storage.ts: how one browser tab commits a review answer  *)
(* to the three localStorage keys, when several tabs share them.            *)
(*                                                                          *)
(* One localStorage call is one step.  A commit reads a snapshot of the     *)
(* three keys, checks and computes on the snapshot alone, then writes the   *)
(* keys in the order of reviewCommitKeys; a write that throws starts the    *)
(* rollback, which puts the snapshot back key by key.  A tab can be closed  *)
(* between any two calls, and the calls of two tabs interleave.             *)
(*                                                                          *)
(* A key whose raw text does not parse is a member of "malformed".          *)
(***************************************************************************)
EXTENDS ReviewStores

CONSTANTS Tabs,        \* the open tabs
          SaveTimes,   \* when the save page may save a word
          MaxCrashes,  \* bound: how many calls a closing tab cuts short
          MaxFailures, \* bound: how many storage writes throw
          MaxReviews,  \* bound: reviews of a word after which no answer begins
          NoAnswer     \* a tab that commits nothing

ASSUME StorageAssumption ==
  /\ SaveTimes \subseteq Nat
  /\ MaxCrashes \in Nat
  /\ MaxFailures \in Nat
  /\ MaxReviews \in Nat
  /\ NoAnswer \notin Answers

\* reviewCommitKeys: the order of the reads, of the writes and of the rollback
CommitKeys == <<"reviewState", "reviewEvents", "dailyStats">>

VARIABLES
  store,       \* the three localStorage keys
  malformed,   \* the keys whose raw text does not parse
  tab,         \* per tab, the storage.ts call it is executing
  acked,       \* answers whose call returned to the page without an error
  fatal,       \* a rollback reported that it could not restore a key
  crashes,     \* calls cut short so far
  failures     \* storage writes that threw so far

vars == <<store, malformed, tab, acked, fatal, crashes, failures>>

\* A tab that executes no call of storage.ts
IdleTab == [pc |-> "idle", step |-> 1, answer |-> NoAnswer, unreadable |-> {},
            snapshot |-> EmptyStores, next |-> EmptyStores, failedKeys |-> {}]

\* the answer tab t is committing, and the key its next call is about
Commit(t) == tab[t].answer
ActiveKey(t) == CommitKeys[tab[t].step]

\* how often the stored review state says a word was answered
Reviews(w) == IF store.reviewState[w] = NoItem THEN 0
              ELSE ReviewCount(store.reviewState[w])

-----------------------------------------------------------------------------
(* applyReviewAnswer *)

\* The call returns or throws: the tab goes back to the page's code
Return(t) == tab' = [tab EXCEPT ![t] = IdleTab]

BeginAnswer(t, a) ==
  /\ tab[t].pc = "idle"
  /\ Reviews(a.slug) < MaxReviews
  /\ tab' = [tab EXCEPT ![t] = [IdleTab EXCEPT !.pc = "read", !.answer = a]]
  /\ UNCHANGED <<store, malformed, acked, fatal, crashes, failures>>

\* mutant of ReadKey: malformed text is read as an absent key, as readJson does
ReadKeyLeniently(t) ==
  /\ tab[t].pc = "read"
  /\ LET k    == ActiveKey(t)
         last == tab[t].step = 3 IN
     tab' = [tab EXCEPT ![t] = [tab[t] EXCEPT
       !.snapshot = [@ EXCEPT ![k] = store[k]],
       !.pc = IF last THEN "decide" ELSE "read",
       !.step = IF last THEN 1 ELSE @ + 1]]
  /\ UNCHANGED <<store, malformed, acked, fatal, crashes, failures>>

\* readReviewStoreSnapshot: one getItem of the three
ReadKey(t) ==
  /\ tab[t].pc = "read"
  /\ LET k    == ActiveKey(t)
         last == tab[t].step = 3 IN
     tab' = [tab EXCEPT ![t] = [tab[t] EXCEPT
       !.snapshot = [@ EXCEPT ![k] = store[k]],
       !.unreadable = IF k \in malformed THEN @ \cup {k} ELSE @,
       !.pc = IF last THEN "decide" ELSE "read",
       !.step = IF last THEN 1 ELSE @ + 1]]
  /\ UNCHANGED <<store, malformed, acked, fatal, crashes, failures>>

\* parseReviewStoreSnapshot throws
RejectMalformed(t) ==
  /\ tab[t].pc = "decide"
  /\ tab[t].unreadable # {}
  /\ Return(t)
  /\ UNCHANGED <<store, malformed, acked, fatal, crashes, failures>>

IsDuplicate(t) ==
  /\ tab[t].pc = "decide"
  /\ tab[t].unreadable = {}
  /\ Commit(t).eventId \in EventIds(tab[t].snapshot.reviewEvents)

\* A repeated eventId: the stored outcome is returned, nothing is written
ReturnDuplicate(t) ==
  /\ IsDuplicate(t)
  /\ ReplaysCleanly(tab[t].snapshot, Commit(t))
  /\ acked' = acked \cup {Commit(t)}
  /\ Return(t)
  /\ UNCHANGED <<store, malformed, fatal, crashes, failures>>

\* ... or it conflicts, or its state or statistics are missing
RejectDuplicate(t) ==
  /\ IsDuplicate(t)
  /\ ~ReplaysCleanly(tab[t].snapshot, Commit(t))
  /\ Return(t)
  /\ UNCHANGED <<store, malformed, acked, fatal, crashes, failures>>

ComputeCommit(t) ==
  /\ tab[t].pc = "decide"
  /\ tab[t].unreadable = {}
  /\ Commit(t).eventId \notin EventIds(tab[t].snapshot.reviewEvents)
  /\ tab' = [tab EXCEPT ![t] = [tab[t] EXCEPT
       !.pc = "write", !.next = StoresAfter(tab[t].snapshot, Commit(t))]]
  /\ UNCHANGED <<store, malformed, acked, fatal, crashes, failures>>

\* setItem replaces the raw text of one key
SetItem(k, value) ==
  /\ store' = [store EXCEPT ![k] = value]
  /\ malformed' = malformed \ {k}

\* writeReviewStoresAtomically: one setItem
WriteKey(t) ==
  /\ tab[t].pc = "write"
  /\ SetItem(ActiveKey(t), tab[t].next[ActiveKey(t)])
  /\ IF tab[t].step = 3
     THEN /\ acked' = acked \cup {Commit(t)}
          /\ Return(t)
     ELSE /\ tab' = [tab EXCEPT ![t] = [tab[t] EXCEPT !.step = @ + 1]]
          /\ UNCHANGED acked
  /\ UNCHANGED <<fatal, crashes, failures>>

\* mutant of WriteFails: the rollback starts at the key that failed
RestoreFromFailedKey(t) ==
  /\ tab[t].pc = "write"
  /\ failures < MaxFailures
  /\ failures' = failures + 1
  /\ tab' = [tab EXCEPT ![t] = [tab[t] EXCEPT !.pc = "restore"]]
  /\ UNCHANGED <<store, malformed, acked, fatal, crashes>>

\* mutant of WriteFails: the error is thrown without a rollback
FailWithoutRollback(t) ==
  /\ tab[t].pc = "write"
  /\ failures < MaxFailures
  /\ failures' = failures + 1
  /\ Return(t)
  /\ UNCHANGED <<store, malformed, acked, fatal, crashes>>

\* ... that throws (quota, privacy mode): the rollback starts
WriteFails(t) ==
  /\ tab[t].pc = "write"
  /\ failures < MaxFailures
  /\ failures' = failures + 1
  /\ tab' = [tab EXCEPT ![t] = [tab[t] EXCEPT !.pc = "restore", !.step = 1]]
  /\ UNCHANGED <<store, malformed, acked, fatal, crashes>>

\* restoreReviewStoreSnapshot goes on to the next key, or throws: the plain
\* retryable error, or the fatal one when a key could not be put back
RestoreNext(t, failed) ==
  IF tab[t].step = 3
  THEN /\ fatal' = (fatal \/ failed # {})
       /\ Return(t)
  ELSE /\ tab' = [tab EXCEPT ![t] = [tab[t] EXCEPT
                    !.step = @ + 1, !.failedKeys = failed]]
       /\ UNCHANGED fatal

RestoreKey(t) ==
  /\ tab[t].pc = "restore"
  /\ SetItem(ActiveKey(t), tab[t].snapshot[ActiveKey(t)])
  /\ RestoreNext(t, tab[t].failedKeys)
  /\ UNCHANGED <<acked, crashes, failures>>

RestoreFails(t) ==
  /\ tab[t].pc = "restore"
  /\ failures < MaxFailures
  /\ failures' = failures + 1
  /\ RestoreNext(t, tab[t].failedKeys \cup {ActiveKey(t)})
  /\ UNCHANGED <<store, malformed, acked, crashes>>

-----------------------------------------------------------------------------
(* createReviewItemFromSavedWord, as the save page calls it *)

\* readReviewState is lenient: a malformed store reads as an empty one
BeginSave(t, w, savedAt) ==
  LET readable == IF "reviewState" \in malformed
                  THEN EmptyStores.reviewState ELSE store.reviewState IN
  /\ tab[t].pc = "idle"
  /\ IF readable[w] # NoItem
     THEN UNCHANGED tab
     ELSE tab' = [tab EXCEPT ![t] = [IdleTab EXCEPT
            !.pc = "save",
            !.next.reviewState = SavedState(readable, w, savedAt)]]
  /\ UNCHANGED <<store, malformed, acked, fatal, crashes, failures>>

FinishSave(t) ==
  /\ tab[t].pc = "save"
  /\ SetItem("reviewState", tab[t].next.reviewState)
  /\ Return(t)
  /\ UNCHANGED <<acked, fatal, crashes, failures>>

\* setItem throws and the save page reports a storage error
SaveFails(t) ==
  /\ tab[t].pc = "save"
  /\ failures < MaxFailures
  /\ failures' = failures + 1
  /\ Return(t)
  /\ UNCHANGED <<store, malformed, acked, fatal, crashes>>

\* The tab is closed, or its process dies, between two localStorage calls
Crash(t) ==
  /\ tab[t].pc # "idle"
  /\ crashes < MaxCrashes
  /\ crashes' = crashes + 1
  /\ Return(t)
  /\ UNCHANGED <<store, malformed, acked, fatal, failures>>

-----------------------------------------------------------------------------
Init ==
  /\ store = EmptyStores
  /\ malformed \in {{}} \cup {{k} : k \in Keys}
  /\ tab = [t \in Tabs |-> IdleTab]
  /\ acked = {}
  /\ fatal = FALSE
  /\ crashes = 0
  /\ failures = 0

ApplyReviewAnswer(t) ==
  \/ \E a \in Answers : BeginAnswer(t, a)
  \/ ReadKey(t)
  \/ RejectMalformed(t)
  \/ ReturnDuplicate(t)
  \/ RejectDuplicate(t)
  \/ ComputeCommit(t)
  \/ WriteKey(t)
  \/ WriteFails(t)
  \/ RestoreKey(t)
  \/ RestoreFails(t)

SaveWord(t) ==
  \/ \E w \in Words, at \in SaveTimes : BeginSave(t, w, at)
  \/ FinishSave(t)
  \/ SaveFails(t)

Next == \E t \in Tabs : ApplyReviewAnswer(t) \/ SaveWord(t) \/ Crash(t)

Spec == Init /\ [][Next]_vars
-----------------------------------------------------------------------------
(* Correctness *)

TabRecord ==
  [pc: {"idle", "read", "decide", "write", "restore", "save"}, step: 1..3,
   answer: Answers \cup {NoAnswer}, unreadable: SUBSET Keys,
   snapshot: Stores, next: Stores, failedKeys: SUBSET Keys]

\* Every variable holds what the code can put there ...
Typed ==
  /\ store \in Stores
  /\ malformed \subseteq Keys
  /\ tab \in [Tabs -> TabRecord]
  /\ acked \subseteq Answers
  /\ fatal \in BOOLEAN
  /\ crashes \in 0..MaxCrashes
  /\ failures \in 0..MaxFailures

\* ... and a call of applyReviewAnswer has an answer to apply.
CallHasAnswer ==
  \A t \in Tabs : tab[t].pc \in {"read", "decide", "write", "restore"}
                   => Commit(t) \in Answers

TypeOK == Typed /\ CallHasAnswer

\* No two stored events share an eventId: an answer is applied to the log at
\* most once, however calls are retried, replayed by another tab, interleaved,
\* rolled back or cut short (findReviewEventById before every append).
UniqueIds(events) ==
  \A i, j \in DOMAIN events :
    events[i].answer.eventId = events[j].answer.eventId => i = j

UniqueEventIds == UniqueIds(store.reviewEvents)

\* An answer the page was told is saved keeps its event, through later failed
\* commits, rollbacks (also fatal ones) and tabs that die: with one tab.
AckedStay ==
  \A a \in acked :
    \E i \in DOMAIN store.reviewEvents : store.reviewEvents[i].answer = a

Quiet == \A t \in Tabs : tab[t].pc = "idle"

EventsOf(w, result) ==
  {i \in DOMAIN store.reviewEvents :
     /\ store.reviewEvents[i].answer.slug = w
     /\ store.reviewEvents[i].answer.result = result}

EventsOn(d) ==
  {i \in DOMAIN store.reviewEvents : DateOf(store.reviewEvents[i].answer.createdAt) = d}

\* A word's review state is what its events left behind: the counts are those
\* of the log, the last event ends where the state stands, and each event of
\* the word starts where the previous one ended.
StateAgreesWithEvents(w) ==
  LET item  == store.reviewState[w]
      mine  == EventsOf(w, "correct") \cup EventsOf(w, "wrong")
      event == store.reviewEvents
  IN /\ item = NoItem => mine = {}
     /\ item # NoItem =>
          /\ item.correct = Cardinality(EventsOf(w, "correct"))
          /\ item.wrong = Cardinality(EventsOf(w, "wrong"))
     /\ \A i \in mine :
          (\A j \in mine : j <= i) =>
            /\ event[i].boxAfter = item.box
            /\ event[i].weakScoreAfter = item.weakScore
     /\ \A i, j \in mine :
          (i < j /\ \A k \in mine : k <= i \/ j <= k) =>
            /\ event[j].boxBefore = event[i].boxAfter
            /\ event[j].weakScoreBefore = event[i].weakScoreAfter

\* A day's statistics count its events, and each session once a day.
StatsAgreeWithEvents(d) ==
  LET on == EventsOn(d)
      sessionsOn == {store.reviewEvents[i].answer.sessionId : i \in on}
  IN IF store.dailyStats[d] = NoStats THEN on = {}
     ELSE /\ store.dailyStats[d].reviewed = Cardinality(on)
          /\ store.dailyStats[d].sessions = Cardinality(sessionsOn)

\* Between calls the three stores tell one story (one tab that does not die and
\* saw no fatal error): write failures, rollbacks, retries and replays leave no
\* trace that the other two stores contradict.
StoresAgree ==
  Quiet /\ ~fatal /\ crashes = 0 =>
    /\ \A w \in Words : StateAgreesWithEvents(w)
    /\ \A d \in Dates : StatsAgreeWithEvents(d)

EventCount(w) == Cardinality(EventsOf(w, "correct") \cup EventsOf(w, "wrong"))
Reviewed(d) == IF store.dailyStats[d] = NoStats THEN 0
               ELSE store.dailyStats[d].reviewed
Within(m, n, bound) == m - n <= bound /\ n - m <= bound

\* A tab that dies in the middle of a commit costs at most its own answer: the
\* state and the statistics drift from the log by no more than the number of
\* commits cut short (one tab, no fatal error).
DriftBoundedByCrashes ==
  Quiet /\ ~fatal =>
    /\ \A w \in Words : Within(Reviews(w), EventCount(w), crashes)
    /\ \A d \in Dates : Within(Reviewed(d), Cardinality(EventsOn(d)), crashes)

\* "Fatal rollback failure requires user intervention; the app [...] must not
\* report the answer as saved": an answer reported as saved has been applied to
\* its word's review state, also when it was retried after a fatal error.
SavedMeansApplied ==
  \A w \in Words :
    Reviews(w) >= Cardinality({a \in acked : a.slug = w})

\* A store whose text does not parse is never replaced by an answer's commit:
\* only the save page's lenient read may lose it, and only reviewState.
MalformedPreserved ==
  [][\A k \in malformed \ malformed' :
       k = "reviewState" /\ \E t \in Tabs : tab[t].pc = "save" /\ tab'[t].pc = "idle"]_vars

\* The stores one tab has committed: while it writes or rolls back, those of
\* its snapshot.
CommittedStores ==
  IF \E t \in Tabs : tab[t].pc \in {"write", "restore"}
  THEN tab[CHOOSE t \in Tabs : tab[t].pc \in {"write", "restore"}].snapshot
  ELSE store

Log == INSTANCE ReviewLog WITH stores <- CommittedStores

\* One tab implements the promise of ReviewLog: its three writes and its
\* rollback are one atomic step, or a reported mixture.
AtomicCommit == Log!LogSpec
==============================================================================
