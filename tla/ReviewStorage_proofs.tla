------------------------- MODULE ReviewStorage_proofs -------------------------
(***************************************************************************)
(* Type correctness of ReviewStorage, and that an eventId is stored at most *)
(* once, for any number of tabs, words, answers, failures and crashes.      *)
(***************************************************************************)
EXTENDS ReviewStorage, SrsEngine_proofs, SequenceTheorems, FiniteSetTheorems

\* Every key of a store value may be replaced by that of another store value.
LEMMA StoreKeyType ==
  ASSUME NEW s \in Stores, NEW v \in Stores, NEW k \in Keys
  PROVE  [s EXCEPT ![k] = v[k]] \in Stores
<1>1. CASE k = "reviewState"
  BY <1>1 DEF Stores
<1>2. CASE k = "reviewEvents"
  BY <1>2 DEF Stores
<1>3. CASE k = "dailyStats"
  BY <1>3 DEF Stores
<1> QED BY <1>1, <1>2, <1>3 DEF Keys

LEMMA EmptyStoresType == EmptyStores \in Stores
<1>1. << >> \in Seq(Event)
  OBVIOUS
<1> QED BY <1>1 DEF EmptyStores, Stores

\* What an answer makes of the three stores is three stores.
LEMMA StoresAfterType ==
  ASSUME NEW stores \in Stores, NEW a \in Answers
  PROVE  /\ StoresAfter(stores, a) \in Stores
         /\ \E event \in Event :
              /\ event.answer = a
              /\ StoresAfter(stores, a).reviewEvents =
                   Append(stores.reviewEvents, event)
<1> DEFINE date  == DateOf(a.createdAt)
           item  == IF stores.reviewState[a.slug] = NoItem
                    THEN NewItem(a.createdAt) ELSE stores.reviewState[a.slug]
           next  == ItemAfter(item, a)
           stats == IF stores.dailyStats[date] = NoStats
                    THEN EmptyDailyStats ELSE stores.dailyStats[date]
           event == [answer |-> a, boxBefore |-> item.box, boxAfter |-> next.box,
                     weakScoreBefore |-> item.weakScore,
                     weakScoreAfter |-> next.weakScore]
           count == ~HasSessionEventForDate(stores.reviewEvents, a.sessionId, date)
           counted == DailyStatsAfter(stats, item, next, a, count)
<1>1. EngineAnswer(a) /\ a.slug \in Words /\ date \in Dates /\ a.createdAt \in Nat
  BY AnswersAssumption DEF Dates, EngineAnswer
<1>2. item \in Item
  BY <1>1, NewItemType DEF Stores
<1>3. next \in Item
  BY <1>1, <1>2, ItemAfterType
<1>4. stats \in DailyStats
  BY <1>1 DEF Stores, EmptyDailyStats, DailyStats
<1>5. count \in BOOLEAN
  BY DEF HasSessionEventForDate
<1>6. counted \in DailyStats
  <2> HIDE DEF stats, item, next, count
  <2> QED BY <1>4, <1>5, DailyStatsAfterType
<1>7. event \in Event
  <2> HIDE DEF item, next
  <2> QED BY <1>2, <1>3 DEF Event, Item
<1>8. StoresAfter(stores, a) =
        [reviewState  |-> [stores.reviewState EXCEPT ![a.slug] = next],
         reviewEvents |-> Append(stores.reviewEvents, event),
         dailyStats   |-> [stores.dailyStats EXCEPT ![date] = counted]]
  BY DEF StoresAfter
<1> HIDE DEF date, item, next, stats, event, count, counted
<1>9. event.answer = a
  BY DEF event
<1> QED BY <1>1, <1>3, <1>6, <1>7, <1>8, <1>9 DEF Stores

\* A saved word joins the review state.
LEMMA SavedStateType ==
  ASSUME NEW rs \in [Words -> Item \cup {NoItem}], NEW w \in Words,
         NEW at \in SaveTimes
  PROVE  SavedState(rs, w, at) \in [Words -> Item \cup {NoItem}]
<1>1. NewItem(at) \in Item
  BY NewItemType, StorageAssumption
<1> QED BY <1>1 DEF SavedState

-----------------------------------------------------------------------------
(* Type correctness *)

LEMMA IdleTabType == IdleTab \in TabRecord
BY EmptyStoresType DEF IdleTab, TabRecord

\* Returning to the page keeps the tabs' type.
LEMMA ReturnType ==
  ASSUME NEW t \in Tabs, tab \in [Tabs -> TabRecord], Return(t)
  PROVE  tab' \in [Tabs -> TabRecord]
BY IdleTabType DEF Return

\* The key a step is about is one of the three.
LEMMA ActiveKeyType ==
  ASSUME NEW t \in Tabs, tab \in [Tabs -> TabRecord]
  PROVE  ActiveKey(t) \in Keys
BY DEF ActiveKey, CommitKeys, Keys, TabRecord

\* A tab whose record changes to another record keeps the tabs' type.
LEMMA TabUpdateType ==
  ASSUME NEW t \in Tabs, tab \in [Tabs -> TabRecord], NEW rec \in TabRecord,
         tab' = [tab EXCEPT ![t] = rec]
  PROVE  tab' \in [Tabs -> TabRecord]
OBVIOUS

LEMMA InitType == Init => Typed
<1> SUFFICES ASSUME Init PROVE Typed
  OBVIOUS
<1>1. store \in Stores
  BY EmptyStoresType DEF Init
<1>2. malformed \subseteq Keys
  BY DEF Init
<1>3. tab \in [Tabs -> TabRecord]
  BY IdleTabType DEF Init
<1>4. crashes \in 0..MaxCrashes /\ failures \in 0..MaxFailures
  BY StorageAssumption DEF Init
<1> QED BY <1>1, <1>2, <1>3, <1>4 DEF Init, Typed

LEMMA ReadKeyType ==
  ASSUME Typed, NEW t \in Tabs, ReadKey(t) PROVE Typed'
<1> DEFINE k == ActiveKey(t)
           read == [tab[t].snapshot EXCEPT ![k] = store[k]]
           bad == IF k \in malformed THEN tab[t].unreadable \cup {k}
                  ELSE tab[t].unreadable
           pc == IF tab[t].step = 3 THEN "decide" ELSE "read"
           step == IF tab[t].step = 3 THEN 1 ELSE tab[t].step + 1
           rec == [tab[t] EXCEPT !.snapshot = read, !.unreadable = bad,
                                 !.pc = pc, !.step = step]
<1>1. k \in Keys
  BY ActiveKeyType DEF Typed
<1>2. read \in Stores
  BY <1>1, StoreKeyType DEF Typed, TabRecord
<1>3. bad \in SUBSET Keys
  BY <1>1 DEF Typed, TabRecord
<1>4. pc \in {"decide", "read"} /\ step \in 1..3
  BY DEF Typed, TabRecord
<1>5. tab' = [tab EXCEPT ![t] = rec]
  BY DEF ReadKey
<1>6. tab[t] \in TabRecord
  BY DEF Typed
<1> HIDE DEF k, read, bad, pc, step
<1>7. rec \in TabRecord
  BY <1>2, <1>3, <1>4, <1>6 DEF TabRecord
<1> HIDE DEF rec
<1>8. tab' \in [Tabs -> TabRecord]
  BY <1>5, <1>7, TabUpdateType DEF Typed
<1> QED BY <1>8 DEF ReadKey, Typed

\* An answer in the log of a snapshot is one of the learner's.
LEMMA ReplayedType ==
  ASSUME Typed, NEW t \in Tabs, ReplaysCleanly(tab[t].snapshot, Commit(t))
  PROVE  Commit(t) \in Answers
<1> DEFINE events == tab[t].snapshot.reviewEvents
<1>1. events \in Seq(Event)
  BY DEF Typed, TabRecord, Stores
<1>2. PICK e \in EventsWithId(events, Commit(t).eventId) : e.answer = Commit(t)
  BY DEF ReplaysCleanly
<1>3. PICK i \in DOMAIN events : e = events[i]
  BY <1>2 DEF EventsWithId
<1>4. events[i] \in Event
  BY <1>1, <1>3
<1> QED BY <1>2, <1>3, <1>4 DEF Event

LEMMA ComputeCommitType ==
  ASSUME Typed, NEW t \in Tabs, ComputeCommit(t), Commit(t) \in Answers
  PROVE  Typed'
<1> DEFINE next == StoresAfter(tab[t].snapshot, Commit(t))
           rec  == [tab[t] EXCEPT !.pc = "write", !.next = next]
<1>1. next \in Stores
  BY StoresAfterType DEF Typed, TabRecord
<1>2. tab' = [tab EXCEPT ![t] = rec]
  BY DEF ComputeCommit
<1> HIDE DEF next
<1>3. rec \in TabRecord
  BY <1>1 DEF Typed, TabRecord
<1> HIDE DEF rec
<1> QED BY <1>2, <1>3, TabUpdateType DEF ComputeCommit, Typed

\* setItem keeps the stores' type.
LEMMA SetItemType ==
  ASSUME Typed, NEW k \in Keys, NEW v \in Stores, SetItem(k, v[k])
  PROVE  store' \in Stores /\ malformed' \subseteq Keys
BY StoreKeyType DEF SetItem, Typed

LEMMA WriteKeyType ==
  ASSUME Typed, NEW t \in Tabs, WriteKey(t), Commit(t) \in Answers
  PROVE  Typed'
<1>1. store' \in Stores /\ malformed' \subseteq Keys
  <2>1. tab[t].next \in Stores /\ ActiveKey(t) \in Keys
    BY ActiveKeyType DEF Typed, TabRecord
  <2> QED BY <2>1, SetItemType DEF WriteKey
<1>2. CASE tab[t].step = 3
  BY <1>1, <1>2, ReturnType DEF WriteKey, Typed
<1>3. CASE tab[t].step # 3
  <2> DEFINE rec == [tab[t] EXCEPT !.step = tab[t].step + 1]
  <2>1. tab' = [tab EXCEPT ![t] = rec] /\ UNCHANGED acked
    BY <1>3 DEF WriteKey
  <2>2. rec \in TabRecord
    BY <1>3 DEF Typed, TabRecord
  <2> HIDE DEF rec
  <2> QED BY <1>1, <2>1, <2>2, TabUpdateType DEF WriteKey, Typed
<1> QED BY <1>2, <1>3

LEMMA WriteFailsType ==
  ASSUME Typed, NEW t \in Tabs, WriteFails(t) PROVE Typed'
<1> DEFINE rec == [tab[t] EXCEPT !.pc = "restore", !.step = 1]
<1>1. tab' = [tab EXCEPT ![t] = rec]
  BY DEF WriteFails
<1>2. rec \in TabRecord
  <2>1. tab[t] \in TabRecord
    BY DEF Typed
  <2>2. rec = [tab[t] EXCEPT !.step = 1, !.pc = "restore"]
    BY <2>1 DEF TabRecord
  <2>3. [tab[t] EXCEPT !.step = 1] \in TabRecord
    BY <2>1 DEF TabRecord
  <2> QED BY <2>2, <2>3 DEF TabRecord
<1>3. failures' \in 0..MaxFailures
  BY StorageAssumption DEF WriteFails, Typed
<1> HIDE DEF rec
<1> QED BY <1>1, <1>2, <1>3, TabUpdateType DEF WriteFails, Typed

LEMMA RestoreNextType ==
  ASSUME Typed, NEW t \in Tabs, NEW failed \in SUBSET Keys,
         RestoreNext(t, failed)
  PROVE  tab' \in [Tabs -> TabRecord] /\ fatal' \in BOOLEAN
<1>1. CASE tab[t].step = 3
  <2>1. Return(t) /\ fatal' = (fatal \/ failed # {})
    BY <1>1 DEF RestoreNext
  <2>2. fatal' \in BOOLEAN
    BY <2>1
  <2> QED BY <2>1, <2>2, ReturnType DEF Typed
<1>2. CASE tab[t].step # 3
  <2> DEFINE rec == [tab[t] EXCEPT !.step = tab[t].step + 1,
                                   !.failedKeys = failed]
  <2>1. tab' = [tab EXCEPT ![t] = rec] /\ UNCHANGED fatal
    BY <1>2 DEF RestoreNext
  <2>2. tab[t] \in TabRecord /\ tab[t].step + 1 \in 1..3
    BY <1>2 DEF Typed, TabRecord
  <2>3. rec \in TabRecord
    BY <2>2 DEF TabRecord
  <2> HIDE DEF rec
  <2> QED BY <2>1, <2>3, TabUpdateType DEF Typed
<1> QED BY <1>1, <1>2

LEMMA RestoreKeyType ==
  ASSUME Typed, NEW t \in Tabs, RestoreKey(t) PROVE Typed'
<1>1. /\ tab[t].snapshot \in Stores /\ ActiveKey(t) \in Keys
      /\ tab[t].failedKeys \in SUBSET Keys
  BY ActiveKeyType DEF Typed, TabRecord
<1>2. store' \in Stores /\ malformed' \subseteq Keys
  BY <1>1, SetItemType DEF RestoreKey
<1>3. tab' \in [Tabs -> TabRecord] /\ fatal' \in BOOLEAN
  BY <1>1, RestoreNextType DEF RestoreKey
<1> QED BY <1>2, <1>3 DEF RestoreKey, Typed

LEMMA RestoreFailsType ==
  ASSUME Typed, NEW t \in Tabs, RestoreFails(t) PROVE Typed'
<1>1. tab[t].failedKeys \cup {ActiveKey(t)} \in SUBSET Keys
  BY ActiveKeyType DEF Typed, TabRecord
<1>2. tab' \in [Tabs -> TabRecord] /\ fatal' \in BOOLEAN
  BY <1>1, RestoreNextType DEF RestoreFails
<1>3. failures' \in 0..MaxFailures
  BY StorageAssumption DEF RestoreFails, Typed
<1> QED BY <1>2, <1>3 DEF RestoreFails, Typed

LEMMA BeginSaveType ==
  ASSUME Typed, NEW t \in Tabs, NEW w \in Words, NEW at \in SaveTimes,
         BeginSave(t, w, at)
  PROVE  Typed'
<1> DEFINE readable == IF "reviewState" \in malformed
                       THEN EmptyStores.reviewState ELSE store.reviewState
           saved == SavedState(readable, w, at)
           rec == [IdleTab EXCEPT !.pc = "save", !.next.reviewState = saved]
<1>1. readable \in [Words -> Item \cup {NoItem}]
  BY EmptyStoresType DEF Typed, Stores
<1>2. saved \in [Words -> Item \cup {NoItem}]
  BY <1>1, SavedStateType
<1>3. UNCHANGED tab \/ tab' = [tab EXCEPT ![t] = rec]
  BY DEF BeginSave
<1> HIDE DEF readable, saved
<1>4. [EmptyStores EXCEPT !.reviewState = saved] \in Stores
  BY <1>2, EmptyStoresType DEF Stores
<1>5. rec = [IdleTab EXCEPT !.pc = "save",
                            !.next = [EmptyStores EXCEPT !.reviewState = saved]]
  BY DEF IdleTab
<1> HIDE DEF rec
<1>6. rec \in TabRecord
  BY <1>4, <1>5, IdleTabType DEF TabRecord
<1>7. tab' \in [Tabs -> TabRecord]
  BY <1>3, <1>6, TabUpdateType DEF Typed
<1> QED BY <1>7 DEF BeginSave, Typed

LEMMA FinishSaveType ==
  ASSUME Typed, NEW t \in Tabs, FinishSave(t) PROVE Typed'
<1>1. tab[t].next \in Stores /\ "reviewState" \in Keys
  BY DEF Typed, TabRecord, Keys
<1>2. SetItem("reviewState", tab[t].next["reviewState"])
  BY DEF FinishSave
<1>3. store' \in Stores /\ malformed' \subseteq Keys
  BY <1>1, <1>2, SetItemType
<1> QED BY <1>3, ReturnType DEF FinishSave, Typed

\* A step of one tab leaves the record of every other tab alone.
LEMMA OneTabMoves ==
  ASSUME Typed, NEW t \in Tabs, ApplyReviewAnswer(t) \/ SaveWord(t) \/ Crash(t)
  PROVE  \A u \in Tabs \ {t} : tab'[u] = tab[u]
BY DEF Typed, ApplyReviewAnswer, SaveWord, Crash, BeginAnswer, ReadKey,
       RejectMalformed, ReturnDuplicate, RejectDuplicate, ComputeCommit,
       WriteKey, WriteFails, RestoreKey, RestoreFails, RestoreNext,
       BeginSave, FinishSave, SaveFails, Return

\* A call keeps the answer it began with until it returns.
LEMMA CallKeepsAnswer ==
  ASSUME TypeOK, NEW t \in Tabs, ApplyReviewAnswer(t) \/ SaveWord(t) \/ Crash(t)
  PROVE  CallHasAnswer'
<1> DEFINE Calling == {"read", "decide", "write", "restore"}
<1> SUFFICES ASSUME tab'[t].pc \in Calling PROVE tab'[t].answer \in Answers
  BY OneTabMoves DEF TypeOK, CallHasAnswer, Commit
<1>1. tab[t] \in TabRecord /\ (tab[t].pc \in Calling => tab[t].answer \in Answers)
  BY DEF TypeOK, Typed, CallHasAnswer, Commit
<1>2. ASSUME tab' = [tab EXCEPT ![t] = IdleTab] PROVE FALSE
  BY <1>2 DEF TypeOK, Typed, IdleTab
<1>3. CASE ApplyReviewAnswer(t)
  <2>1. ASSUME NEW a \in Answers, BeginAnswer(t, a)
        PROVE  tab'[t].answer \in Answers
    BY <2>1 DEF BeginAnswer, TypeOK, Typed, IdleTab
  <2>2. CASE ReadKey(t)
    BY <1>1, <2>2 DEF ReadKey, TypeOK, Typed, TabRecord
  <2>3. CASE RejectMalformed(t) \/ ReturnDuplicate(t) \/ RejectDuplicate(t)
    BY <1>2, <2>3 DEF RejectMalformed, ReturnDuplicate, RejectDuplicate, Return
  <2>4. CASE ComputeCommit(t)
    BY <1>1, <2>4 DEF ComputeCommit, TypeOK, Typed, TabRecord
  <2>5. CASE WriteKey(t)
    BY <1>1, <1>2, <2>5 DEF WriteKey, Return, TypeOK, Typed, TabRecord
  <2>6. CASE WriteFails(t)
    BY <1>1, <2>6 DEF WriteFails, TypeOK, Typed, TabRecord
  <2>7. CASE RestoreKey(t) \/ RestoreFails(t)
    <3>1. PICK failed : RestoreNext(t, failed) /\ tab[t].pc = "restore"
      BY <2>7 DEF RestoreKey, RestoreFails
    <3>2. tab' = [tab EXCEPT ![t] = [tab[t] EXCEPT
                    !.step = tab[t].step + 1, !.failedKeys = failed]]
      BY <1>2, <3>1 DEF RestoreNext, Return
    <3> QED BY <1>1, <3>1, <3>2 DEF TypeOK, Typed, TabRecord
  <2> QED BY <1>3, <2>1, <2>2, <2>3, <2>4, <2>5, <2>6, <2>7 DEF ApplyReviewAnswer
<1>4. CASE SaveWord(t)
  <2>1. ASSUME NEW w \in Words, NEW at \in SaveTimes, BeginSave(t, w, at)
        PROVE  tab'[t].answer \in Answers
    <3> DEFINE begun(state) ==
          [IdleTab EXCEPT !.pc = "save", !.next.reviewState = state]
    <3>1. PICK state : tab' = tab \/ tab' = [tab EXCEPT ![t] = begun(state)]
      BY <2>1 DEF BeginSave
    <3>2. begun(state).pc = "save"
      BY DEF IdleTab
    <3> HIDE DEF begun
    <3>3. tab' = tab
      BY <3>1, <3>2 DEF TypeOK, Typed
    <3> QED BY <1>1, <3>3
  <2>2. CASE FinishSave(t) \/ SaveFails(t)
    BY <1>2, <2>2 DEF FinishSave, SaveFails, Return
  <2> QED BY <1>4, <2>1, <2>2 DEF SaveWord
<1>5. CASE Crash(t)
  BY <1>2, <1>5 DEF Crash, Return
<1> QED BY <1>3, <1>4, <1>5

\* Whatever the number of tabs, failures and crashes, the stores and the calls
\* under way have the types the code gives them.
THEOREM TypeCorrect == Spec => []TypeOK
<1>1. Init => TypeOK
  BY InitType DEF Init, IdleTab, CallHasAnswer, TypeOK
<1>2. TypeOK /\ [Next]_vars => TypeOK'
  <2> SUFFICES ASSUME TypeOK, [Next]_vars PROVE TypeOK'
    OBVIOUS
  <2> USE DEF TypeOK
  <2>1. ASSUME UNCHANGED vars PROVE TypeOK'
    BY <2>1 DEF vars, Typed, CallHasAnswer, Commit
  <2>2. ASSUME NEW t \in Tabs, ApplyReviewAnswer(t) \/ SaveWord(t) \/ Crash(t)
        PROVE  TypeOK'
    <3>1. CallHasAnswer'
      BY <2>2, CallKeepsAnswer
    <3> SUFFICES Typed'
      BY <3>1
    <3>2. tab[t].pc \in {"decide", "write"} => Commit(t) \in Answers
      BY DEF CallHasAnswer
    <3>3. CASE ApplyReviewAnswer(t)
      <4>1. ASSUME NEW a \in Answers, BeginAnswer(t, a) PROVE Typed'
        <5>1. [IdleTab EXCEPT !.pc = "read", !.answer = a] \in TabRecord
          BY IdleTabType DEF TabRecord
        <5>2. tab' \in [Tabs -> TabRecord]
          BY <4>1, <5>1, TabUpdateType DEF BeginAnswer, Typed
        <5> QED BY <4>1, <5>2 DEF BeginAnswer, Typed
      <4>2. CASE ReadKey(t)
        BY <4>2, ReadKeyType
      <4>3. CASE RejectMalformed(t)
        BY <4>3, ReturnType DEF RejectMalformed, Typed
      <4>4. CASE ReturnDuplicate(t)
        <5>1. Commit(t) \in Answers
          BY <4>4, ReplayedType DEF ReturnDuplicate
        <5> QED BY <4>4, <5>1, ReturnType DEF ReturnDuplicate, Typed
      <4>5. CASE RejectDuplicate(t)
        BY <4>5, ReturnType DEF RejectDuplicate, Typed
      <4>6. CASE ComputeCommit(t)
        BY <3>2, <4>6, ComputeCommitType DEF ComputeCommit
      <4>7. CASE WriteKey(t)
        BY <3>2, <4>7, WriteKeyType DEF WriteKey
      <4>8. CASE WriteFails(t)
        BY <4>8, WriteFailsType
      <4>9. CASE RestoreKey(t)
        BY <4>9, RestoreKeyType
      <4>10. CASE RestoreFails(t)
        BY <4>10, RestoreFailsType
      <4> QED BY <3>3, <4>1, <4>2, <4>3, <4>4, <4>5, <4>6, <4>7, <4>8,
                 <4>9, <4>10 DEF ApplyReviewAnswer
    <3>4. CASE SaveWord(t)
      <4>1. ASSUME NEW w \in Words, NEW at \in SaveTimes, BeginSave(t, w, at)
            PROVE  Typed'
        BY <4>1, BeginSaveType
      <4>2. CASE FinishSave(t)
        BY <4>2, FinishSaveType
      <4>3. CASE SaveFails(t)
        <5>1. failures' \in 0..MaxFailures
          BY <4>3, StorageAssumption DEF SaveFails, Typed
        <5> QED BY <4>3, <5>1, ReturnType DEF SaveFails, Typed
      <4> QED BY <3>4, <4>1, <4>2, <4>3 DEF SaveWord
    <3>5. CASE Crash(t)
      <4>1. crashes' \in 0..MaxCrashes
        BY <3>5, StorageAssumption DEF Crash, Typed
      <4> QED BY <3>5, <4>1, ReturnType DEF Crash, Typed
    <3> QED BY <2>2, <3>3, <3>4, <3>5
  <2> QED BY <2>1, <2>2 DEF Next
<1> QED BY <1>1, <1>2, PTL DEF Spec

-----------------------------------------------------------------------------
(* An eventId is stored at most once *)

\* Besides the stored log, the logs a tab read, computed and may still write or
\* put back have no eventId twice: the strengthening that makes the property
\* inductive.
UniqueEverywhere ==
  /\ UniqueIds(store.reviewEvents)
  /\ \A t \in Tabs : /\ UniqueIds(tab[t].snapshot.reviewEvents)
                     /\ UniqueIds(tab[t].next.reviewEvents)

\* Appending an event whose eventId is not there keeps the eventIds apart.
LEMMA AppendUnique ==
  ASSUME NEW events \in Seq(Event), NEW event \in Event, UniqueIds(events),
         event.answer.eventId \notin EventIds(events)
  PROVE  UniqueIds(Append(events, event))
<1> DEFINE longer == Append(events, event)
<1>1. DOMAIN longer = 1..(Len(events) + 1) /\ DOMAIN events = 1..Len(events)
  OBVIOUS
<1>2. longer[Len(events) + 1] = event
  OBVIOUS
<1>3. \A i \in 1..Len(events) : longer[i] = events[i]
  OBVIOUS
<1>4. \A i \in 1..Len(events) : events[i].answer.eventId # event.answer.eventId
  BY <1>1 DEF EventIds
<1>5. Len(events) \in Nat
  OBVIOUS
<1> HIDE DEF longer
<1> SUFFICES ASSUME NEW i \in DOMAIN longer, NEW j \in DOMAIN longer,
                    longer[i].answer.eventId = longer[j].answer.eventId
             PROVE  i = j
  BY DEF UniqueIds, longer
<1>6. CASE i \in 1..Len(events) /\ j \in 1..Len(events)
  BY <1>1, <1>3, <1>6 DEF UniqueIds
<1>7. CASE i = Len(events) + 1 \/ j = Len(events) + 1
  BY <1>1, <1>2, <1>3, <1>4, <1>5, <1>7
<1> QED BY <1>1, <1>5, <1>6, <1>7

\* No store, and no log a tab holds, ever has an eventId twice.
THEOREM EventIdsStayUnique == Spec => []UniqueEventIds
<1>1. Init => UniqueEverywhere
  BY DEF Init, IdleTab, EmptyStores, UniqueEverywhere, UniqueIds
<1>2. UniqueEverywhere => UniqueEventIds
  BY DEF UniqueEverywhere, UniqueEventIds
<1>3. TypeOK /\ UniqueEverywhere /\ [Next]_vars => UniqueEverywhere'
  <2> SUFFICES ASSUME TypeOK, UniqueEverywhere, [Next]_vars
               PROVE  UniqueEverywhere'
    OBVIOUS
  <2>1. ASSUME UNCHANGED vars PROVE UniqueEverywhere'
    BY <2>1 DEF vars, UniqueEverywhere, UniqueIds
  <2>2. ASSUME NEW t \in Tabs, ApplyReviewAnswer(t) \/ SaveWord(t) \/ Crash(t)
        PROVE  UniqueEverywhere'
    <3> DEFINE Stored(log) == UniqueIds(log.reviewEvents)
    <3>1. \A u \in Tabs \ {t} : tab'[u] = tab[u]
      BY <2>2, OneTabMoves DEF TypeOK
    <3>2. /\ Stored(store) /\ Stored(tab[t].snapshot) /\ Stored(tab[t].next)
          /\ tab \in [Tabs -> TabRecord] /\ tab[t] \in TabRecord
          /\ store \in Stores
      BY DEF UniqueEverywhere, TypeOK, Typed
    <3>3. Stored(EmptyStores)
      BY DEF EmptyStores, UniqueIds
    <3>4. SUFFICES Stored(store') /\ Stored(tab'[t].snapshot) /\ Stored(tab'[t].next)
      BY <3>1 DEF UniqueEverywhere
    <3>5. ASSUME Return(t) PROVE Stored(tab'[t].snapshot) /\ Stored(tab'[t].next)
      BY <3>2, <3>3, <3>5 DEF Return, IdleTab
    <3>6. ASSUME NEW log \in Stores, Stored(log), NEW k \in Keys,
                 SetItem(k, log[k])
          PROVE  Stored(store')
      BY <3>2, <3>6 DEF SetItem, Stores, Keys
    <3>7. ActiveKey(t) \in Keys /\ tab[t].snapshot \in Stores /\ tab[t].next \in Stores
      BY <3>2, ActiveKeyType DEF TabRecord
    <3>8. CASE ApplyReviewAnswer(t)
      <4>1. ASSUME NEW a \in Answers, BeginAnswer(t, a)
            PROVE  /\ Stored(store') /\ Stored(tab'[t].snapshot)
                   /\ Stored(tab'[t].next)
        BY <3>2, <3>3, <4>1 DEF BeginAnswer, IdleTab
      <4>2. CASE ReadKey(t)
        <5> DEFINE k == ActiveKey(t)
        <5>1. /\ tab'[t].next = tab[t].next
              /\ tab'[t].snapshot = [tab[t].snapshot EXCEPT ![k] = store[k]]
              /\ store' = store
          BY <3>2, <4>2 DEF ReadKey, TabRecord
        <5> HIDE DEF k
        <5>2. tab'[t].snapshot.reviewEvents \in
                {tab[t].snapshot.reviewEvents, store.reviewEvents}
          BY <3>7, <5>1 DEF Stores
        <5> QED BY <3>2, <5>1, <5>2
      <4>3. CASE RejectMalformed(t) \/ ReturnDuplicate(t) \/ RejectDuplicate(t)
        BY <3>2, <3>5, <4>3 DEF RejectMalformed, ReturnDuplicate, RejectDuplicate
      <4>4. CASE ComputeCommit(t)
        <5> DEFINE next == StoresAfter(tab[t].snapshot, Commit(t))
        <5>1. Commit(t) \in Answers
          BY <4>4 DEF ComputeCommit, TypeOK, CallHasAnswer
        <5>2. PICK event \in Event :
                /\ event.answer = Commit(t)
                /\ next.reviewEvents = Append(tab[t].snapshot.reviewEvents, event)
          BY <3>7, <5>1, StoresAfterType
        <5>3. event.answer.eventId \notin EventIds(tab[t].snapshot.reviewEvents)
          BY <4>4, <5>2 DEF ComputeCommit
        <5>4. tab[t].snapshot.reviewEvents \in Seq(Event)
          BY <3>7 DEF Stores
        <5>5. Stored(next)
          BY <3>2, <5>2, <5>3, <5>4, AppendUnique
        <5>6. /\ tab'[t].next = next /\ tab'[t].snapshot = tab[t].snapshot
              /\ store' = store
          BY <3>2, <4>4 DEF ComputeCommit, TabRecord
        <5> QED BY <3>2, <5>5, <5>6
      <4>5. CASE WriteKey(t)
        <5>1. Stored(store')
          BY <3>2, <3>6, <3>7, <4>5 DEF WriteKey
        <5>2. CASE tab[t].step = 3
          BY <3>5, <4>5, <5>1, <5>2 DEF WriteKey
        <5>3. CASE tab[t].step # 3
          BY <3>2, <4>5, <5>1, <5>3 DEF WriteKey, TabRecord
        <5> QED BY <5>2, <5>3
      <4>6. CASE WriteFails(t)
        BY <3>2, <4>6 DEF WriteFails, TabRecord
      <4>7. ASSUME NEW failed, RestoreNext(t, failed)
            PROVE  Stored(tab'[t].snapshot) /\ Stored(tab'[t].next)
        <5>1. CASE tab[t].step = 3
          BY <3>5, <4>7, <5>1 DEF RestoreNext
        <5>2. CASE tab[t].step # 3
          BY <3>2, <4>7, <5>2 DEF RestoreNext, TabRecord
        <5> QED BY <5>1, <5>2
      <4>8. CASE RestoreKey(t)
        BY <3>2, <3>6, <3>7, <4>7, <4>8 DEF RestoreKey
      <4>9. CASE RestoreFails(t)
        BY <3>2, <4>7, <4>9 DEF RestoreFails
      <4> QED BY <3>8, <4>1, <4>2, <4>3, <4>4, <4>5, <4>6, <4>8, <4>9
              DEF ApplyReviewAnswer
    <3>9. CASE SaveWord(t)
      <4>1. ASSUME NEW w \in Words, NEW at \in SaveTimes, BeginSave(t, w, at)
            PROVE  /\ Stored(store') /\ Stored(tab'[t].snapshot)
                   /\ Stored(tab'[t].next)
        <5>1. store' = store
          BY <4>1 DEF BeginSave
        <5>2. CASE UNCHANGED tab
          BY <3>2, <5>1, <5>2
        <5>3. CASE ~UNCHANGED tab
          <6>1. PICK rs : tab' = [tab EXCEPT ![t] = [IdleTab EXCEPT
                                    !.pc = "save", !.next.reviewState = rs]]
            BY <4>1, <5>3 DEF BeginSave
          <6>2. tab'[t] = [IdleTab EXCEPT !.pc = "save", !.next.reviewState = rs]
            BY <3>2, <6>1
          <6>3. /\ tab'[t].snapshot = EmptyStores
                /\ tab'[t].next.reviewEvents = EmptyStores.reviewEvents
            BY <6>2 DEF IdleTab, EmptyStores
          <6> QED BY <3>2, <3>3, <5>1, <6>3
        <5> QED BY <5>2, <5>3
      <4>2. CASE FinishSave(t)
        <5>1. "reviewState" \in Keys
          BY DEF Keys
        <5>2. SetItem("reviewState", tab[t].next["reviewState"]) /\ Return(t)
          BY <4>2 DEF FinishSave
        <5>3. Stored(store')
          BY <3>2, <3>6, <3>7, <5>1, <5>2
        <5> QED BY <3>5, <5>2, <5>3
      <4>3. CASE SaveFails(t)
        BY <3>2, <3>5, <4>3 DEF SaveFails
      <4> QED BY <3>9, <4>1, <4>2, <4>3 DEF SaveWord
    <3>10. CASE Crash(t)
      BY <3>2, <3>5, <3>10 DEF Crash
    <3> QED BY <2>2, <3>8, <3>9, <3>10
  <2> QED BY <2>1, <2>2 DEF Next
<1>4. Spec => []UniqueEverywhere
  BY <1>1, <1>3, TypeCorrect, PTL DEF Spec
<1> QED BY <1>2, <1>4, PTL

-----------------------------------------------------------------------------
(* A store that does not parse is not overwritten by an answer *)

\* A tab that goes on to write has read every key, and none was malformed when
\* it did: no key becomes malformed afterwards.
MalformedSeen(t) ==
  /\ tab[t].pc = "read" =>
       \A i \in 1..(tab[t].step - 1) :
         CommitKeys[i] \in malformed => CommitKeys[i] \in tab[t].unreadable
  /\ tab[t].pc = "decide" => malformed \subseteq tab[t].unreadable
  /\ tab[t].pc \in {"write", "restore"} => malformed = {}

NoneOverlooked == \A t \in Tabs : MalformedSeen(t)

LEMMA MalformedShrinks ==
  ASSUME NEW t \in Tabs, ApplyReviewAnswer(t) \/ SaveWord(t) \/ Crash(t)
  PROVE  malformed' \subseteq malformed
BY DEF ApplyReviewAnswer, SaveWord, Crash, BeginAnswer, ReadKey, RejectMalformed,
       ReturnDuplicate, RejectDuplicate, ComputeCommit, WriteKey, WriteFails,
       RestoreKey, RestoreFails, BeginSave, FinishSave, SaveFails, SetItem

\* A tab that is back on the page, or saves a word, has nothing to have seen.
LEMMA ReturnSees ==
  ASSUME Typed, NEW t \in Tabs, Return(t) PROVE MalformedSeen(t)'
<1>1. tab'[t].pc = "idle"
  BY DEF Return, Typed, IdleTab
<1> QED BY <1>1 DEF MalformedSeen

LEMMA ReadKeySees ==
  ASSUME TypeOK, NEW t \in Tabs, MalformedSeen(t), ReadKey(t)
  PROVE  MalformedSeen(t)'
<1> DEFINE k == ActiveKey(t)
           bad == IF k \in malformed THEN tab[t].unreadable \cup {k}
                  ELSE tab[t].unreadable
<1>1. /\ tab[t] \in TabRecord /\ tab \in [Tabs -> TabRecord] /\ tab[t].pc = "read"
      /\ malformed' = malformed /\ malformed \subseteq Keys
  BY DEF TypeOK, Typed, ReadKey
<1>2. /\ tab'[t].pc = (IF tab[t].step = 3 THEN "decide" ELSE "read")
      /\ tab'[t].step = (IF tab[t].step = 3 THEN 1 ELSE tab[t].step + 1)
      /\ tab'[t].unreadable = bad
  BY <1>1 DEF ReadKey, TabRecord
<1>3. tab[t].step \in 1..3 /\ k = CommitKeys[tab[t].step]
  BY <1>1 DEF TabRecord, ActiveKey
<1>4. \A i \in 1..tab[t].step : CommitKeys[i] \in malformed => CommitKeys[i] \in bad
  BY <1>1, <1>3 DEF MalformedSeen
<1>5. Keys = {CommitKeys[i] : i \in 1..3}
  BY DEF Keys, CommitKeys
<1> HIDE DEF k, bad
<1> QED BY <1>1, <1>2, <1>3, <1>4, <1>5 DEF MalformedSeen

LEMMA AnswerSees ==
  ASSUME TypeOK, NoneOverlooked, NEW t \in Tabs, ApplyReviewAnswer(t)
  PROVE  MalformedSeen(t)'
<1>1. /\ tab[t] \in TabRecord /\ tab \in [Tabs -> TabRecord] /\ Typed
      /\ MalformedSeen(t) /\ malformed' \subseteq malformed
  BY MalformedShrinks DEF TypeOK, Typed, NoneOverlooked
<1>2. ASSUME NEW a \in Answers, BeginAnswer(t, a) PROVE MalformedSeen(t)'
  <2>1. tab'[t].pc = "read" /\ tab'[t].step = 1
    BY <1>1, <1>2 DEF BeginAnswer, IdleTab
  <2> QED BY <2>1 DEF MalformedSeen
<1>3. CASE ReadKey(t)
  BY <1>1, <1>3, ReadKeySees
<1>4. CASE RejectMalformed(t) \/ ReturnDuplicate(t) \/ RejectDuplicate(t)
  BY <1>1, <1>4, ReturnSees DEF RejectMalformed, ReturnDuplicate, RejectDuplicate
<1>5. CASE ComputeCommit(t)
  <2>1. tab'[t].pc = "write" /\ malformed' = {}
    BY <1>1, <1>5 DEF ComputeCommit, MalformedSeen, TabRecord
  <2> QED BY <2>1 DEF MalformedSeen
<1>6. CASE WriteKey(t) \/ WriteFails(t) \/ RestoreKey(t) \/ RestoreFails(t)
  <2>1. malformed' = {}
    BY <1>1, <1>6 DEF WriteKey, WriteFails, RestoreKey, RestoreFails, MalformedSeen
  <2> QED BY <2>1 DEF MalformedSeen
<1> QED BY <1>2, <1>3, <1>4, <1>5, <1>6 DEF ApplyReviewAnswer

LEMMA NoneOverlookedStays == TypeOK /\ NoneOverlooked /\ [Next]_vars => NoneOverlooked'
<1> SUFFICES ASSUME TypeOK, NoneOverlooked, [Next]_vars PROVE NoneOverlooked'
  OBVIOUS
<1>1. CASE UNCHANGED vars
  BY <1>1 DEF vars, NoneOverlooked, MalformedSeen
<1>2. ASSUME NEW t \in Tabs, ApplyReviewAnswer(t) \/ SaveWord(t) \/ Crash(t)
      PROVE  NoneOverlooked'
  <2>1. ASSUME NEW u \in Tabs, tab'[u] = tab[u] PROVE MalformedSeen(u)'
    BY <1>2, <2>1, MalformedShrinks DEF NoneOverlooked, MalformedSeen
  <2>2. \A u \in Tabs \ {t} : MalformedSeen(u)'
    BY <1>2, <2>1, OneTabMoves DEF TypeOK
  <2>3. CASE ApplyReviewAnswer(t)
    BY <2>2, <2>3, AnswerSees DEF NoneOverlooked
  <2>4. CASE SaveWord(t)
    <3>1. ASSUME NEW w \in Words, NEW at \in SaveTimes, BeginSave(t, w, at)
          PROVE  MalformedSeen(t)'
      <4>1. CASE UNCHANGED tab
        BY <2>1, <4>1
      <4>2. CASE ~UNCHANGED tab
        <5>1. PICK state : tab' = [tab EXCEPT ![t] =
                [IdleTab EXCEPT !.pc = "save", !.next.reviewState = state]]
          BY <3>1, <4>2 DEF BeginSave
        <5> DEFINE rec == [IdleTab EXCEPT !.pc = "save", !.next.reviewState = state]
        <5>2. tab' = [tab EXCEPT ![t] = rec]
          BY <5>1
        <5>3. rec.pc = "save"
          BY DEF IdleTab
        <5> HIDE DEF rec
        <5>4. tab'[t].pc = "save"
          BY <5>2, <5>3 DEF TypeOK, Typed
        <5> QED BY <5>4 DEF MalformedSeen
      <4> QED BY <4>1, <4>2
    <3>2. CASE FinishSave(t) \/ SaveFails(t)
      BY <2>2, <3>2, ReturnSees DEF FinishSave, SaveFails, TypeOK, NoneOverlooked
    <3> QED BY <2>2, <2>4, <3>1, <3>2 DEF SaveWord, NoneOverlooked
  <2>5. CASE Crash(t)
    BY <2>2, <2>5, ReturnSees DEF Crash, TypeOK, NoneOverlooked
  <2> QED BY <1>2, <2>3, <2>4, <2>5
<1> QED BY <1>1, <1>2 DEF Next

LEMMA NoneOverlookedAlways == Spec => []NoneOverlooked
<1>1. Init => NoneOverlooked
  BY DEF Init, NoneOverlooked, MalformedSeen, IdleTab
<1> QED BY <1>1, NoneOverlookedStays, TypeCorrect, PTL DEF Spec

\* Whatever the tabs do, text that does not parse is replaced by nothing but
\* the save page, which reads the review state leniently.
THEOREM MalformedSurvives == Spec => MalformedPreserved
<1> DEFINE Preserved ==
      \A k \in malformed \ malformed' :
        k = "reviewState" /\ \E t \in Tabs : tab[t].pc = "save" /\ tab'[t].pc = "idle"
<1>1. TypeOK /\ NoneOverlooked /\ [Next]_vars => [Preserved]_vars
  <2> SUFFICES ASSUME TypeOK, NoneOverlooked, NEW t \in Tabs,
                      ApplyReviewAnswer(t) \/ SaveWord(t) \/ Crash(t)
               PROVE  Preserved
    BY DEF Next
  <2>1. CASE ApplyReviewAnswer(t) \/ Crash(t)
    <3>1. malformed' = malformed \/ malformed = {}
      BY <2>1 DEF ApplyReviewAnswer, Crash, BeginAnswer, ReadKey, RejectMalformed,
                  ReturnDuplicate, RejectDuplicate, ComputeCommit, WriteKey,
                  WriteFails, RestoreKey, RestoreFails, NoneOverlooked, MalformedSeen
    <3> QED BY <3>1
  <2>2. CASE SaveWord(t)
    <3>1. CASE FinishSave(t)
      <4>1. tab[t].pc = "save" /\ tab'[t].pc = "idle"
        BY <3>1 DEF FinishSave, Return, TypeOK, Typed, IdleTab
      <4>2. malformed' = malformed \ {"reviewState"}
        BY <3>1 DEF FinishSave, SetItem
      <4> QED BY <4>1, <4>2
    <3>2. CASE ~FinishSave(t)
      BY <2>2, <3>2 DEF SaveWord, BeginSave, SaveFails
    <3> QED BY <3>1, <3>2
  <2> QED BY <2>1, <2>2
<1> QED BY <1>1, TypeCorrect, NoneOverlookedAlways, PTL DEF Spec, MalformedPreserved

-----------------------------------------------------------------------------
(* One tab: what a call holds mirrors the stores *)

\* With one tab nobody else writes: what the tab read is what the stores hold,
\* and while it writes or rolls back each key is that of its snapshot or that
\* of the stores it computed.
CallMirrors(t) ==
  LET same(a, b, i) == a[CommitKeys[i]] = b[CommitKeys[i]]
      snapshot == tab[t].snapshot
      next == tab[t].next
      step == tab[t].step IN
  /\ tab[t].pc = "read" => \A i \in 1..(step - 1) : same(snapshot, store, i)
  /\ tab[t].pc = "decide" => snapshot = store /\ step = 1
  /\ tab[t].pc \in {"write", "restore"} =>
       /\ next = StoresAfter(snapshot, Commit(t))
       /\ Commit(t).eventId \notin EventIds(snapshot.reviewEvents)
  /\ tab[t].pc = "write" =>
       \A i \in 1..3 : IF i < step THEN same(store, next, i)
                       ELSE same(store, snapshot, i)
  /\ tab[t].pc = "restore" =>
       \A i \in 1..3 : /\ same(store, next, i) \/ same(store, snapshot, i)
                       /\ i < step => \/ CommitKeys[i] \in tab[t].failedKeys
                                      \/ same(store, snapshot, i)
  /\ tab[t].pc = "save" =>
       \E w \in Words, at \in SaveTimes :
         next.reviewState = SavedState(store.reviewState, w, at)

\* Text that does not parse hides no answer of this learner.
MalformedIsEmpty == \A k \in malformed : store[k] = EmptyStores[k]

LEMMA CommitKeysAreKeys ==
  /\ Keys = {CommitKeys[i] : i \in 1..3}
  /\ \A i, j \in 1..3 : CommitKeys[i] = CommitKeys[j] => i = j
BY DEF Keys, CommitKeys

\* Setting one key leaves the others.
LEMMA SetOneKey ==
  ASSUME NEW s \in Stores, NEW v, NEW i \in 1..3, NEW j \in 1..3
  PROVE  [s EXCEPT ![CommitKeys[i]] = v][CommitKeys[j]] =
           IF i = j THEN v ELSE s[CommitKeys[j]]
<1>1. DOMAIN s = Keys
  BY DEF Stores, Keys
<1> QED BY <1>1, CommitKeysAreKeys

LEMMA SameStores ==
  ASSUME NEW a \in Stores, NEW b \in Stores,
         \A i \in 1..3 : a[CommitKeys[i]] = b[CommitKeys[i]]
  PROVE  a = b
<1>1. \A k \in {"reviewState", "reviewEvents", "dailyStats"} : a[k] = b[k]
  BY CommitKeysAreKeys DEF Keys
<1> QED BY <1>1 DEF Stores

LEMMA ReturnMirrors ==
  ASSUME Typed, NEW t \in Tabs, Return(t) PROVE CallMirrors(t)'
<1>1. tab'[t].pc = "idle"
  BY DEF Return, Typed, IdleTab
<1> QED BY <1>1 DEF CallMirrors

LEMMA ReadKeyMirrors ==
  ASSUME TypeOK, NEW t \in Tabs, CallMirrors(t), ReadKey(t)
  PROVE  CallMirrors(t)'
<1> DEFINE step == tab[t].step
           read == [tab[t].snapshot EXCEPT ![CommitKeys[step]] = store[CommitKeys[step]]]
<1>1. /\ tab[t] \in TabRecord /\ tab \in [Tabs -> TabRecord] /\ tab[t].pc = "read"
      /\ store' = store /\ store \in Stores /\ tab[t].snapshot \in Stores
      /\ step \in 1..3
  BY DEF TypeOK, Typed, ReadKey, TabRecord
<1>2. /\ tab'[t].pc = (IF step = 3 THEN "decide" ELSE "read")
      /\ tab'[t].step = (IF step = 3 THEN 1 ELSE step + 1)
      /\ tab'[t].snapshot = read
  BY <1>1 DEF ReadKey, ActiveKey, TabRecord
<1>3. \A i \in 1..step : read[CommitKeys[i]] = store[CommitKeys[i]]
  BY <1>1, SetOneKey DEF CallMirrors
<1>4. read \in Stores
  BY <1>1, StoreKeyType, CommitKeysAreKeys
<1> HIDE DEF read, step
<1>5. CASE step = 3
  <2>1. read = store
    BY <1>1, <1>3, <1>4, <1>5, SameStores
  <2>2. tab'[t].pc = "decide" /\ tab'[t].snapshot = store' /\ tab'[t].step = 1
    BY <1>1, <1>2, <1>5, <2>1
  <2> QED BY <2>2 DEF CallMirrors
<1>6. CASE step # 3
  BY <1>1, <1>2, <1>3, <1>6 DEF CallMirrors
<1> QED BY <1>5, <1>6

LEMMA ComputeMirrors ==
  ASSUME TypeOK, NEW t \in Tabs, CallMirrors(t), ComputeCommit(t)
  PROVE  CallMirrors(t)'
<1>1. /\ tab[t] \in TabRecord /\ tab \in [Tabs -> TabRecord] /\ tab[t].pc = "decide"
      /\ store' = store /\ tab[t].snapshot = store /\ tab[t].step = 1
  BY DEF TypeOK, Typed, ComputeCommit, CallMirrors
<1>2. /\ tab'[t].pc = "write" /\ tab'[t].answer = tab[t].answer
      /\ tab'[t].snapshot = tab[t].snapshot
      /\ tab'[t].next = StoresAfter(tab[t].snapshot, tab[t].answer)
      /\ tab'[t].step = tab[t].step
  BY <1>1 DEF ComputeCommit, TabRecord, Commit
<1>3. tab[t].answer.eventId \notin EventIds(tab[t].snapshot.reviewEvents)
  BY DEF ComputeCommit, Commit
<1> QED BY <1>1, <1>2, <1>3 DEF CallMirrors, Commit

LEMMA WriteKeyMirrors ==
  ASSUME TypeOK, NEW t \in Tabs, CallMirrors(t), WriteKey(t), tab[t].step # 3
  PROVE  CallMirrors(t)'
<1> DEFINE step == tab[t].step
           written == [store EXCEPT ![CommitKeys[step]] = tab[t].next[CommitKeys[step]]]
<1>1. /\ tab[t] \in TabRecord /\ tab \in [Tabs -> TabRecord] /\ tab[t].pc = "write"
      /\ store \in Stores /\ step \in 1..3
  BY DEF TypeOK, Typed, WriteKey, TabRecord
<1>2. /\ tab'[t].pc = "write" /\ tab'[t].step = step + 1
      /\ tab'[t].answer = tab[t].answer /\ tab'[t].next = tab[t].next
      /\ tab'[t].snapshot = tab[t].snapshot /\ store' = written
  BY <1>1 DEF WriteKey, ActiveKey, SetItem, TabRecord
<1>3. \A i \in 1..3 : written[CommitKeys[i]] =
        IF i = step THEN tab[t].next[CommitKeys[i]] ELSE store[CommitKeys[i]]
  BY <1>1, SetOneKey
<1> HIDE DEF written, step
<1>4. \A i \in 1..3 : IF i < step + 1
                      THEN written[CommitKeys[i]] = tab[t].next[CommitKeys[i]]
                      ELSE written[CommitKeys[i]] = tab[t].snapshot[CommitKeys[i]]
  BY <1>1, <1>3 DEF CallMirrors, step
<1>5. /\ tab[t].next = StoresAfter(tab[t].snapshot, tab[t].answer)
      /\ tab[t].answer.eventId \notin EventIds(tab[t].snapshot.reviewEvents)
  BY <1>1 DEF CallMirrors, Commit
<1> QED BY <1>2, <1>4, <1>5 DEF CallMirrors, Commit

LEMMA WriteFailsMirrors ==
  ASSUME TypeOK, NEW t \in Tabs, CallMirrors(t), WriteFails(t)
  PROVE  CallMirrors(t)'
<1>1. /\ tab[t] \in TabRecord /\ tab \in [Tabs -> TabRecord] /\ tab[t].pc = "write"
      /\ store' = store /\ tab[t].step \in 1..3
  BY DEF TypeOK, Typed, WriteFails, TabRecord
<1>2. /\ tab'[t].pc = "restore" /\ tab'[t].step = 1
      /\ tab'[t].answer = tab[t].answer /\ tab'[t].next = tab[t].next
      /\ tab'[t].snapshot = tab[t].snapshot
  BY <1>1 DEF WriteFails, TabRecord
<1>3. /\ tab[t].next = StoresAfter(tab[t].snapshot, tab[t].answer)
      /\ tab[t].answer.eventId \notin EventIds(tab[t].snapshot.reviewEvents)
  BY <1>1 DEF CallMirrors, Commit
<1>4. \A i \in 1..3 : \/ store[CommitKeys[i]] = tab[t].next[CommitKeys[i]]
                      \/ store[CommitKeys[i]] = tab[t].snapshot[CommitKeys[i]]
  BY <1>1 DEF CallMirrors
<1> QED BY <1>1, <1>2, <1>3, <1>4 DEF CallMirrors, Commit

LEMMA RestoreMirrors ==
  ASSUME TypeOK, NEW t \in Tabs, CallMirrors(t), RestoreKey(t) \/ RestoreFails(t),
         tab[t].step # 3
  PROVE  CallMirrors(t)'
<1> DEFINE step == tab[t].step
           k == CommitKeys[step]
<1>1. /\ tab[t] \in TabRecord /\ tab \in [Tabs -> TabRecord] /\ tab[t].pc = "restore"
      /\ store \in Stores /\ step \in 1..3 /\ ActiveKey(t) = CommitKeys[step]
  BY DEF TypeOK, Typed, RestoreKey, RestoreFails, TabRecord, ActiveKey
<1>2. PICK failed :
        /\ tab' = [tab EXCEPT ![t] = [tab[t] EXCEPT !.step = tab[t].step + 1,
                                                    !.failedKeys = failed]]
        /\ tab[t].failedKeys \subseteq failed
        /\ \/ store' = [store EXCEPT ![k] = tab[t].snapshot[k]]
           \/ store' = store /\ k \in failed
  <2>1. CASE RestoreKey(t)
    BY <1>1, <2>1 DEF RestoreKey, RestoreNext, SetItem
  <2>2. CASE RestoreFails(t)
    <3> DEFINE failed == tab[t].failedKeys \cup {k}
    <3>1. /\ tab' = [tab EXCEPT ![t] = [tab[t] EXCEPT !.step = tab[t].step + 1,
                                                      !.failedKeys = failed]]
          /\ store' = store /\ k \in failed /\ tab[t].failedKeys \subseteq failed
      BY <1>1, <2>2 DEF RestoreFails, RestoreNext
    <3> QED BY <3>1
  <2> QED BY <2>1, <2>2
<1>3. /\ tab'[t].pc = "restore" /\ tab'[t].step = step + 1
      /\ tab'[t].answer = tab[t].answer /\ tab'[t].next = tab[t].next
      /\ tab'[t].snapshot = tab[t].snapshot /\ tab'[t].failedKeys = failed
  BY <1>1, <1>2 DEF TabRecord
<1> HIDE DEF step
<1>4. \A i \in 1..3 :
        \/ store'[CommitKeys[i]] = tab[t].snapshot[CommitKeys[i]]
        \/ store'[CommitKeys[i]] = store[CommitKeys[i]] /\ (i = step => CommitKeys[i] \in failed)
  BY <1>1, <1>2, SetOneKey
<1>5. \A i \in 1..3 :
        /\ \/ store[CommitKeys[i]] = tab[t].next[CommitKeys[i]]
           \/ store[CommitKeys[i]] = tab[t].snapshot[CommitKeys[i]]
        /\ i < step => \/ CommitKeys[i] \in tab[t].failedKeys
                       \/ store[CommitKeys[i]] = tab[t].snapshot[CommitKeys[i]]
  BY <1>1 DEF CallMirrors, step
<1>6. /\ tab[t].next = StoresAfter(tab[t].snapshot, tab[t].answer)
      /\ tab[t].answer.eventId \notin EventIds(tab[t].snapshot.reviewEvents)
  BY <1>1 DEF CallMirrors, Commit
<1>7. \A i \in 1..3 :
        /\ \/ store'[CommitKeys[i]] = tab[t].next[CommitKeys[i]]
           \/ store'[CommitKeys[i]] = tab[t].snapshot[CommitKeys[i]]
        /\ i < step + 1 => \/ CommitKeys[i] \in failed
                           \/ store'[CommitKeys[i]] = tab[t].snapshot[CommitKeys[i]]
  BY <1>1, <1>2, <1>4, <1>5
<1> QED BY <1>3, <1>6, <1>7 DEF CallMirrors, Commit

LEMMA BeginSaveMirrors ==
  ASSUME TypeOK, NEW t \in Tabs, CallMirrors(t), MalformedIsEmpty,
         NEW w \in Words, NEW at \in SaveTimes, BeginSave(t, w, at)
  PROVE  CallMirrors(t)'
<1> DEFINE readable == IF "reviewState" \in malformed
                       THEN EmptyStores.reviewState ELSE store.reviewState
           saved == SavedState(readable, w, at)
<1>1. /\ tab[t] \in TabRecord /\ tab \in [Tabs -> TabRecord] /\ store' = store
      /\ readable = store.reviewState
  BY DEF TypeOK, Typed, BeginSave, MalformedIsEmpty
<1>2. CASE UNCHANGED tab
  BY <1>1, <1>2 DEF CallMirrors, Commit
<1>3. CASE ~UNCHANGED tab
  <2>1. tab' = [tab EXCEPT ![t] = [IdleTab EXCEPT !.pc = "save",
                                                  !.next.reviewState = saved]]
    BY <1>3 DEF BeginSave
  <2> HIDE DEF saved
  <2>2. tab'[t] = [IdleTab EXCEPT !.pc = "save", !.next.reviewState = saved]
    BY <1>1, <2>1
  <2>3. tab'[t].pc = "save" /\ tab'[t].next.reviewState = saved
    BY <2>2 DEF IdleTab, EmptyStores
  <2>4. \E v \in Words, time \in SaveTimes :
          tab'[t].next.reviewState = SavedState(store'.reviewState, v, time)
    BY <1>1, <2>3 DEF saved
  <2> HIDE DEF readable
  <2> QED BY <2>3, <2>4 DEF CallMirrors
<1> QED BY <1>2, <1>3

\* setItem makes a key readable, so MalformedIsEmpty says less of it.
LEMMA MalformedIsEmptyStays ==
  ASSUME TypeOK, MalformedIsEmpty, NEW t \in Tabs,
         ApplyReviewAnswer(t) \/ SaveWord(t) \/ Crash(t)
  PROVE  MalformedIsEmpty'
<1>1. \/ UNCHANGED <<store, malformed>>
      \/ \E k \in Keys : \E value : SetItem(k, value)
  <2>1. ActiveKey(t) \in Keys /\ "reviewState" \in Keys
    BY ActiveKeyType DEF TypeOK, Typed, Keys
  <2>2. CASE ApplyReviewAnswer(t) \/ Crash(t)
    BY <2>1, <2>2 DEF ApplyReviewAnswer, Crash, BeginAnswer, ReadKey,
                RejectMalformed, ReturnDuplicate, RejectDuplicate, ComputeCommit,
                WriteKey, WriteFails, RestoreKey, RestoreFails
  <2>3. CASE SaveWord(t)
    BY <2>1, <2>3 DEF SaveWord, BeginSave, FinishSave, SaveFails
  <2> QED BY <2>2, <2>3
<1>2. store \in Stores /\ malformed \subseteq Keys /\ DOMAIN store = Keys
  BY DEF TypeOK, Typed, Stores, Keys
<1>3. CASE UNCHANGED <<store, malformed>>
  BY <1>3 DEF MalformedIsEmpty
<1>4. ASSUME NEW k \in Keys, NEW value, SetItem(k, value) PROVE MalformedIsEmpty'
  BY <1>2, <1>4 DEF SetItem, MalformedIsEmpty
<1> QED BY <1>1, <1>3, <1>4

MirrorInv == MalformedIsEmpty /\ \A t \in Tabs : CallMirrors(t)

LEMMA MirrorsStay ==
  ASSUME NEW t, Tabs = {t}, TypeOK, MirrorInv, [Next]_vars
  PROVE  MirrorInv'
<1>1. TypeOK /\ Typed /\ t \in Tabs /\ CallMirrors(t) /\ MalformedIsEmpty
  BY DEF TypeOK, MirrorInv
<1>2. CASE UNCHANGED vars
  BY <1>2 DEF vars, MirrorInv, MalformedIsEmpty, CallMirrors, Commit
<1>3. CASE ApplyReviewAnswer(t) \/ SaveWord(t) \/ Crash(t)
  <2>1. MalformedIsEmpty'
    BY <1>1, <1>3, MalformedIsEmptyStays
  <2> SUFFICES CallMirrors(t)'
    BY <2>1 DEF MirrorInv
  <2>2. CASE ApplyReviewAnswer(t)
    <3>1. ASSUME NEW a \in Answers, BeginAnswer(t, a) PROVE CallMirrors(t)'
      <4>1. tab'[t].pc = "read" /\ tab'[t].step = 1
        BY <1>1, <3>1 DEF BeginAnswer, Typed, IdleTab
      <4> QED BY <4>1 DEF CallMirrors
    <3>2. CASE RejectMalformed(t) \/ ReturnDuplicate(t) \/ RejectDuplicate(t)
      BY <1>1, <3>2, ReturnMirrors
      DEF RejectMalformed, ReturnDuplicate, RejectDuplicate
    <3>3. CASE WriteKey(t)
      BY <1>1, <3>3, ReturnMirrors, WriteKeyMirrors DEF WriteKey
    <3>4. CASE RestoreKey(t) \/ RestoreFails(t)
      BY <1>1, <3>4, ReturnMirrors, RestoreMirrors
      DEF RestoreKey, RestoreFails, RestoreNext
    <3> QED BY <1>1, <2>2, <3>1, <3>2, <3>3, <3>4, ReadKeyMirrors, ComputeMirrors,
               WriteFailsMirrors DEF ApplyReviewAnswer
  <2>3. CASE SaveWord(t)
    BY <1>1, <2>3, BeginSaveMirrors, ReturnMirrors
    DEF SaveWord, FinishSave, SaveFails
  <2>4. CASE Crash(t)
    BY <1>1, <2>4, ReturnMirrors DEF Crash
  <2> QED BY <1>3, <2>2, <2>3, <2>4
<1> QED BY <1>2, <1>3 DEF Next

LEMMA MirrorsAlways ==
  ASSUME NEW t, Tabs = {t} PROVE Spec => []MirrorInv
<1>1. Init => MirrorInv
  BY DEF Init, MirrorInv, MalformedIsEmpty, CallMirrors, IdleTab
<1>2. TypeOK /\ MirrorInv /\ [Next]_vars => MirrorInv'
  BY MirrorsStay
<1> QED BY <1>1, <1>2, TypeCorrect, PTL DEF Spec
-----------------------------------------------------------------------------
(* One tab: a commit is one step of ReviewLog *)

LEMMA CommittedIs ==
  ASSUME NEW t, Tabs = {t}
  PROVE  /\ CommittedStores = IF tab[t].pc \in {"write", "restore"}
                              THEN tab[t].snapshot ELSE store
         /\ CommittedStores' = IF tab'[t].pc \in {"write", "restore"}
                               THEN tab'[t].snapshot ELSE store'
BY DEF CommittedStores

\* The variables of ReviewLog, as the steps below leave them.
LogStutters == UNCHANGED <<CommittedStores, malformed, acked, fatal, crashes>>

\* A call that is not writing leaves, or goes on, and changes no store.
LEMMA QuietStep ==
  ASSUME NEW t, Tabs = {t}, TypeOK, MirrorInv,
         \/ \E a \in Answers : BeginAnswer(t, a)
         \/ ReadKey(t) \/ RejectMalformed(t) \/ RejectDuplicate(t)
         \/ ComputeCommit(t) \/ SaveFails(t)
         \/ \E w \in Words, at \in SaveTimes : BeginSave(t, w, at)
  PROVE  LogStutters
<1>1. tab[t].pc \in {"idle", "read", "decide", "save"}
      /\ UNCHANGED <<store, malformed, acked, fatal, crashes>>
  BY DEF BeginAnswer, ReadKey, RejectMalformed, RejectDuplicate, IsDuplicate,
         ComputeCommit, SaveFails, BeginSave
<1>2. CommittedStores = store
  BY <1>1, CommittedIs
<1>3. tab \in [Tabs -> TabRecord] /\ tab[t] \in TabRecord /\ t \in Tabs
  BY DEF TypeOK, Typed
<1>4. CASE ComputeCommit(t)
  <2>1. tab'[t].pc = "write" /\ tab'[t].snapshot = tab[t].snapshot
    BY <1>3, <1>4 DEF ComputeCommit, TabRecord
  <2>2. tab[t].snapshot = store
    BY <1>3, <1>4 DEF ComputeCommit, MirrorInv, CallMirrors
  <2> QED BY <1>1, <1>2, <2>1, <2>2, CommittedIs DEF LogStutters
<1>5. CASE ~ComputeCommit(t)
  <2>1. tab'[t].pc \in {"idle", "read", "decide", "save"}
    <3>1. ASSUME NEW a \in Answers, BeginAnswer(t, a) PROVE tab'[t].pc = "read"
      BY <1>3, <3>1 DEF BeginAnswer, IdleTab
    <3>2. CASE ReadKey(t)
      BY <1>3, <3>2 DEF ReadKey, TabRecord
    <3>3. CASE RejectMalformed(t) \/ RejectDuplicate(t) \/ SaveFails(t)
      BY <1>3, <3>3 DEF RejectMalformed, RejectDuplicate, SaveFails, Return, IdleTab
    <3>4. ASSUME NEW w \in Words, NEW at \in SaveTimes, BeginSave(t, w, at),
                 ~UNCHANGED tab
          PROVE  tab'[t].pc = "save"
      <4>1. PICK saved : tab' = [tab EXCEPT ![t] = [IdleTab EXCEPT !.pc = "save",
                                                   !.next.reviewState = saved]]
        BY <3>4 DEF BeginSave
      <4>2. tab'[t] = [IdleTab EXCEPT !.pc = "save", !.next.reviewState = saved]
        BY <1>3, <4>1
      <4> QED BY <4>2 DEF IdleTab
    <3>5. UNCHANGED tab => tab'[t].pc = tab[t].pc
      OBVIOUS
    <3> QED BY <1>1, <1>5, <3>1, <3>2, <3>3, <3>4, <3>5
  <2> QED BY <1>1, <1>2, <2>1, CommittedIs DEF LogStutters
<1> QED BY <1>4, <1>5

\* ReviewLog and ReviewStorage speak of the same stores and the same engine.
LEMMA SameItemAfter ==
  ASSUME NEW item, NEW a PROVE Log!ItemAfter(item, a) = ItemAfter(item, a)
<1>1. Log!BoxInterval = BoxInterval
  BY Zenon DEF Log!BoxInterval, BoxInterval, Log!Boxes, Boxes, Log!Day, Day
<1>2. Log!RepeatedMistake(item) = RepeatedMistake(item)
  BY Zenon DEF Log!RepeatedMistake, RepeatedMistake
<1>3. Log!HasDelayedRecallDue(item, a.createdAt) = HasDelayedRecallDue(item, a.createdAt)
  BY <1>1, SMT DEF Log!HasDelayedRecallDue, HasDelayedRecallDue, Log!NoTime, NoTime
<1>4. Log!ShouldImprove(item, a) = ShouldImprove(item, a)
  BY Zenon DEF Log!ShouldImprove, ShouldImprove,
     Log!ShouldAdvanceFromCorrect, ShouldAdvanceFromCorrect,
     Log!ShouldAllowSmallImprovement, ShouldAllowSmallImprovement
<1>5. Log!BoxAfter(item, a) = BoxAfter(item, a)
  BY <1>2, <1>3, <1>4, Zenon DEF Log!BoxAfter, BoxAfter, Log!ClampBox, ClampBox
<1>6. Log!WeakScoreAfter(item, a) = WeakScoreAfter(item, a)
  BY Zenon DEF Log!WeakScoreAfter, WeakScoreAfter, Log!ClampWeakScore,
     ClampWeakScore, Log!WrongIncrease, WrongIncrease, Log!CorrectDecrease, CorrectDecrease,
     Log!RepeatedMistake, RepeatedMistake
<1>7. ASSUME NEW box PROVE Log!NextDueAt(box, a.createdAt, a.result) =
                             NextDueAt(box, a.createdAt, a.result)
  BY <1>1, SMT DEF Log!NextDueAt, NextDueAt, Log!BoxZeroDue, BoxZeroDue
<1>8. ASSUME NEW next PROVE Log!MasteryLabel(next) = MasteryLabel(next)
  BY Zenon DEF Log!MasteryLabel, MasteryLabel, Log!ReviewCount, ReviewCount,
     Log!WeakEvidence, WeakEvidence
<1> DEFINE Advanced(box, due, score) ==
             [item EXCEPT !.box = box,
                          !.correct = @ + (IF a.result = "correct" THEN 1 ELSE 0),
                          !.wrong = @ + (IF a.result = "wrong" THEN 1 ELSE 0),
                          !.streakCorrect = IF a.result = "correct" THEN @ + 1 ELSE 0,
                          !.lastReviewedAt = a.createdAt,
                          !.nextDueAt = due,
                          !.weakScore = score]
           Labelled(next, label) == [next EXCEPT !.mastery = label]
           here  == BoxAfter(item, a)
           there == Log!BoxAfter(item, a)
           mine  == Advanced(here, NextDueAt(here, a.createdAt, a.result),
                             WeakScoreAfter(item, a))
           logs  == Advanced(there, Log!NextDueAt(there, a.createdAt, a.result),
                             Log!WeakScoreAfter(item, a))
<1>9. /\ ItemAfter(item, a) = Labelled(mine, MasteryLabel(mine))
      /\ Log!ItemAfter(item, a) = Labelled(logs, Log!MasteryLabel(logs))
  BY Zenon DEF ItemAfter, Log!ItemAfter, One, Log!One
<1> HIDE DEF Advanced, Labelled
<1>10. mine = logs
  BY <1>5, <1>6, <1>7
<1> HIDE DEF mine, logs
<1> QED BY <1>8, <1>9, <1>10

LEMMA SameEngine ==
  /\ \A at : Log!DateOf(at) = DateOf(at) /\ Log!NewItem(at) = NewItem(at)
  /\ Log!EmptyDailyStats = EmptyDailyStats
  /\ \A stats, item, next, a, count :
       Log!DailyStatsAfter(stats, item, next, a, count) =
         DailyStatsAfter(stats, item, next, a, count)
  /\ \A events, sessionId, date :
       Log!HasSessionEventForDate(events, sessionId, date) =
         HasSessionEventForDate(events, sessionId, date)
<1>1. \A at : Log!DateOf(at) = DateOf(at) /\ Log!NewItem(at) = NewItem(at)
  BY Zenon DEF Log!DateOf, DateOf, Log!Day, Day, Log!NewItem, NewItem, Log!NoTime, NoTime
<1>2. Log!EmptyDailyStats = EmptyDailyStats
  BY Zenon DEF Log!EmptyDailyStats, EmptyDailyStats
<1>3. ASSUME NEW stats, NEW item, NEW next, NEW a, NEW count
      PROVE  Log!DailyStatsAfter(stats, item, next, a, count) =
               DailyStatsAfter(stats, item, next, a, count)
  BY Zenon DEF Log!DailyStatsAfter, DailyStatsAfter, Log!One, One
<1>4. ASSUME NEW events, NEW sessionId, NEW date
      PROVE  Log!HasSessionEventForDate(events, sessionId, date) =
               HasSessionEventForDate(events, sessionId, date)
  BY Zenon DEF Log!HasSessionEventForDate, HasSessionEventForDate, Log!DateOf, DateOf,
               Log!Day, Day
<1> QED BY <1>1, <1>2, <1>3, <1>4, Zenon

LEMMA SameStoresAfter ==
  ASSUME NEW s, NEW a PROVE Log!StoresAfter(s, a) = StoresAfter(s, a)
BY SameItemAfter, SameEngine DEF Log!StoresAfter, StoresAfter

LEMMA SameReplaysCleanly ==
  ASSUME NEW s, NEW a PROVE Log!ReplaysCleanly(s, a) = ReplaysCleanly(s, a)
BY DEF Log!ReplaysCleanly, ReplaysCleanly, Log!EventsWithId, EventsWithId,
       Log!DateOf, DateOf, Log!Day, Day

LEMMA SameSavedState ==
  ASSUME NEW s, NEW w, NEW at PROVE Log!SavedState(s, w, at) = SavedState(s, w, at)
BY DEF Log!SavedState, SavedState, Log!NewItem, NewItem, Log!NoTime, NoTime

LEMMA SameNames ==
  /\ Log!Keys = Keys /\ Log!EmptyStores = EmptyStores
  /\ \A events : Log!EventIds(events) = EventIds(events)
BY DEF Log!EmptyStores, EmptyStores, Log!Keys, Keys, Log!Dates, Dates,
       Log!DateOf, DateOf, Log!Day, Day, Log!EventIds, EventIds

\* A call that writes or rolls back is about an answer that is new to its
\* snapshot, with every store readable.
LEMMA WritingIsNew ==
  ASSUME NEW t, Tabs = {t}, TypeOK, NoneOverlooked, MirrorInv,
         tab[t].pc \in {"write", "restore"}
  PROVE  /\ Commit(t) \in Answers /\ Log!IsNew(Commit(t))
         /\ tab[t].next = StoresAfter(tab[t].snapshot, Commit(t))
         /\ tab[t].snapshot \in Stores /\ tab[t].next \in Stores
         /\ malformed = {} /\ CommittedStores = tab[t].snapshot
<1>1. /\ t \in Tabs /\ CallMirrors(t) /\ malformed = {} /\ Commit(t) \in Answers
      /\ tab[t].snapshot \in Stores /\ tab[t].next \in Stores
  BY DEF TypeOK, Typed, TabRecord, CallHasAnswer, NoneOverlooked, MalformedSeen,
         MirrorInv
<1>2. CommittedStores = tab[t].snapshot
  BY CommittedIs
<1>3. /\ tab[t].next = StoresAfter(tab[t].snapshot, Commit(t))
      /\ Commit(t).eventId \notin EventIds(tab[t].snapshot.reviewEvents)
  BY <1>1 DEF CallMirrors
<1> QED BY <1>1, <1>2, <1>3, SameNames DEF Log!IsNew

\* The keys of the store are, one by one, of the snapshot or of what was
\* computed from it.
LEMMA TornStore ==
  ASSUME NEW t, Tabs = {t}, TypeOK, NoneOverlooked, MirrorInv,
         tab[t].pc \in {"write", "restore"}
  PROVE  \A i \in 1..3 : \/ store[CommitKeys[i]] = tab[t].snapshot[CommitKeys[i]]
                         \/ store[CommitKeys[i]] = tab[t].next[CommitKeys[i]]
<1>1. CallMirrors(t)
  BY DEF MirrorInv
<1>2. tab[t].pc = "write" \/ tab[t].pc = "restore"
  OBVIOUS
<1> QED BY <1>1, <1>2 DEF CallMirrors

LEMMA TornCommit ==
  ASSUME NEW t, Tabs = {t}, TypeOK, NoneOverlooked, MirrorInv, TypeOK',
         tab[t].pc \in {"write", "restore"}, CommittedStores' = store',
         \A i \in 1..3 : \/ store'[CommitKeys[i]] = tab[t].snapshot[CommitKeys[i]]
                         \/ store'[CommitKeys[i]] = tab[t].next[CommitKeys[i]]
  PROVE  Log!Torn(Commit(t)) /\ DOMAIN CommittedStores' = Log!Keys
<1>1. /\ tab[t].next = Log!StoresAfter(CommittedStores, Commit(t))
      /\ tab[t].snapshot = CommittedStores
  BY WritingIsNew, SameStoresAfter
<1>2. DOMAIN store' = Keys
  BY DEF TypeOK, Typed, Stores, Keys
<1>3. \A k \in Keys : store'[k] \in {tab[t].snapshot[k], tab[t].next[k]}
  BY CommitKeysAreKeys
<1> QED BY <1>1, <1>2, <1>3, SameNames DEF Log!Torn

LogSteps == Log!LogNext \/ LogStutters

LEMMA ReplayStep ==
  ASSUME NEW t, Tabs = {t}, TypeOK, NoneOverlooked, MirrorInv, ReturnDuplicate(t)
  PROVE  LogSteps
<1>1. /\ t \in Tabs /\ tab[t].pc = "decide" /\ tab[t].snapshot = store
      /\ malformed = {} /\ Commit(t) \in Answers /\ tab'[t].pc = "idle"
      /\ UNCHANGED <<store, malformed, fatal, crashes>>
      /\ acked' = acked \cup {Commit(t)} /\ ReplaysCleanly(store, Commit(t))
  BY DEF TypeOK, Typed, CallHasAnswer, ReturnDuplicate, IsDuplicate, Return, IdleTab,
         NoneOverlooked, MalformedSeen, MirrorInv, CallMirrors
<1>2. CommittedStores = store /\ CommittedStores' = store
  BY <1>1, CommittedIs
<1>3. Log!ReplaysCleanly(CommittedStores, Commit(t))
  BY <1>1, <1>2, SameReplaysCleanly
<1>4. Log!Replay(Commit(t))
  BY <1>1, <1>2, <1>3 DEF Log!Replay
<1> QED BY <1>1, <1>4 DEF LogSteps, Log!LogNext

LEMMA WriteStep ==
  ASSUME NEW t, Tabs = {t}, TypeOK, NoneOverlooked, MirrorInv, TypeOK', WriteKey(t)
  PROVE  LogSteps
<1> DEFINE step == tab[t].step
<1>1. /\ t \in Tabs /\ tab[t].pc = "write" /\ tab \in [Tabs -> TabRecord]
      /\ tab[t] \in TabRecord /\ step \in 1..3 /\ store' \in Stores
      /\ UNCHANGED <<fatal, crashes>>
  BY DEF TypeOK, Typed, WriteKey, TabRecord
<1>2. /\ Commit(t) \in Answers /\ Log!IsNew(Commit(t)) /\ malformed = {}
      /\ tab[t].next = Log!StoresAfter(tab[t].snapshot, Commit(t))
      /\ CommittedStores = tab[t].snapshot /\ tab[t].next \in Stores
  BY <1>1, WritingIsNew, SameStoresAfter
<1>3. malformed' = malformed
  BY <1>2 DEF WriteKey, SetItem
<1>4. CASE step # 3
  <2>1. /\ tab'[t].pc = "write" /\ tab'[t].snapshot = tab[t].snapshot
        /\ acked' = acked
    BY <1>1, <1>4 DEF WriteKey, TabRecord
  <2> QED BY <1>1, <1>2, <1>3, <2>1, CommittedIs DEF LogSteps, LogStutters
<1>5. CASE step = 3
  <2>1. tab'[t].pc = "idle" /\ acked' = acked \cup {Commit(t)}
    BY <1>1, <1>5 DEF WriteKey, Return, IdleTab
  <2>2. store' = [store EXCEPT ![CommitKeys[3]] = tab[t].next[CommitKeys[3]]]
    BY <1>1, <1>5 DEF WriteKey, SetItem, ActiveKey
  <2>3. \A i \in 1..3 : i < 3 => store[CommitKeys[i]] = tab[t].next[CommitKeys[i]]
    BY <1>1, <1>5 DEF MirrorInv, CallMirrors
  <2>4. \A i \in 1..3 : store'[CommitKeys[i]] = tab[t].next[CommitKeys[i]]
    <3>1. store \in Stores /\ \A i \in 1..3 : i < 3 \/ i = 3
      BY DEF TypeOK, Typed
    <3>2. \A i \in 1..3 : store'[CommitKeys[i]] =
            IF i = 3 THEN tab[t].next[CommitKeys[3]] ELSE store[CommitKeys[i]]
      BY <2>2, <3>1, SetOneKey
    <3> QED BY <2>3, <3>1, <3>2
  <2>5. store' = tab[t].next
    BY <1>1, <1>2, <2>4, SameStores
  <2>6. CommittedStores' = Log!StoresAfter(CommittedStores, Commit(t))
    BY <1>2, <2>1, <2>5, CommittedIs
  <2>7. Log!Answer(Commit(t))
    BY <1>1, <1>2, <1>3, <2>1, <2>6 DEF Log!Answer
  <2> QED BY <1>2, <2>7 DEF LogSteps, Log!LogNext
<1> QED BY <1>4, <1>5

LEMMA WriteFailsStep ==
  ASSUME NEW t, Tabs = {t}, TypeOK, WriteFails(t)
  PROVE  LogSteps
<1>1. /\ tab[t].pc = "write" /\ tab'[t].pc = "restore"
      /\ tab'[t].snapshot = tab[t].snapshot
      /\ UNCHANGED <<malformed, acked, fatal, crashes>>
  BY DEF TypeOK, Typed, WriteFails, TabRecord
<1> QED BY <1>1, CommittedIs DEF LogSteps, LogStutters

\* The last step of a rollback: every key is back, or one failed and the page
\* is told so.
LEMMA RestoreStep ==
  ASSUME NEW t, Tabs = {t}, TypeOK, NoneOverlooked, MirrorInv, TypeOK',
         RestoreKey(t) \/ RestoreFails(t)
  PROVE  LogSteps
<1> DEFINE step == tab[t].step
           snapshot == tab[t].snapshot
           k == CommitKeys[step]
<1>1. /\ t \in Tabs /\ tab[t].pc = "restore" /\ tab \in [Tabs -> TabRecord]
      /\ tab[t] \in TabRecord /\ step \in 1..3 /\ store' \in Stores
      /\ store \in Stores /\ ActiveKey(t) = k
      /\ UNCHANGED <<acked, crashes>> /\ fatal \in BOOLEAN
  BY DEF TypeOK, Typed, RestoreKey, RestoreFails, TabRecord, ActiveKey
<1>2. /\ Commit(t) \in Answers /\ Log!IsNew(Commit(t)) /\ malformed = {}
      /\ CommittedStores = snapshot /\ snapshot \in Stores
  BY <1>1, WritingIsNew
<1>3. malformed' = malformed
  BY <1>2 DEF RestoreKey, RestoreFails, SetItem
<1>4. PICK failed :
        /\ RestoreNext(t, failed)
        /\ \/ /\ failed = tab[t].failedKeys
              /\ store' = [store EXCEPT ![k] = snapshot[k]]
           \/ failed # {} /\ store' = store
  BY <1>1 DEF RestoreKey, RestoreFails, SetItem
<1>5. CASE step # 3
  <2>0. /\ tab' = [tab EXCEPT ![t] = [tab[t] EXCEPT !.step = tab[t].step + 1,
                                                    !.failedKeys = failed]]
        /\ fatal' = fatal
    BY <1>4, <1>5 DEF RestoreNext
  <2>1. /\ tab'[t].pc = "restore" /\ tab'[t].snapshot = snapshot
        /\ fatal' = fatal
    BY <1>1, <2>0 DEF TabRecord
  <2> QED BY <1>1, <1>2, <1>3, <2>1, CommittedIs DEF LogSteps, LogStutters
<1>6. CASE step = 3
  <2>1. tab'[t].pc = "idle" /\ fatal' = (fatal \/ failed # {})
    BY <1>1, <1>4, <1>6 DEF RestoreNext, Return, IdleTab
  <2>2. CommittedStores' = store'
    BY <2>1, CommittedIs
  <2>3. \A i \in 1..3 : store'[CommitKeys[i]] = store[CommitKeys[i]]
                        \/ store'[CommitKeys[i]] = snapshot[CommitKeys[i]]
    BY <1>1, <1>4, SetOneKey
  <2>4. CASE failed = {}
    <3>1. /\ tab[t].failedKeys = {}
          /\ store' = [store EXCEPT ![CommitKeys[3]] = snapshot[CommitKeys[3]]]
      BY <1>4, <1>6, <2>4
    <3>2. \A i \in 1..3 : i < 3 => store[CommitKeys[i]] = snapshot[CommitKeys[i]]
      BY <1>1, <1>6, <3>1 DEF MirrorInv, CallMirrors
    <3>3. \A i \in 1..3 : store'[CommitKeys[i]] = snapshot[CommitKeys[i]]
      <4>1. \A i \in 1..3 : i < 3 \/ i = 3
        OBVIOUS
      <4>2. \A i \in 1..3 : store'[CommitKeys[i]] =
              IF i = 3 THEN snapshot[CommitKeys[3]] ELSE store[CommitKeys[i]]
        BY <1>1, <3>1, SetOneKey
      <4> QED BY <3>2, <4>1, <4>2
    <3>4. store' = snapshot
      BY <1>1, <1>2, <3>3, SameStores
    <3>5. fatal' = fatal
      BY <1>1, <2>1, <2>4
    <3> QED BY <1>1, <1>2, <1>3, <2>2, <3>4, <3>5 DEF LogSteps, LogStutters
  <2>5. CASE failed # {}
    <3>1. \A i \in 1..3 : \/ store'[CommitKeys[i]] = snapshot[CommitKeys[i]]
                          \/ store'[CommitKeys[i]] = tab[t].next[CommitKeys[i]]
      BY <1>1, <2>3, TornStore
    <3>2. Log!Torn(Commit(t)) /\ DOMAIN CommittedStores' = Log!Keys
      BY <1>1, <2>2, <3>1, TornCommit
    <3>3. fatal' = TRUE
      BY <2>1, <2>5
    <3>4. Log!FatalError(Commit(t))
      BY <1>1, <1>2, <1>3, <3>2, <3>3 DEF Log!FatalError
    <3> QED BY <1>2, <3>4 DEF LogSteps, Log!LogNext
  <2> QED BY <2>4, <2>5
<1> QED BY <1>5, <1>6

LEMMA SaveStep ==
  ASSUME NEW t, Tabs = {t}, TypeOK, MirrorInv, FinishSave(t)
  PROVE  LogSteps
<1>1. /\ t \in Tabs /\ tab[t].pc = "save" /\ tab'[t].pc = "idle"
      /\ store' = [store EXCEPT !.reviewState = tab[t].next.reviewState]
      /\ malformed' = malformed \ {"reviewState"}
      /\ UNCHANGED <<acked, fatal, crashes>>
  BY DEF TypeOK, Typed, FinishSave, SetItem, Return, IdleTab
<1>2. PICK w \in Words, at \in SaveTimes :
        tab[t].next.reviewState = SavedState(store.reviewState, w, at)
  BY <1>1 DEF MirrorInv, CallMirrors
<1>3. CommittedStores = store /\ CommittedStores' = store'
  BY <1>1, CommittedIs
<1>4. CommittedStores' = [CommittedStores EXCEPT !.reviewState =
                            Log!SavedState(CommittedStores.reviewState, w, at)]
  BY <1>1, <1>2, <1>3, SameSavedState
<1>5. Log!Save(w, at)
  BY <1>1, <1>4 DEF Log!Save
<1> QED BY <1>5 DEF LogSteps, Log!LogNext

\* A tab that dies leaves what it had written.
LEMMA DieStep ==
  ASSUME NEW t, Tabs = {t}, TypeOK, NoneOverlooked, MirrorInv, TypeOK', Crash(t)
  PROVE  LogSteps
<1>1. /\ tab'[t].pc = "idle" /\ crashes' = crashes + 1
      /\ UNCHANGED <<store, malformed, acked, fatal>>
  BY DEF TypeOK, Typed, Crash, Return, IdleTab
<1>2. CommittedStores' = store'
  BY <1>1, CommittedIs
<1>3. CASE tab[t].pc \in {"write", "restore"}
  <2>1. Log!Torn(Commit(t)) /\ DOMAIN CommittedStores' = Log!Keys
    BY <1>1, <1>2, <1>3, TornStore, TornCommit
  <2>2. Commit(t) \in Answers /\ Log!IsNew(Commit(t))
    BY <1>3, WritingIsNew
  <2>3. Log!Die
    BY <1>1, <2>1, <2>2 DEF Log!Die
  <2> QED BY <2>3 DEF LogSteps, Log!LogNext
<1>4. CASE tab[t].pc \notin {"write", "restore"}
  <2>1. UNCHANGED CommittedStores
    BY <1>1, <1>2, <1>4, CommittedIs
  <2>2. Log!Die
    BY <1>1, <2>1 DEF Log!Die
  <2> QED BY <2>2 DEF LogSteps, Log!LogNext
<1> QED BY <1>3, <1>4

LEMMA EveryStepIsLogged ==
  ASSUME NEW t, Tabs = {t}, TypeOK, NoneOverlooked, MirrorInv, TypeOK', [Next]_vars
  PROVE  LogSteps
<1>1. CASE UNCHANGED vars
  BY <1>1, CommittedIs DEF vars, LogSteps, LogStutters
<1>2. CASE ApplyReviewAnswer(t)
  BY <1>2, QuietStep, ReplayStep, WriteStep, WriteFailsStep, RestoreStep
  DEF ApplyReviewAnswer, LogSteps
<1>3. CASE SaveWord(t)
  BY <1>3, QuietStep, SaveStep DEF SaveWord, LogSteps
<1>4. CASE Crash(t)
  BY <1>4, DieStep
<1> QED BY <1>1, <1>2, <1>3, <1>4 DEF Next

\* With one tab, whatever fails and whenever the tab dies, the three writes of
\* a commit and its rollback are one step: all stores, none, or a mixture that
\* was reported or that a dead tab left.
THEOREM CommitIsAtomic ==
  ASSUME NEW t, Tabs = {t} PROVE Spec => AtomicCommit
<1>1. Init => Log!LogInit
  <2> SUFFICES ASSUME Init PROVE Log!LogInit
    OBVIOUS
  <2>1. tab[t].pc = "idle"
    BY DEF Init, IdleTab
  <2>2. CommittedStores = EmptyStores
    BY <2>1, CommittedIs DEF Init
  <2> QED BY <2>2, SameNames DEF Init, Log!LogInit
<1>2. TypeOK /\ NoneOverlooked /\ MirrorInv /\ TypeOK' /\ [Next]_vars
        => [Log!LogNext]_(Log!logVars)
  BY EveryStepIsLogged DEF LogSteps, LogStutters, Log!logVars
<1>3. Spec => []MirrorInv
  BY MirrorsAlways
<1> QED BY <1>1, <1>2, <1>3, TypeCorrect, NoneOverlookedAlways, PTL
        DEF Spec, AtomicCommit, Log!LogSpec

-----------------------------------------------------------------------------
(* One tab: an answer reported as saved keeps its event *)

Logged(events, a) == \E i \in DOMAIN events : events[i].answer = a

\* The promise, of the committed stores: the stores themselves may be between.
AckedCommitted == \A a \in acked : Logged(CommittedStores.reviewEvents, a)

\* One more answer leaves those in the log, and joins them.
LEMMA LogGrows ==
  ASSUME NEW stores \in Stores, NEW a \in Answers
  PROVE  /\ Logged(StoresAfter(stores, a).reviewEvents, a)
         /\ \A b : Logged(stores.reviewEvents, b) =>
                     Logged(StoresAfter(stores, a).reviewEvents, b)
<1> DEFINE events == stores.reviewEvents
<1>1. PICK event \in Event :
        /\ event.answer = a
        /\ StoresAfter(stores, a).reviewEvents = Append(events, event)
  BY StoresAfterType
<1>2. events \in Seq(Event)
  BY DEF Stores
<1> HIDE DEF events
<1>3. /\ DOMAIN Append(events, event) = 1..(Len(events) + 1)
      /\ Append(events, event)[Len(events) + 1] = event
      /\ DOMAIN events = 1..Len(events) /\ Len(events) \in Nat
      /\ \A i \in 1..Len(events) : Append(events, event)[i] = events[i]
  BY <1>2
<1>4. Logged(Append(events, event), a)
  <2>1. Len(events) + 1 \in DOMAIN Append(events, event)
    BY <1>3
  <2> QED BY <1>1, <1>3, <2>1 DEF Logged
<1>5. ASSUME NEW b, Logged(events, b) PROVE Logged(Append(events, event), b)
  <2>1. PICK i \in DOMAIN events : events[i].answer = b
    BY <1>5 DEF Logged
  <2>2. i \in DOMAIN Append(events, event) /\ Append(events, event)[i] = events[i]
    BY <1>3, <2>1
  <2> QED BY <2>1, <2>2 DEF Logged
<1> QED BY <1>1, <1>4, <1>5 DEF events

LEMMA CommittedType ==
  ASSUME NEW t, Tabs = {t}, TypeOK PROVE CommittedStores \in Stores
BY CommittedIs DEF TypeOK, Typed, TabRecord

\* No step of the log loses an answer, a fatal error or a dying tab included.
LEMMA LogKeepsAnswers ==
  ASSUME NEW t, Tabs = {t}, TypeOK, AckedCommitted, LogSteps
  PROVE  AckedCommitted'
<1> DEFINE stores == CommittedStores
<1>1. stores \in Stores
  BY CommittedType
<1>2. CASE LogStutters
  BY <1>2 DEF LogStutters, AckedCommitted
<1>3. ASSUME NEW a \in Answers, Log!Answer(a) PROVE AckedCommitted'
  <2>1. stores' = StoresAfter(stores, a) /\ acked' = acked \cup {a}
    BY <1>3, SameStoresAfter DEF Log!Answer
  <2> QED BY <1>1, <2>1, LogGrows DEF AckedCommitted
<1>4. ASSUME NEW a \in Answers, Log!Replay(a) PROVE AckedCommitted'
  <2>1. /\ stores' = stores /\ acked' = acked \cup {a}
        /\ ReplaysCleanly(stores, a)
    BY <1>4, SameReplaysCleanly DEF Log!Replay
  <2>2. Logged(stores.reviewEvents, a)
    BY <2>1 DEF ReplaysCleanly, EventsWithId, Logged
  <2> QED BY <2>1, <2>2 DEF AckedCommitted
<1>5. ASSUME NEW a \in Answers, Log!Torn(a), acked' = acked PROVE AckedCommitted'
  <2>1. stores'.reviewEvents \in {stores.reviewEvents, StoresAfter(stores, a).reviewEvents}
    BY <1>5, SameNames, SameStoresAfter DEF Log!Torn, Keys
  <2> QED BY <1>1, <1>5, <2>1, LogGrows DEF AckedCommitted
<1>6. ASSUME NEW w, NEW at, Log!Save(w, at) PROVE AckedCommitted'
  <2>1. stores'.reviewEvents = stores.reviewEvents /\ acked' = acked
    BY <1>1, <1>6 DEF Log!Save, Stores
  <2> QED BY <2>1 DEF AckedCommitted
<1>7. ASSUME NEW a \in Answers, Log!FatalError(a) PROVE AckedCommitted'
  BY <1>5, <1>7 DEF Log!FatalError
<1>8. CASE Log!Die
  BY <1>5, <1>8 DEF Log!Die, AckedCommitted
<1> QED BY <1>2, <1>3, <1>4, <1>6, <1>7, <1>8 DEF LogSteps, Log!LogNext

\* With one tab, no failed commit, rollback, fatal error or dying tab takes
\* away the event of an answer that was reported as saved.
THEOREM SavedAnswersStay ==
  ASSUME NEW t, Tabs = {t} PROVE Spec => []AckedStay
<1>1. Init => AckedCommitted
  BY DEF Init, AckedCommitted
<1>2. TypeOK /\ NoneOverlooked /\ MirrorInv /\ TypeOK' /\ AckedCommitted /\ [Next]_vars
        => AckedCommitted'
  BY EveryStepIsLogged, LogKeepsAnswers
<1>3. TypeOK /\ NoneOverlooked /\ MirrorInv /\ AckedCommitted => AckedStay
  <2> SUFFICES ASSUME TypeOK, NoneOverlooked, MirrorInv, NEW a,
                      Logged(CommittedStores.reviewEvents, a)
               PROVE  Logged(store.reviewEvents, a)
    BY DEF AckedCommitted, AckedStay, Logged
  <2>1. CASE tab[t].pc \in {"write", "restore"}
    <3>1. store.reviewEvents \in {tab[t].snapshot.reviewEvents, tab[t].next.reviewEvents}
      BY <2>1, TornStore DEF CommitKeys
    <3>2. /\ CommittedStores = tab[t].snapshot /\ tab[t].snapshot \in Stores
          /\ tab[t].next = StoresAfter(tab[t].snapshot, Commit(t))
          /\ Commit(t) \in Answers
      BY <2>1, WritingIsNew
    <3> QED BY <3>1, <3>2, LogGrows
  <2>2. CASE tab[t].pc \notin {"write", "restore"}
    BY <2>2, CommittedIs
  <2> QED BY <2>1, <2>2
<1>4. Spec => []MirrorInv
  BY MirrorsAlways
<1> QED BY <1>1, <1>2, <1>3, <1>4, TypeCorrect, NoneOverlookedAlways, PTL DEF Spec

-----------------------------------------------------------------------------
(* One tab: the three stores tell one story *)

\* The definitions of ReviewStorage, of any three stores.
EventsIn(events, w, result) ==
  {i \in DOMAIN events :
     events[i].answer.slug = w /\ events[i].answer.result = result}
Mine(events, w) == EventsIn(events, w, "correct") \cup EventsIn(events, w, "wrong")
EventsOnDay(events, d) ==
  {i \in DOMAIN events : DateOf(events[i].answer.createdAt) = d}
SessionsOn(events, d) ==
  {events[i].answer.sessionId : i \in EventsOnDay(events, d)}

WordAgrees(item, event, w) ==
  LET mine == Mine(event, w) IN
  /\ item = NoItem => mine = {}
  /\ item # NoItem =>
       /\ item.correct = Cardinality(EventsIn(event, w, "correct"))
       /\ item.wrong = Cardinality(EventsIn(event, w, "wrong"))
  /\ \A i \in mine :
       (\A j \in mine : j <= i) =>
         /\ event[i].boxAfter = item.box
         /\ event[i].weakScoreAfter = item.weakScore
  /\ \A i, j \in mine :
       (i < j /\ \A k \in mine : k <= i \/ j <= k) =>
         /\ event[j].boxBefore = event[i].boxAfter
         /\ event[j].weakScoreBefore = event[i].weakScoreAfter

DayAgrees(stats, events, d) ==
  IF stats = NoStats THEN EventsOnDay(events, d) = {}
  ELSE /\ stats.reviewed = Cardinality(EventsOnDay(events, d))
       /\ stats.sessions = Cardinality(SessionsOn(events, d))

Agree(s) ==
  /\ \A w \in Words : WordAgrees(s.reviewState[w], s.reviewEvents, w)
  /\ \A d \in Dates : DayAgrees(s.dailyStats[d], s.reviewEvents, d)

LEMMA AgreeIsStoresAgree ==
  StoresAgree <=> (Quiet /\ ~fatal /\ crashes = 0 => Agree(store))
BY DEF StoresAgree, Agree, WordAgrees, DayAgrees, StateAgreesWithEvents,
       StatsAgreeWithEvents, Mine, EventsIn, EventsOf, EventsOn, EventsOnDay,
       SessionsOn

\* Appending leaves the events that were there, and adds the last.
LEMMA Appended ==
  ASSUME NEW events \in Seq(Event), NEW event
  PROVE  LET n == Len(events) + 1
             longer == Append(events, event) IN
         /\ DOMAIN longer = DOMAIN events \cup {n} /\ longer[n] = event
         /\ \A i \in DOMAIN events : longer[i] = events[i] /\ i \in Nat /\ i < n
         /\ n \in Nat /\ n \notin DOMAIN events /\ IsFiniteSet(DOMAIN events)
<1>1. DOMAIN events = 1..Len(events) /\ Len(events) \in Nat
  OBVIOUS
<1>2. IsFiniteSet(DOMAIN events)
  BY <1>1, FS_Interval
<1> QED BY <1>1, <1>2

\* What joins a finite set, or does not, adds one to it when it is new.
LEMMA OneMore ==
  ASSUME NEW S, IsFiniteSet(S), NEW n, NEW cond
  PROVE  Cardinality(S \cup (IF cond THEN {n} ELSE {})) =
           Cardinality(S) + One(cond /\ n \notin S)
<1>1. Cardinality(S) \in Nat
  BY FS_CardinalityType
<1>2. CASE cond /\ n \notin S
  BY <1>1, <1>2, FS_AddElement DEF One
<1>3. CASE ~(cond /\ n \notin S)
  <2>1. S \cup (IF cond THEN {n} ELSE {}) = S
    BY <1>3
  <2> QED BY <1>1, <1>3, <2>1 DEF One
<1> QED BY <1>2, <1>3

LEMMA EventsInGrow ==
  ASSUME NEW events \in Seq(Event), NEW event, NEW w, NEW result
  PROVE  LET n == Len(events) + 1
             longer == Append(events, event)
             joins == event.answer.slug = w /\ event.answer.result = result IN
         /\ EventsIn(longer, w, result) =
              EventsIn(events, w, result) \cup (IF joins THEN {n} ELSE {})
         /\ Cardinality(EventsIn(longer, w, result)) =
              Cardinality(EventsIn(events, w, result)) + One(joins)
         /\ IsFiniteSet(EventsIn(events, w, result))
<1> DEFINE n == Len(events) + 1
           longer == Append(events, event)
<1>1. /\ DOMAIN longer = DOMAIN events \cup {n} /\ longer[n] = event
      /\ \A i \in DOMAIN events : longer[i] = events[i]
      /\ n \notin DOMAIN events /\ IsFiniteSet(DOMAIN events)
  BY Appended
<1> HIDE DEF n, longer
<1>2. EventsIn(longer, w, result) = EventsIn(events, w, result) \cup
        (IF event.answer.slug = w /\ event.answer.result = result THEN {n} ELSE {})
  BY <1>1 DEF EventsIn
<1>3. IsFiniteSet(EventsIn(events, w, result)) /\ n \notin EventsIn(events, w, result)
  BY <1>1, FS_Subset DEF EventsIn
<1>4. Cardinality(EventsIn(longer, w, result)) =
        Cardinality(EventsIn(events, w, result)) +
          One(event.answer.slug = w /\ event.answer.result = result)
  BY <1>2, <1>3, OneMore DEF One
<1> QED BY <1>2, <1>3, <1>4 DEF n, longer

LEMMA EventsOnDayGrow ==
  ASSUME NEW events \in Seq(Event), NEW event, NEW d
  PROVE  LET n == Len(events) + 1
             longer == Append(events, event)
             joins == DateOf(event.answer.createdAt) = d IN
         /\ EventsOnDay(longer, d) =
              EventsOnDay(events, d) \cup (IF joins THEN {n} ELSE {})
         /\ Cardinality(EventsOnDay(longer, d)) =
              Cardinality(EventsOnDay(events, d)) + One(joins)
         /\ IsFiniteSet(EventsOnDay(events, d))
<1> DEFINE n == Len(events) + 1
           longer == Append(events, event)
<1>1. /\ DOMAIN longer = DOMAIN events \cup {n} /\ longer[n] = event
      /\ \A i \in DOMAIN events : longer[i] = events[i]
      /\ n \notin DOMAIN events /\ IsFiniteSet(DOMAIN events)
  BY Appended
<1> HIDE DEF n, longer
<1>2. EventsOnDay(longer, d) = EventsOnDay(events, d) \cup
        (IF DateOf(event.answer.createdAt) = d THEN {n} ELSE {})
  BY <1>1 DEF EventsOnDay
<1>3. EventsOnDay(events, d) \subseteq DOMAIN events
  BY DEF EventsOnDay
<1>4. IsFiniteSet(EventsOnDay(events, d)) /\ n \notin EventsOnDay(events, d)
  BY <1>1, <1>3, FS_Subset
<1>5. Cardinality(EventsOnDay(longer, d)) =
        Cardinality(EventsOnDay(events, d)) + One(DateOf(event.answer.createdAt) = d)
  BY <1>2, <1>4, OneMore DEF One
<1> QED BY <1>2, <1>4, <1>5 DEF n, longer

LEMMA SessionsFinite ==
  ASSUME NEW events, NEW d, IsFiniteSet(EventsOnDay(events, d))
  PROVE  IsFiniteSet(SessionsOn(events, d)) /\ Cardinality(SessionsOn(events, d)) \in Nat
<1> DEFINE session == [i \in EventsOnDay(events, d) |-> events[i].answer.sessionId]
<1>1. session \in Surjection(EventsOnDay(events, d), SessionsOn(events, d))
  BY DEF Surjection, SessionsOn
<1> QED BY <1>1, FS_Surjection, FS_CardinalityType

\* A session is counted with its first event of the day.
LEMMA SessionsGrow ==
  ASSUME NEW events \in Seq(Event), NEW event, NEW d
  PROVE  LET a == event.answer IN
         Cardinality(SessionsOn(Append(events, event), d)) =
           Cardinality(SessionsOn(events, d)) +
             One(DateOf(a.createdAt) = d /\
                   ~HasSessionEventForDate(events, a.sessionId, d))
<1> DEFINE n == Len(events) + 1
           longer == Append(events, event)
           a == event.answer
<1>1. /\ longer[n] = event
      /\ \A i \in DOMAIN events : longer[i] = events[i]
  BY Appended
<1>2. /\ EventsOnDay(longer, d) = EventsOnDay(events, d) \cup
           (IF DateOf(a.createdAt) = d THEN {n} ELSE {})
      /\ IsFiniteSet(EventsOnDay(events, d))
  BY EventsOnDayGrow
<1>3. EventsOnDay(events, d) \subseteq DOMAIN events
  BY DEF EventsOnDay
<1> HIDE DEF longer, n
<1>4. SessionsOn(longer, d) = SessionsOn(events, d) \cup
        (IF DateOf(a.createdAt) = d THEN {a.sessionId} ELSE {})
  BY <1>1, <1>2, <1>3 DEF SessionsOn
<1>5. IsFiniteSet(SessionsOn(events, d)) /\ Cardinality(SessionsOn(events, d)) \in Nat
  BY <1>2, SessionsFinite
<1>6. a.sessionId \in SessionsOn(events, d) <=>
        HasSessionEventForDate(events, a.sessionId, d)
  BY DEF SessionsOn, HasSessionEventForDate, EventsOnDay
<1>7. Cardinality(SessionsOn(longer, d)) =
        Cardinality(SessionsOn(events, d)) +
          One(DateOf(a.createdAt) = d /\ a.sessionId \notin SessionsOn(events, d))
  BY <1>4, <1>5, OneMore
<1> QED BY <1>6, <1>7 DEF longer, One

\* The answer a makes stores s into another three: the event of it, the item
\* and the statistics before, and the item and the statistics after.
Tells(s, a, event, item, next, stats, counted) ==
  LET known == s.reviewState[a.slug]
      kept  == s.dailyStats[DateOf(a.createdAt)] IN
  /\ event.answer = a
  /\ event.boxBefore = item.box /\ event.boxAfter = next.box
  /\ event.weakScoreBefore = item.weakScore
  /\ event.weakScoreAfter = next.weakScore
  /\ known # NoItem => item = known
  /\ known = NoItem => item.correct = 0 /\ item.wrong = 0
  /\ next.correct = item.correct + One(a.result = "correct")
  /\ next.wrong = item.wrong + One(a.result = "wrong")
  /\ kept # NoStats => stats = kept
  /\ kept = NoStats => stats.reviewed = 0 /\ stats.sessions = 0
  /\ counted.reviewed = stats.reviewed + 1
  /\ counted.sessions = stats.sessions +
       One(~HasSessionEventForDate(s.reviewEvents, a.sessionId, DateOf(a.createdAt)))
  /\ StoresAfter(s, a) =
       [reviewState  |-> [s.reviewState EXCEPT ![a.slug] = next],
        reviewEvents |-> Append(s.reviewEvents, event),
        dailyStats   |-> [s.dailyStats EXCEPT ![DateOf(a.createdAt)] = counted]]

LEMMA AnswerTells ==
  ASSUME NEW s \in Stores, NEW a \in Answers
  PROVE  \E event \in Event, item \in Item, next \in Item,
            stats \in DailyStats, counted \in DailyStats :
           Tells(s, a, event, item, next, stats, counted)
<1> DEFINE date  == DateOf(a.createdAt)
           item  == IF s.reviewState[a.slug] = NoItem
                    THEN NewItem(a.createdAt) ELSE s.reviewState[a.slug]
           next  == ItemAfter(item, a)
           stats == IF s.dailyStats[date] = NoStats
                    THEN EmptyDailyStats ELSE s.dailyStats[date]
           event == [answer |-> a, boxBefore |-> item.box, boxAfter |-> next.box,
                     weakScoreBefore |-> item.weakScore,
                     weakScoreAfter |-> next.weakScore]
           count == ~HasSessionEventForDate(s.reviewEvents, a.sessionId, date)
           counted == DailyStatsAfter(stats, item, next, a, count)
<1>1. EngineAnswer(a) /\ a.slug \in Words /\ date \in Dates /\ a.createdAt \in Nat
  BY AnswersAssumption DEF Dates, EngineAnswer
<1>2. /\ item \in Item
      /\ s.reviewState[a.slug] # NoItem => item = s.reviewState[a.slug]
      /\ s.reviewState[a.slug] = NoItem => item.correct = 0 /\ item.wrong = 0
  <2>1. NewItem(a.createdAt) \in Item
    BY <1>1, NewItemType
  <2>2. NewItem(a.createdAt).correct = 0 /\ NewItem(a.createdAt).wrong = 0
    BY DEF NewItem
  <2> QED BY <1>1, <2>1, <2>2 DEF Stores
<1>3. next \in Item
  BY <1>1, <1>2, ItemAfterType
<1>4. /\ next.correct = item.correct + One(a.result = "correct")
      /\ next.wrong = item.wrong + One(a.result = "wrong")
  <2> HIDE DEF item
  <2> QED BY <1>1, <1>2, ItemAfterFields
<1>5. /\ stats \in DailyStats
      /\ s.dailyStats[date] # NoStats => stats = s.dailyStats[date]
      /\ s.dailyStats[date] = NoStats => stats.reviewed = 0 /\ stats.sessions = 0
  BY <1>1 DEF Stores, EmptyDailyStats, DailyStats
<1>6. count \in BOOLEAN
  BY DEF HasSessionEventForDate
<1>7. /\ counted \in DailyStats /\ counted.reviewed = stats.reviewed + 1
      /\ counted.sessions = stats.sessions + One(count)
  <2> HIDE DEF stats, item, next, count
  <2> QED BY <1>5, <1>6, DailyStatsAfterType, DailyStatsAfterFields
<1>8. /\ event \in Event /\ event.answer = a
      /\ event.boxBefore = item.box /\ event.boxAfter = next.box
      /\ event.weakScoreBefore = item.weakScore
      /\ event.weakScoreAfter = next.weakScore
  <2> HIDE DEF item, next
  <2> QED BY <1>2, <1>3 DEF Event, Item
<1>9. StoresAfter(s, a) =
        [reviewState  |-> [s.reviewState EXCEPT ![a.slug] = next],
         reviewEvents |-> Append(s.reviewEvents, event),
         dailyStats   |-> [s.dailyStats EXCEPT ![date] = counted]]
  BY DEF StoresAfter
<1>10. count = ~HasSessionEventForDate(s.reviewEvents, a.sessionId, DateOf(a.createdAt))
  OBVIOUS
<1> HIDE DEF item, next, stats, event, count, counted
<1>11. Tells(s, a, event, item, next, stats, counted)
  BY <1>2, <1>4, <1>5, <1>7, <1>8, <1>9, <1>10 DEF Tells
<1> QED BY <1>2, <1>3, <1>5, <1>7, <1>8, <1>11

\* A word's story goes on with its own answer ...
GoesOn(known, item, next, event) ==
  /\ known # NoItem => item = known
  /\ known = NoItem => item.correct = 0 /\ item.wrong = 0
  /\ event.boxBefore = item.box /\ event.boxAfter = next.box
  /\ event.weakScoreBefore = item.weakScore
  /\ event.weakScoreAfter = next.weakScore
  /\ next.correct = item.correct + One(event.answer.result = "correct")
  /\ next.wrong = item.wrong + One(event.answer.result = "wrong")

LEMMA WordGoesOn ==
  ASSUME NEW events \in Seq(Event), NEW event \in Event, NEW w,
         event.answer.slug = w, event.answer.result \in {"correct", "wrong"},
         NEW known \in Item \cup {NoItem}, NEW item \in Item, NEW next \in Item,
         WordAgrees(known, events, w), GoesOn(known, item, next, event)
  PROVE  WordAgrees(next, Append(events, event), w)
<1> USE DEF GoesOn
<1> DEFINE n == Len(events) + 1
           longer == Append(events, event)
           mine == Mine(events, w)
           after == Mine(longer, w)
           right(log) == EventsIn(log, w, "correct")
           wrong(log) == EventsIn(log, w, "wrong")
<1>1. /\ longer[n] = event
      /\ \A i \in DOMAIN events : longer[i] = events[i] /\ i \in Nat /\ i < n
      /\ n \in Nat
  BY Appended
<1>2. /\ right(longer) = right(events) \cup
           (IF event.answer.result = "correct" THEN {n} ELSE {})
      /\ Cardinality(right(longer)) =
           Cardinality(right(events)) + One(event.answer.result = "correct")
  BY EventsInGrow
<1>3. /\ wrong(longer) = wrong(events) \cup
           (IF event.answer.result = "wrong" THEN {n} ELSE {})
      /\ Cardinality(wrong(longer)) =
           Cardinality(wrong(events)) + One(event.answer.result = "wrong")
  BY EventsInGrow
<1>4. after = mine \cup {n} /\ mine \subseteq DOMAIN events
  BY <1>2, <1>3 DEF Mine, EventsIn
<1>5. /\ next.correct = Cardinality(right(longer))
      /\ next.wrong = Cardinality(wrong(longer))
  <2>1. CASE known # NoItem
    BY <1>2, <1>3, <2>1 DEF WordAgrees
  <2>2. CASE known = NoItem
    <3>1. right(events) = {} /\ wrong(events) = {}
      BY <2>2 DEF WordAgrees, Mine
    <3>2. Cardinality(right(events)) = 0 /\ Cardinality(wrong(events)) = 0
      BY <3>1, FS_EmptySet
    <3> QED BY <1>2, <1>3, <2>2, <3>2
  <2> QED BY <2>1, <2>2
<1> HIDE DEF n, longer, right, wrong
<1>6. ASSUME NEW i \in mine, \A j \in mine : j <= i
      PROVE  /\ event.boxBefore = events[i].boxAfter
             /\ event.weakScoreBefore = events[i].weakScoreAfter
  BY <1>6 DEF WordAgrees
<1>7. \A i, j \in mine :
        (i < j /\ \A k \in mine : k <= i \/ j <= k) =>
          /\ events[j].boxBefore = events[i].boxAfter
          /\ events[j].weakScoreBefore = events[i].weakScoreAfter
  BY DEF WordAgrees
<1> HIDE DEF mine, after
<1>8. ASSUME NEW i \in after, \A j \in after : j <= i
      PROVE  longer[i].boxAfter = next.box /\ longer[i].weakScoreAfter = next.weakScore
  <2>1. i = n
    BY <1>1, <1>4, <1>8
  <2> QED BY <1>1, <2>1
<1>9. ASSUME NEW i \in after, NEW j \in after, i < j,
             \A k \in after : k <= i \/ j <= k
      PROVE  /\ longer[j].boxBefore = longer[i].boxAfter
             /\ longer[j].weakScoreBefore = longer[i].weakScoreAfter
  <2>1. i \in mine
    BY <1>1, <1>4, <1>9
  <2>2. CASE j = n
    <3>1. \A k \in mine : k <= i
      BY <1>1, <1>4, <1>9, <2>2
    <3> QED BY <1>1, <1>4, <1>6, <2>1, <2>2, <3>1
  <2>3. CASE j \in mine
    BY <1>1, <1>4, <1>7, <1>9, <2>1, <2>3
  <2> QED BY <1>4, <2>2, <2>3
<1> QED BY <1>5, <1>8, <1>9, AnswersAssumption
        DEF WordAgrees, longer, after, right, wrong

\* ... and is not touched by another word's.
LEMMA WordStands ==
  ASSUME NEW events \in Seq(Event), NEW event, NEW w, event.answer.slug # w,
         NEW known, WordAgrees(known, events, w)
  PROVE  WordAgrees(known, Append(events, event), w)
<1> DEFINE longer == Append(events, event)
<1>1. \A i \in DOMAIN events : longer[i] = events[i]
  BY Appended
<1>2. /\ EventsIn(longer, w, "correct") = EventsIn(events, w, "correct")
      /\ EventsIn(longer, w, "wrong") = EventsIn(events, w, "wrong")
  <2>1. ASSUME NEW result
        PROVE  EventsIn(longer, w, result) = EventsIn(events, w, result)
    <3>1. EventsIn(longer, w, result) = EventsIn(events, w, result) \cup
            (IF event.answer.slug = w /\ event.answer.result = result
             THEN {Len(events) + 1} ELSE {})
      BY EventsInGrow
    <3> HIDE DEF longer
    <3> QED BY <3>1
  <2> QED BY <2>1
<1>3. Mine(longer, w) = Mine(events, w) /\ Mine(events, w) \subseteq DOMAIN events
  BY <1>2 DEF Mine, EventsIn
<1>4. \A i \in Mine(events, w) : longer[i] = events[i]
  BY <1>1, <1>3
<1> HIDE DEF longer
<1> QED BY <1>2, <1>3, <1>4 DEF WordAgrees, longer

\* A day's statistics go on with an answer of the day, and stand otherwise.
LEMMA DayGoesOn ==
  ASSUME NEW events \in Seq(Event), NEW event \in Event, NEW d,
         NEW kept, NEW stats \in DailyStats, NEW counted \in DailyStats,
         DayAgrees(kept, events, d),
         kept # NoStats => stats = kept,
         kept = NoStats => stats.reviewed = 0 /\ stats.sessions = 0,
         DateOf(event.answer.createdAt) = d,
         counted.reviewed = stats.reviewed + 1,
         counted.sessions = stats.sessions +
           One(~HasSessionEventForDate(events, event.answer.sessionId, d))
  PROVE  DayAgrees(counted, Append(events, event), d)
<1>1. /\ stats.reviewed = Cardinality(EventsOnDay(events, d))
      /\ stats.sessions = Cardinality(SessionsOn(events, d))
  <2>1. CASE kept = NoStats
    <3>1. EventsOnDay(events, d) = {}
      BY <2>1 DEF DayAgrees
    <3>2. SessionsOn(events, d) = {}
      BY <3>1 DEF SessionsOn
    <3> QED BY <2>1, <3>1, <3>2, FS_EmptySet
  <2>2. CASE kept # NoStats
    BY <2>2 DEF DayAgrees
  <2> QED BY <2>1, <2>2
<1>2. Cardinality(EventsOnDay(Append(events, event), d)) =
        Cardinality(EventsOnDay(events, d)) + 1
  BY EventsOnDayGrow DEF One
<1>3. Cardinality(SessionsOn(Append(events, event), d)) =
        Cardinality(SessionsOn(events, d)) +
          One(~HasSessionEventForDate(events, event.answer.sessionId, d))
  BY SessionsGrow DEF One
<1> QED BY <1>1, <1>2, <1>3, AnswersAssumption DEF DayAgrees

LEMMA DayStands ==
  ASSUME NEW events \in Seq(Event), NEW event, NEW d, NEW kept,
         DayAgrees(kept, events, d), DateOf(event.answer.createdAt) # d
  PROVE  DayAgrees(kept, Append(events, event), d)
<1> DEFINE longer == Append(events, event)
<1>1. \A i \in DOMAIN events : longer[i] = events[i]
  BY Appended
<1>2. EventsOnDay(longer, d) = EventsOnDay(events, d)
  <2>1. EventsOnDay(longer, d) = EventsOnDay(events, d) \cup
          (IF DateOf(event.answer.createdAt) = d THEN {Len(events) + 1} ELSE {})
    BY EventsOnDayGrow
  <2> HIDE DEF longer
  <2> QED BY <2>1
<1>3. EventsOnDay(events, d) \subseteq DOMAIN events
  BY DEF EventsOnDay
<1> HIDE DEF longer
<1>4. SessionsOn(longer, d) = SessionsOn(events, d)
  BY <1>1, <1>2, <1>3 DEF SessionsOn
<1> QED BY <1>2, <1>4 DEF DayAgrees, longer

LEMMA AnswerAgrees ==
  ASSUME NEW s \in Stores, NEW a \in Answers, Agree(s)
  PROVE  Agree(StoresAfter(s, a))
<1>1. PICK event \in Event, item \in Item, next \in Item,
           stats \in DailyStats, counted \in DailyStats :
        Tells(s, a, event, item, next, stats, counted)
  BY AnswerTells
<1> DEFINE date == DateOf(a.createdAt)
           after == StoresAfter(s, a)
<1>2. /\ after.reviewState = [s.reviewState EXCEPT ![a.slug] = next]
      /\ after.reviewEvents = Append(s.reviewEvents, event)
      /\ after.dailyStats = [s.dailyStats EXCEPT ![date] = counted]
  BY <1>1 DEF Tells
<1>3. /\ a.slug \in Words /\ date \in Dates
      /\ a.result \in {"correct", "wrong"} /\ event.answer = a
  BY <1>1, AnswersAssumption DEF Dates, EngineAnswer, Results, Tells
<1>4. /\ s.reviewEvents \in Seq(Event)
      /\ s.reviewState \in [Words -> Item \cup {NoItem}]
      /\ s.dailyStats \in [Dates -> DailyStats \cup {NoStats}]
  BY DEF Stores
<1> HIDE DEF after, date
<1>5. ASSUME NEW w \in Words
      PROVE  WordAgrees(after.reviewState[w], after.reviewEvents, w)
  <2>1. WordAgrees(s.reviewState[w], s.reviewEvents, w)
    BY DEF Agree
  <2>2. CASE w = a.slug
    <3>1. after.reviewState[w] = next /\ s.reviewState[w] \in Item \cup {NoItem}
      BY <1>2, <1>3, <1>4, <2>2
    <3>2. /\ event.answer.slug = w
          /\ event.answer.result \in {"correct", "wrong"}
          /\ GoesOn(s.reviewState[w], item, next, event)
      BY <1>1, <1>3, <2>2 DEF Tells, GoesOn
    <3>3. WordAgrees(next, Append(s.reviewEvents, event), w)
      BY <1>4, <2>1, <3>1, <3>2, WordGoesOn
    <3> QED BY <1>2, <3>1, <3>3
  <2>3. CASE w # a.slug
    <3>1. after.reviewState[w] = s.reviewState[w] /\ event.answer.slug # w
      BY <1>2, <1>3, <1>4, <2>3
    <3> QED BY <1>2, <1>4, <2>1, <3>1, WordStands
  <2> QED BY <2>2, <2>3
<1>6. ASSUME NEW d \in Dates
      PROVE  DayAgrees(after.dailyStats[d], after.reviewEvents, d)
  <2>1. DayAgrees(s.dailyStats[d], s.reviewEvents, d)
    BY DEF Agree
  <2>2. CASE d = date
    <3>1. after.dailyStats[d] = counted
      BY <1>2, <1>3, <1>4, <2>2
    <3>2. /\ s.dailyStats[d] # NoStats => stats = s.dailyStats[d]
          /\ s.dailyStats[d] = NoStats => stats.reviewed = 0 /\ stats.sessions = 0
          /\ DateOf(event.answer.createdAt) = d
          /\ counted.reviewed = stats.reviewed + 1
          /\ counted.sessions = stats.sessions +
               One(~HasSessionEventForDate(s.reviewEvents, event.answer.sessionId, d))
      BY <1>1, <1>3, <2>2 DEF Tells, date
    <3>3. DayAgrees(counted, Append(s.reviewEvents, event), d)
      BY <1>4, <2>1, <3>2, DayGoesOn
    <3> QED BY <1>2, <3>1, <3>3
  <2>3. CASE d # date
    <3>1. after.dailyStats[d] = s.dailyStats[d] /\ DateOf(event.answer.createdAt) # d
      BY <1>2, <1>3, <1>4, <2>3 DEF date
    <3> QED BY <1>2, <1>4, <2>1, <3>1, DayStands
  <2> QED BY <2>2, <2>3
<1> QED BY <1>5, <1>6 DEF Agree, after

\* A saved word has no event yet, and its item counts none.
LEMMA SaveAgrees ==
  ASSUME NEW s \in Stores, Agree(s), NEW w \in Words, NEW at \in SaveTimes
  PROVE  Agree([s EXCEPT !.reviewState = SavedState(s.reviewState, w, at)])
<1> DEFINE after == [s EXCEPT !.reviewState = SavedState(s.reviewState, w, at)]
<1>1. /\ after.reviewState = SavedState(s.reviewState, w, at)
      /\ after.reviewEvents = s.reviewEvents /\ after.dailyStats = s.dailyStats
      /\ s.reviewState \in [Words -> Item \cup {NoItem}]
  BY DEF Stores
<1> HIDE DEF after
<1>2. ASSUME NEW v \in Words
      PROVE  WordAgrees(after.reviewState[v], after.reviewEvents, v)
  <2>1. WordAgrees(s.reviewState[v], s.reviewEvents, v)
    BY DEF Agree
  <2>2. CASE v = w /\ s.reviewState[w] = NoItem
    <3>1. after.reviewState[v] = NewItem(at)
      BY <1>1, <2>2 DEF SavedState
    <3>2. Mine(s.reviewEvents, v) = {}
      BY <2>1, <2>2 DEF WordAgrees
    <3>3. /\ EventsIn(s.reviewEvents, v, "correct") = {}
          /\ EventsIn(s.reviewEvents, v, "wrong") = {}
      BY <3>2 DEF Mine
    <3>4. NewItem(at).correct = 0 /\ NewItem(at).wrong = 0
      BY DEF NewItem
    <3>5. /\ Cardinality(EventsIn(s.reviewEvents, v, "correct")) = 0
          /\ Cardinality(EventsIn(s.reviewEvents, v, "wrong")) = 0
      BY <3>3, FS_EmptySet
    <3> QED BY <1>1, <3>1, <3>2, <3>4, <3>5 DEF WordAgrees
  <2>3. CASE ~(v = w /\ s.reviewState[w] = NoItem)
    BY <1>1, <2>1, <2>3 DEF SavedState
  <2> QED BY <2>2, <2>3
<1> QED BY <1>1, <1>2 DEF Agree, after

LEMMA EmptyAgrees == Agree(EmptyStores)
<1> DEFINE s == EmptyStores
<1>1. /\ s.reviewEvents = << >> /\ \A w \in Words : s.reviewState[w] = NoItem
      /\ \A d \in Dates : s.dailyStats[d] = NoStats
  BY DEF EmptyStores
<1>2. \A w, result : EventsIn(<< >>, w, result) = {}
  BY DEF EventsIn
<1>3. \A d : EventsOnDay(<< >>, d) = {}
  BY DEF EventsOnDay
<1> HIDE DEF s
<1> QED BY <1>1, <1>2, <1>3 DEF Agree, WordAgrees, DayAgrees, Mine, s

\* The promise, of the committed stores.
CommittedAgree == ~fatal /\ crashes = 0 => Agree(CommittedStores)

LEMMA LogKeepsAgreement ==
  ASSUME NEW t, Tabs = {t}, TypeOK, CommittedAgree, LogSteps
  PROVE  CommittedAgree'
<1> DEFINE stores == CommittedStores
<1>1. stores \in Stores /\ crashes \in Nat
  BY CommittedType, StorageAssumption DEF TypeOK, Typed
<1>2. CASE LogStutters
  BY <1>2 DEF LogStutters, CommittedAgree
<1>3. ASSUME NEW a \in Answers, Log!Answer(a) PROVE CommittedAgree'
  <2>1. /\ stores' = StoresAfter(stores, a)
        /\ UNCHANGED <<fatal, crashes>>
    BY <1>3, SameStoresAfter DEF Log!Answer
  <2> QED BY <1>1, <2>1, AnswerAgrees DEF CommittedAgree
<1>4. ASSUME NEW a \in Answers, Log!Replay(a) PROVE CommittedAgree'
  BY <1>4 DEF Log!Replay, CommittedAgree
<1>5. ASSUME NEW w \in Words, NEW at \in SaveTimes, Log!Save(w, at)
      PROVE  CommittedAgree'
  <2>1. /\ stores' = [stores EXCEPT !.reviewState = SavedState(stores.reviewState, w, at)]
        /\ UNCHANGED <<fatal, crashes>>
    BY <1>5, SameSavedState DEF Log!Save
  <2> QED BY <1>1, <2>1, SaveAgrees DEF CommittedAgree
<1>6. CASE (\E a \in Answers : Log!FatalError(a)) \/ Log!Die
  <2>1. fatal' \/ crashes' # 0
    BY <1>1, <1>6 DEF Log!FatalError, Log!Die
  <2> QED BY <2>1 DEF CommittedAgree
<1> QED BY <1>2, <1>3, <1>4, <1>5, <1>6 DEF LogSteps, Log!LogNext

\* With one tab that does not die and saw no fatal error, the review state, the
\* log and the daily statistics agree whenever no call is under way, whatever
\* writes failed, were rolled back and tried again in between.
THEOREM StoresTellOneStory ==
  ASSUME NEW t, Tabs = {t} PROVE Spec => []StoresAgree
<1>1. Init => CommittedAgree
  <2>1. Init => CommittedStores = EmptyStores
    BY CommittedIs DEF Init, IdleTab
  <2> QED BY <2>1, EmptyAgrees DEF CommittedAgree
<1>2. TypeOK /\ NoneOverlooked /\ MirrorInv /\ TypeOK' /\ CommittedAgree /\ [Next]_vars
        => CommittedAgree'
  BY EveryStepIsLogged, LogKeepsAgreement
<1>3. CommittedAgree => StoresAgree
  <2>1. Quiet => CommittedStores = store
    BY CommittedIs DEF Quiet
  <2> QED BY <2>1, AgreeIsStoresAgree DEF CommittedAgree
<1>4. Spec => []MirrorInv
  BY MirrorsAlways
<1> QED BY <1>1, <1>2, <1>3, <1>4, TypeCorrect, NoneOverlookedAlways, PTL DEF Spec

-----------------------------------------------------------------------------
(* One tab: the stores drift apart by what died, and no more *)

CountOf(item) == IF item = NoItem THEN 0 ELSE ReviewCount(item)
CountOn(stats) == IF stats = NoStats THEN 0 ELSE stats.reviewed

\* DriftBoundedByCrashes, of any three stores.
DriftWithin(s, bound) ==
  /\ \A w \in Words : Within(CountOf(s.reviewState[w]),
                             Cardinality(Mine(s.reviewEvents, w)), bound)
  /\ \A d \in Dates : Within(CountOn(s.dailyStats[d]),
                             Cardinality(EventsOnDay(s.reviewEvents, d)), bound)

LEMMA DriftIsBounded ==
  DriftBoundedByCrashes <=> (Quiet /\ ~fatal => DriftWithin(store, crashes))
BY DEF DriftBoundedByCrashes, DriftWithin, CountOf, CountOn, Reviews, EventCount,
       Reviewed, Mine, EventsIn, EventsOf, EventsOn, EventsOnDay

LEMMA CountsAreNatural ==
  ASSUME NEW s \in Stores
  PROVE  /\ \A w \in Words : CountOf(s.reviewState[w]) \in Nat
         /\ \A d \in Dates : CountOn(s.dailyStats[d]) \in Nat
         /\ \A w : Cardinality(Mine(s.reviewEvents, w)) \in Nat
         /\ \A d : Cardinality(EventsOnDay(s.reviewEvents, d)) \in Nat
<1>1. /\ s.reviewState \in [Words -> Item \cup {NoItem}]
      /\ s.dailyStats \in [Dates -> DailyStats \cup {NoStats}]
      /\ s.reviewEvents \in Seq(Event)
  BY DEF Stores
<1>2. IsFiniteSet(DOMAIN s.reviewEvents)
  BY <1>1, FS_Interval
<1>3. /\ \A w : Mine(s.reviewEvents, w) \subseteq DOMAIN s.reviewEvents
      /\ \A d : EventsOnDay(s.reviewEvents, d) \subseteq DOMAIN s.reviewEvents
  BY DEF Mine, EventsIn, EventsOnDay
<1>4. /\ \A w : Cardinality(Mine(s.reviewEvents, w)) \in Nat
      /\ \A d : Cardinality(EventsOnDay(s.reviewEvents, d)) \in Nat
  BY <1>2, <1>3, FS_Subset, FS_CardinalityType
<1> QED BY <1>1, <1>4 DEF CountOf, CountOn, ReviewCount, Item, DailyStats

\* An answer is counted once in each store: for its word and for its day.
LEMMA AnswerCountsOnce ==
  ASSUME NEW s \in Stores, NEW a \in Answers
  PROVE  LET after == StoresAfter(s, a) IN
         /\ \A w \in Words :
              /\ CountOf(after.reviewState[w]) =
                   CountOf(s.reviewState[w]) + One(a.slug = w)
              /\ Cardinality(Mine(after.reviewEvents, w)) =
                   Cardinality(Mine(s.reviewEvents, w)) + One(a.slug = w)
         /\ \A d \in Dates :
              /\ CountOn(after.dailyStats[d]) =
                   CountOn(s.dailyStats[d]) + One(DateOf(a.createdAt) = d)
              /\ Cardinality(EventsOnDay(after.reviewEvents, d)) =
                   Cardinality(EventsOnDay(s.reviewEvents, d)) +
                     One(DateOf(a.createdAt) = d)
<1>1. PICK event \in Event, item \in Item, next \in Item,
           stats \in DailyStats, counted \in DailyStats :
        Tells(s, a, event, item, next, stats, counted)
  BY AnswerTells
<1> DEFINE date == DateOf(a.createdAt)
           after == StoresAfter(s, a)
<1>2. /\ after.reviewState = [s.reviewState EXCEPT ![a.slug] = next]
      /\ after.reviewEvents = Append(s.reviewEvents, event)
      /\ after.dailyStats = [s.dailyStats EXCEPT ![date] = counted]
  BY <1>1 DEF Tells
<1>3. /\ a.slug \in Words /\ date \in Dates
      /\ a.result \in {"correct", "wrong"} /\ event.answer = a
  BY <1>1, AnswersAssumption DEF Dates, EngineAnswer, Results, Tells
<1>4. /\ s.reviewEvents \in Seq(Event)
      /\ s.reviewState \in [Words -> Item \cup {NoItem}]
      /\ s.dailyStats \in [Dates -> DailyStats \cup {NoStats}]
  BY DEF Stores
<1>5. CountOf(next) = CountOf(s.reviewState[a.slug]) + 1
  <2>1. One(a.result = "correct") + One(a.result = "wrong") = 1
    BY <1>3 DEF One
  <2>2. /\ next.correct = item.correct + One(a.result = "correct")
        /\ next.wrong = item.wrong + One(a.result = "wrong")
        /\ s.reviewState[a.slug] # NoItem => item = s.reviewState[a.slug]
        /\ s.reviewState[a.slug] = NoItem => item.correct = 0 /\ item.wrong = 0
    BY <1>1 DEF Tells
  <2>3. One(a.result = "correct") \in Nat /\ One(a.result = "wrong") \in Nat
    BY DEF One
  <2>4. /\ item.correct \in Nat /\ item.wrong \in Nat /\ next # NoItem
        /\ s.reviewState[a.slug] \in Item \cup {NoItem}
    BY <1>3, <1>4, AnswersAssumption DEF Item
  <2> QED BY <2>1, <2>2, <2>3, <2>4 DEF CountOf, ReviewCount
<1>6. CountOn(counted) = CountOn(s.dailyStats[date]) + 1
  <2>1. /\ counted.reviewed = stats.reviewed + 1
        /\ s.dailyStats[date] # NoStats => stats = s.dailyStats[date]
        /\ s.dailyStats[date] = NoStats => stats.reviewed = 0
    BY <1>1 DEF Tells
  <2> QED BY <2>1, AnswersAssumption DEF CountOn
<1> HIDE DEF after, date
<1>7. ASSUME NEW w \in Words
      PROVE  CountOf(after.reviewState[w]) = CountOf(s.reviewState[w]) + One(a.slug = w)
  <2>1. CountOf(s.reviewState[w]) \in Nat
    BY CountsAreNatural
  <2>2. CASE w = a.slug
    BY <1>2, <1>3, <1>4, <1>5, <2>2 DEF One
  <2>3. CASE w # a.slug
    BY <1>2, <1>3, <1>4, <2>1, <2>3 DEF One
  <2> QED BY <2>2, <2>3
<1>8. ASSUME NEW d \in Dates
      PROVE  CountOn(after.dailyStats[d]) = CountOn(s.dailyStats[d]) + One(date = d)
  <2>1. CountOn(s.dailyStats[d]) \in Nat
    BY CountsAreNatural
  <2>2. CASE d = date
    BY <1>2, <1>3, <1>4, <1>6, <2>2 DEF One
  <2>3. CASE d # date
    BY <1>2, <1>3, <1>4, <2>1, <2>3 DEF One
  <2> QED BY <2>2, <2>3
<1>9. ASSUME NEW w \in Words
      PROVE  Cardinality(Mine(after.reviewEvents, w)) =
               Cardinality(Mine(s.reviewEvents, w)) + One(a.slug = w)
  <2> DEFINE n == Len(s.reviewEvents) + 1
             mine == Mine(s.reviewEvents, w)
  <2>1. \A result : EventsIn(after.reviewEvents, w, result) =
          EventsIn(s.reviewEvents, w, result) \cup
            (IF event.answer.slug = w /\ event.answer.result = result
             THEN {n} ELSE {})
    BY <1>2, <1>4, EventsInGrow
  <2>2. mine \subseteq DOMAIN s.reviewEvents
    BY DEF Mine, EventsIn
  <2>3. n \notin DOMAIN s.reviewEvents /\ IsFiniteSet(DOMAIN s.reviewEvents)
    BY <1>4, Appended
  <2> HIDE DEF n
  <2>4. Mine(after.reviewEvents, w) = mine \cup (IF a.slug = w THEN {n} ELSE {})
    BY <1>3, <2>1 DEF Mine
  <2>5. IsFiniteSet(mine) /\ n \notin mine
    BY <2>2, <2>3, FS_Subset
  <2> HIDE DEF mine
  <2>6. Cardinality(mine \cup (IF a.slug = w THEN {n} ELSE {})) =
          Cardinality(mine) + One(a.slug = w)
    BY <2>5, OneMore DEF One
  <2> QED BY <2>4, <2>6 DEF mine
<1>10. ASSUME NEW d \in Dates
       PROVE  Cardinality(EventsOnDay(after.reviewEvents, d)) =
                Cardinality(EventsOnDay(s.reviewEvents, d)) + One(date = d)
  BY <1>2, <1>3, <1>4, EventsOnDayGrow DEF date
<1> QED BY <1>7, <1>8, <1>9, <1>10 DEF after, date

LEMMA TornDrifts ==
  ASSUME NEW s \in Stores, NEW a \in Answers, NEW bound \in Nat,
         DriftWithin(s, bound), NEW torn,
         \A k \in Keys : torn[k] \in {s[k], StoresAfter(s, a)[k]}
  PROVE  DriftWithin(torn, bound + 1)
<1> DEFINE after == StoresAfter(s, a)
<1>1. /\ torn.reviewState \in {s.reviewState, after.reviewState}
      /\ torn.reviewEvents \in {s.reviewEvents, after.reviewEvents}
      /\ torn.dailyStats \in {s.dailyStats, after.dailyStats}
  BY DEF Keys
<1>2. ASSUME NEW w \in Words
      PROVE  Within(CountOf(torn.reviewState[w]),
                    Cardinality(Mine(torn.reviewEvents, w)), bound + 1)
  <2> DEFINE count == CountOf(s.reviewState[w])
             events == Cardinality(Mine(s.reviewEvents, w))
  <2>1. /\ CountOf(after.reviewState[w]) = count + One(a.slug = w)
        /\ Cardinality(Mine(after.reviewEvents, w)) = events + One(a.slug = w)
    BY AnswerCountsOnce
  <2>2. /\ CountOf(torn.reviewState[w]) \in {count, count + One(a.slug = w)}
        /\ Cardinality(Mine(torn.reviewEvents, w)) \in {events, events + One(a.slug = w)}
    BY <1>1, <2>1
  <2>3. count \in Nat /\ events \in Nat /\ Within(count, events, bound)
    BY CountsAreNatural DEF DriftWithin
  <2>4. One(a.slug = w) \in {0, 1}
    BY DEF One
  <2> HIDE DEF count, events
  <2> QED BY <2>2, <2>3, <2>4 DEF Within
<1>3. ASSUME NEW d \in Dates
      PROVE  Within(CountOn(torn.dailyStats[d]),
                    Cardinality(EventsOnDay(torn.reviewEvents, d)), bound + 1)
  <2> DEFINE count == CountOn(s.dailyStats[d])
             events == Cardinality(EventsOnDay(s.reviewEvents, d))
             one == One(DateOf(a.createdAt) = d)
  <2>1. /\ CountOn(after.dailyStats[d]) = count + one
        /\ Cardinality(EventsOnDay(after.reviewEvents, d)) = events + one
    BY AnswerCountsOnce
  <2>2. /\ CountOn(torn.dailyStats[d]) \in {count, count + one}
        /\ Cardinality(EventsOnDay(torn.reviewEvents, d)) \in {events, events + one}
    BY <1>1, <2>1
  <2>3. count \in Nat /\ events \in Nat /\ Within(count, events, bound)
    BY CountsAreNatural DEF DriftWithin
  <2>4. one \in {0, 1}
    BY DEF One
  <2> HIDE DEF count, events, one
  <2> QED BY <2>2, <2>3, <2>4 DEF Within
<1> QED BY <1>2, <1>3 DEF DriftWithin

LEMMA AnswerDoesNotDrift ==
  ASSUME NEW s \in Stores, NEW a \in Answers, NEW bound \in Nat,
         DriftWithin(s, bound)
  PROVE  DriftWithin(StoresAfter(s, a), bound)
<1> DEFINE after == StoresAfter(s, a)
<1>1. \A n, m, k \in Nat : Within(n, m, bound) => Within(n + k, m + k, bound)
  BY DEF Within
<1>2. \A cond : One(cond) \in Nat
  BY DEF One
<1>3. ASSUME NEW w \in Words
      PROVE  Within(CountOf(after.reviewState[w]),
                    Cardinality(Mine(after.reviewEvents, w)), bound)
  <2>1. /\ CountOf(after.reviewState[w]) = CountOf(s.reviewState[w]) + One(a.slug = w)
        /\ Cardinality(Mine(after.reviewEvents, w)) =
             Cardinality(Mine(s.reviewEvents, w)) + One(a.slug = w)
    BY AnswerCountsOnce
  <2>2. /\ CountOf(s.reviewState[w]) \in Nat
        /\ Cardinality(Mine(s.reviewEvents, w)) \in Nat
        /\ One(a.slug = w) \in Nat
    BY <1>2, CountsAreNatural
  <2>3. Within(CountOf(s.reviewState[w]), Cardinality(Mine(s.reviewEvents, w)), bound)
    BY DEF DriftWithin
  <2> QED BY <1>1, <2>1, <2>2, <2>3
<1>4. ASSUME NEW d \in Dates
      PROVE  Within(CountOn(after.dailyStats[d]),
                    Cardinality(EventsOnDay(after.reviewEvents, d)), bound)
  <2> DEFINE one == One(DateOf(a.createdAt) = d)
  <2>1. /\ CountOn(after.dailyStats[d]) = CountOn(s.dailyStats[d]) + one
        /\ Cardinality(EventsOnDay(after.reviewEvents, d)) =
             Cardinality(EventsOnDay(s.reviewEvents, d)) + one
    BY AnswerCountsOnce
  <2>2. /\ CountOn(s.dailyStats[d]) \in Nat
        /\ Cardinality(EventsOnDay(s.reviewEvents, d)) \in Nat
        /\ one \in Nat
    BY <1>2, CountsAreNatural
  <2>3. Within(CountOn(s.dailyStats[d]), Cardinality(EventsOnDay(s.reviewEvents, d)),
               bound)
    BY DEF DriftWithin
  <2> QED BY <1>1, <2>1, <2>2, <2>3
<1> QED BY <1>3, <1>4 DEF DriftWithin

\* Saving a word counts no review.
LEMMA SaveDoesNotDrift ==
  ASSUME NEW s \in Stores, NEW w \in Words, NEW at \in SaveTimes, NEW bound,
         DriftWithin(s, bound)
  PROVE  DriftWithin([s EXCEPT !.reviewState = SavedState(s.reviewState, w, at)],
                     bound)
<1> DEFINE after == [s EXCEPT !.reviewState = SavedState(s.reviewState, w, at)]
<1>1. /\ after.reviewState = SavedState(s.reviewState, w, at)
      /\ after.reviewEvents = s.reviewEvents /\ after.dailyStats = s.dailyStats
      /\ s.reviewState \in [Words -> Item \cup {NoItem}]
  BY DEF Stores
<1>2. CountOf(NewItem(at)) = 0 /\ CountOf(NoItem) = 0
  BY DEF CountOf, NewItem, ReviewCount
<1>3. \A v \in Words : CountOf(after.reviewState[v]) = CountOf(s.reviewState[v])
  BY <1>1, <1>2 DEF SavedState
<1> HIDE DEF after
<1> QED BY <1>1, <1>3 DEF DriftWithin, after

\* The promise, of the committed stores.
CommittedDrift == ~fatal => DriftWithin(CommittedStores, crashes)

LEMMA LogDrifts ==
  ASSUME NEW t, Tabs = {t}, TypeOK, CommittedDrift, LogSteps
  PROVE  CommittedDrift'
<1> DEFINE stores == CommittedStores
<1>1. stores \in Stores /\ crashes \in Nat
  BY CommittedType, StorageAssumption DEF TypeOK, Typed
<1>2. CASE LogStutters
  BY <1>2 DEF LogStutters, CommittedDrift
<1>3. ASSUME NEW a \in Answers, Log!Answer(a) PROVE CommittedDrift'
  <2>1. stores' = StoresAfter(stores, a) /\ UNCHANGED <<fatal, crashes>>
    BY <1>3, SameStoresAfter DEF Log!Answer
  <2> QED BY <1>1, <2>1, AnswerDoesNotDrift DEF CommittedDrift
<1>4. ASSUME NEW a \in Answers, Log!Replay(a) PROVE CommittedDrift'
  BY <1>4 DEF Log!Replay, CommittedDrift
<1>5. ASSUME NEW w \in Words, NEW at \in SaveTimes, Log!Save(w, at)
      PROVE  CommittedDrift'
  <2>1. /\ stores' = [stores EXCEPT !.reviewState = SavedState(stores.reviewState, w, at)]
        /\ UNCHANGED <<fatal, crashes>>
    BY <1>5, SameSavedState DEF Log!Save
  <2> QED BY <1>1, <2>1, SaveDoesNotDrift DEF CommittedDrift
<1>6. ASSUME NEW a \in Answers, Log!FatalError(a) PROVE CommittedDrift'
  BY <1>6 DEF Log!FatalError, CommittedDrift
<1>7. CASE Log!Die
  <2>1. crashes' = crashes + 1 /\ fatal' = fatal
    BY <1>7 DEF Log!Die
  <2>2. ASSUME NEW a \in Answers, Log!Torn(a) PROVE CommittedDrift'
    <3>1. \A k \in Keys : stores'[k] \in {stores[k], StoresAfter(stores, a)[k]}
      BY <2>2, SameNames, SameStoresAfter DEF Log!Torn
    <3> QED BY <1>1, <2>1, <3>1, TornDrifts DEF CommittedDrift
  <2>3. CASE stores' = stores
    <3>1. \A n, m \in Nat : Within(n, m, crashes) => Within(n, m, crashes + 1)
      BY <1>1 DEF Within
    <3> QED BY <1>1, <2>1, <2>3, <3>1, CountsAreNatural
            DEF CommittedDrift, DriftWithin
  <2> QED BY <1>7, <2>2, <2>3 DEF Log!Die
<1> QED BY <1>2, <1>3, <1>4, <1>5, <1>6, <1>7 DEF LogSteps, Log!LogNext

\* With one tab, a call that dies costs at most its own answer: the review state
\* and the statistics are off the log by no more than the calls that died.
THEOREM DriftStaysBounded ==
  ASSUME NEW t, Tabs = {t} PROVE Spec => []DriftBoundedByCrashes
<1>1. Init => CommittedDrift
  <2>1. Init => CommittedStores = EmptyStores /\ crashes = 0
    BY CommittedIs DEF Init, IdleTab
  <2>2. DriftWithin(EmptyStores, 0)
    <3>1. /\ \A w : Mine(<< >>, w) = {}
          /\ \A d : EventsOnDay(<< >>, d) = {}
      BY DEF Mine, EventsIn, EventsOnDay
    <3>2. Cardinality({}) = 0 /\ Within(0, 0, 0)
      BY FS_EmptySet DEF Within
    <3> QED BY <3>1, <3>2 DEF DriftWithin, EmptyStores, CountOf, CountOn
  <2> QED BY <2>1, <2>2 DEF CommittedDrift
<1>2. TypeOK /\ NoneOverlooked /\ MirrorInv /\ TypeOK' /\ CommittedDrift /\ [Next]_vars
        => CommittedDrift'
  BY EveryStepIsLogged, LogDrifts
<1>3. CommittedDrift => DriftBoundedByCrashes
  <2>1. Quiet => CommittedStores = store
    BY CommittedIs DEF Quiet
  <2> QED BY <2>1, DriftIsBounded DEF CommittedDrift
<1>4. Spec => []MirrorInv
  BY MirrorsAlways
<1> QED BY <1>1, <1>2, <1>3, <1>4, TypeCorrect, NoneOverlookedAlways, PTL DEF Spec
==============================================================================
