----------------------------- MODULE AccountSync_proofs -----------------------------
(***************************************************************************)
(* What an account never does, for any words, packs, days, snapshots,       *)
(* writes and keys: it holds each event once and follows its events, a run  *)
(* is carried out as a whole and adds nothing when it comes again, what is  *)
(* called mastered is, and what was applied was previewed.                  *)
(***************************************************************************)
EXTENDS AccountSync, SrsEngine_proofs, FiniteSetTheorems, WellFoundedInduction, TLAPS

-----------------------------------------------------------------------------
(* Counting up to a number                                                   *)

\* Pairs of numbers, the smaller one first.
Smaller == {ab \in Nat \X Nat : ab[1] < ab[2]}

\* There is no endless descent in the natural numbers.
LEMMA SmallerDescends == IsWellFoundedOn(Smaller, Nat)
  BY NatLessThanWellFounded DEF OpToRel, Smaller

\* What holds at zero and goes on from one number to the next holds up to n.
LEMMA CountingUp ==
  ASSUME NEW n \in Nat, NEW S, 0 \in S, \A i \in 1..n : i - 1 \in S => i \in S
  PROVE  \A i \in 0..n : i \in S
<1> SUFFICES ASSUME (0..n) \ S # {} PROVE FALSE
  OBVIOUS
<1> DEFINE left == (0..n) \ S
<1>1. left \subseteq Nat /\ left # {}
  OBVIOUS
<1> HIDE DEF left
<1>2. PICK a \in left : \A b \in left : ~(<<b, a>> \in Smaller)
  BY <1>1, SmallerDescends, WFMin
<1>3. a \in 0..n /\ a \notin S
  BY DEF left
<1>4. a # 0 /\ a \in 1..n /\ a - 1 \in 0..n /\ a - 1 < a
  BY <1>3
<1>5. a - 1 \notin S
  BY <1>3, <1>4
<1>6. a - 1 \in left
  BY <1>4, <1>5 DEF left
<1>7. <<a - 1, a>> \in Smaller
  BY <1>3, <1>4 DEF Smaller
<1> QED
  BY <1>2, <1>6, <1>7

-----------------------------------------------------------------------------
(* The loops, which are recursive functions: that they exist, and their rounds *)

Start(acc) == [account |-> acc, refused |-> FALSE, applied |-> << >>]

IsRounds(f, acc, resolutions, snapshot, accepted, n) ==
  f = [i \in 0..n |-> IF i = 0 THEN Start(acc)
                      ELSE ApplyNext(snapshot, accepted, f[i - 1], resolutions[i])]

LEMMA RoundsExist ==
  ASSUME NEW acc, NEW resolutions, NEW snapshot, NEW accepted, NEW n \in Nat
  PROVE  \E f : IsRounds(f, acc, resolutions, snapshot, accepted, n)
<1> DEFINE Is(f, m) == IsRounds(f, acc, resolutions, snapshot, accepted, m)
           S == {m \in Nat : \E f : Is(f, m)}
<1>1. 0 \in S
  <2> DEFINE f == [i \in 0..0 |-> Start(acc)]
  <2>1. Is(f, 0)
    BY DEF IsRounds
  <2> HIDE DEF Is, f
  <2> QED BY <2>1
<1>2. ASSUME NEW m \in 1..n, m - 1 \in S
      PROVE  m \in S
  <2>1. PICK f : Is(f, m - 1)
    BY <1>2
  <2> DEFINE next == ApplyNext(snapshot, accepted, f[m - 1], resolutions[m])
             g    == [i \in 0..m |-> IF i = m THEN next ELSE f[i]]
  <2>2. \A i \in 0..(m - 1) :
          f[i] = IF i = 0 THEN Start(acc)
                 ELSE ApplyNext(snapshot, accepted, f[i - 1], resolutions[i])
    BY <2>1 DEF IsRounds
  <2>3. g[m] = next /\ \A i \in 0..(m - 1) : g[i] = f[i]
    OBVIOUS
  <2>4. g = [i \in 0..m |-> g[i]]
    OBVIOUS
  <2> HIDE DEF g
  <2>5. ASSUME NEW i \in 0..m
        PROVE  g[i] = IF i = 0 THEN Start(acc)
                      ELSE ApplyNext(snapshot, accepted, g[i - 1], resolutions[i])
    <3>1. CASE i = m
      <4>1. m # 0 /\ g[m - 1] = f[m - 1]
        BY <2>3
      <4> QED BY <2>3, <3>1, <4>1
    <3>2. CASE i \in 0..(m - 1)
      <4>1. i # 0 => g[i - 1] = f[i - 1]
        BY <2>3, <3>2
      <4> QED BY <2>2, <2>3, <3>2, <4>1
    <3> QED BY <3>1, <3>2
  <2>6. Is(g, m)
    BY <2>4, <2>5 DEF IsRounds
  <2> HIDE DEF Is
  <2> QED BY <2>6
<1> HIDE DEF S
<1>3. n \in S
  BY <1>1, <1>2, CountingUp
<1> QED BY <1>3 DEF S

\* The loop of applyAccountSyncResolutionPlan, round by round.
IsLoop(done, acc, resolutions, snapshot, accepted) ==
  /\ done[0] = Start(acc)
  /\ \A i \in 1..Len(resolutions) :
       done[i] = ApplyNext(snapshot, accepted, done[i - 1], resolutions[i])
  /\ Rounds(acc, resolutions, snapshot, accepted) = done[Len(resolutions)]

LEMMA RoundsLoop ==
  ASSUME NEW acc, NEW resolutions, NEW snapshot, NEW accepted,
         Len(resolutions) \in Nat
  PROVE  \E done : IsLoop(done, acc, resolutions, snapshot, accepted)
<1> DEFINE n == Len(resolutions)
           Is(f) == IsRounds(f, acc, resolutions, snapshot, accepted, n)
           done == CHOOSE f : Is(f)
<1>1. \E f : Is(f)
  BY RoundsExist
<1>2. Is(done)
  <2> HIDE DEF Is
  <2> QED BY <1>1
<1>3. Rounds(acc, resolutions, snapshot, accepted) = done[n]
  BY DEF Rounds, IsRounds, Start
<1> HIDE DEF done
<1>4. /\ done[0] = Start(acc)
      /\ \A i \in 1..n :
           done[i] = ApplyNext(snapshot, accepted, done[i - 1], resolutions[i])
  BY <1>2 DEF IsRounds
<1> QED BY <1>3, <1>4 DEF IsLoop

\* recomputeReviewStateFromEvents, event by event.
Reviewed(item, e) == ItemAfter(OrNew(item, e.createdAt), e)

IsRecomputing(f, base, events, at, n) ==
  f = [i \in 0..n |-> IF i = 0 THEN base
                      ELSE IF i \in at THEN Reviewed(f[i - 1], events[i])
                      ELSE f[i - 1]]

LEMMA RecomputingExists ==
  ASSUME NEW base, NEW events, NEW at, NEW n \in Nat
  PROVE  \E f : IsRecomputing(f, base, events, at, n)
<1> DEFINE Is(f, m) == IsRecomputing(f, base, events, at, m)
           S == {m \in Nat : \E f : Is(f, m)}
<1>1. 0 \in S
  <2> DEFINE f == [i \in 0..0 |-> base]
  <2>1. Is(f, 0)
    BY DEF IsRecomputing
  <2> HIDE DEF Is, f
  <2> QED BY <2>1
<1>2. ASSUME NEW m \in 1..n, m - 1 \in S
      PROVE  m \in S
  <2>1. PICK f : Is(f, m - 1)
    BY <1>2
  <2> DEFINE next == IF m \in at THEN Reviewed(f[m - 1], events[m]) ELSE f[m - 1]
             g    == [i \in 0..m |-> IF i = m THEN next ELSE f[i]]
  <2>2. \A i \in 0..(m - 1) :
          f[i] = IF i = 0 THEN base
                 ELSE IF i \in at THEN Reviewed(f[i - 1], events[i]) ELSE f[i - 1]
    BY <2>1 DEF IsRecomputing
  <2>3. g[m] = next /\ \A i \in 0..(m - 1) : g[i] = f[i]
    OBVIOUS
  <2>4. g = [i \in 0..m |-> g[i]]
    OBVIOUS
  <2> HIDE DEF g
  <2>5. ASSUME NEW i \in 0..m
        PROVE  g[i] = IF i = 0 THEN base
                      ELSE IF i \in at THEN Reviewed(g[i - 1], events[i]) ELSE g[i - 1]
    <3>1. CASE i = m
      <4>1. m # 0 /\ g[m - 1] = f[m - 1]
        BY <2>3
      <4> QED BY <2>3, <3>1, <4>1
    <3>2. CASE i \in 0..(m - 1)
      <4>1. i # 0 => g[i - 1] = f[i - 1]
        BY <2>3, <3>2
      <4> QED BY <2>2, <2>3, <3>2, <4>1
    <3> QED BY <3>1, <3>2
  <2>6. Is(g, m)
    BY <2>4, <2>5 DEF IsRecomputing
  <2> HIDE DEF Is
  <2> QED BY <2>6
<1> HIDE DEF S
<1>3. n \in S
  BY <1>1, <1>2, CountingUp
<1> QED BY <1>3 DEF S

IsReplay(item, base, events, at) ==
  /\ item[0] = base
  /\ \A i \in 1..Len(events) :
       item[i] = IF i \in at THEN Reviewed(item[i - 1], events[i]) ELSE item[i - 1]
  /\ Recompute(base, events, at) = item[Len(events)]

LEMMA RecomputeReplays ==
  ASSUME NEW base, NEW events, NEW at, Len(events) \in Nat
  PROVE  \E item : IsReplay(item, base, events, at)
<1> DEFINE n == Len(events)
           Is(f) == IsRecomputing(f, base, events, at, n)
           item == CHOOSE f : Is(f)
<1>1. \E f : Is(f)
  BY RecomputingExists
<1>2. Is(item)
  <2> HIDE DEF Is
  <2> QED BY <1>1
<1>3. Recompute(base, events, at) = item[n]
  BY DEF Recompute, IsRecomputing, Reviewed
<1> HIDE DEF item
<1>4. /\ item[0] = base
      /\ \A i \in 1..n :
           item[i] = IF i \in at THEN Reviewed(item[i - 1], events[i]) ELSE item[i - 1]
  BY <1>2 DEF IsRecomputing
<1> QED BY <1>3, <1>4 DEF IsReplay

-----------------------------------------------------------------------------
(* What the adapter's operations write                                       *)

AccountFields == {"savedWords", "reviewState", "reviewEvents", "dailyStats",
                  "packProgress", "upgradeInterest", "audits", "processed",
                  "syncVersion"}

HasFields(acc) == DOMAIN acc = AccountFields

\* What is remembered of the keys
Keeps(next, acc) == next.processed = acc.processed

Remembers(next, acc, key, fingerprint) ==
  /\ DOMAIN next.processed = DOMAIN acc.processed \cup {key}
  /\ next.processed[key].fingerprint = fingerprint
  /\ \A k \in DOMAIN acc.processed : k # key => next.processed[k] = acc.processed[k]

LEMMA AuditWrites ==
  ASSUME NEW acc, HasFields(acc), NEW next, next = RecordSyncAudit(acc).account
  PROVE  HasFields(next) /\ Learning(next) = Learning(acc) /\ Keeps(next, acc)
<1>1. next = [[acc EXCEPT !.audits = @ + 1] EXCEPT !.syncVersion = @ + 1]
  BY DEF RecordSyncAudit, Answer, Advance
<1> QED BY <1>1 DEF HasFields, AccountFields, Learning, Keeps

LEMMA RememberWrites ==
  ASSUME NEW acc, HasFields(acc), NEW key, NEW fingerprint, NEW reason,
         NEW next, next = Remember(acc, key, fingerprint, reason)
  PROVE  /\ HasFields(next) /\ Learning(next) = Learning(acc)
         /\ Remembers(next, acc, key, fingerprint)
<1> DEFINE memo  == [fingerprint |-> fingerprint, reason |-> reason]
           memos == [k \in DOMAIN acc.processed \cup {key} |->
                       IF k = key THEN memo ELSE acc.processed[k]]
<1>1. next = [acc EXCEPT !.processed = memos]
  BY DEF Remember
<1>2. memo.fingerprint = fingerprint
  OBVIOUS
<1> HIDE DEF memo
<1>3. /\ DOMAIN memos = DOMAIN acc.processed \cup {key} /\ memos[key] = memo
      /\ \A k \in DOMAIN acc.processed : k # key => memos[k] = acc.processed[k]
  OBVIOUS
<1> HIDE DEF memos
<1>4. HasFields(next) /\ Learning(next) = Learning(acc) /\ next.processed = memos
  BY <1>1 DEF HasFields, AccountFields, Learning
<1> QED BY <1>2, <1>3, <1>4 DEF Remembers

\* recordSavedWord: the word and its state
SavesWord(next, acc, word, item) ==
  /\ next.savedWords = [acc.savedWords EXCEPT ![word.slug] = word]
  /\ next.reviewState = [acc.reviewState EXCEPT ![word.slug] = item]
  /\ next.reviewEvents = acc.reviewEvents /\ next.dailyStats = acc.dailyStats
  /\ next.packProgress = acc.packProgress
  /\ next.upgradeInterest = acc.upgradeInterest

LEMMA SaveWrites ==
  ASSUME NEW acc, HasFields(acc), NEW word, NEW key, NEW item,
         NEW next, next = SaveNewWord(acc, word, key, item)
  PROVE  /\ HasFields(next) /\ SavesWord(next, acc, word, item)
         /\ Remembers(next, acc, key, WordFingerprint(word))
<1> DEFINE words  == [acc.savedWords EXCEPT ![word.slug] = word]
           states == [acc.reviewState EXCEPT ![word.slug] = item]
           saved  == [[acc EXCEPT !.savedWords = words, !.reviewState = states]
                        EXCEPT !.syncVersion = @ + 1]
<1>1. next = Remember(saved, key, WordFingerprint(word), "accepted")
  BY DEF SaveNewWord, Advance
<1> HIDE DEF words, states
<1>2. /\ HasFields(saved) /\ saved.savedWords = words /\ saved.reviewState = states
      /\ saved.reviewEvents = acc.reviewEvents /\ saved.dailyStats = acc.dailyStats
      /\ saved.packProgress = acc.packProgress
      /\ saved.upgradeInterest = acc.upgradeInterest
      /\ saved.processed = acc.processed
  BY DEF HasFields, AccountFields
<1> HIDE DEF saved
<1>3. /\ HasFields(next) /\ Learning(next) = Learning(saved)
      /\ Remembers(next, saved, key, WordFingerprint(word))
  BY <1>1, <1>2, RememberWrites
<1>4. SavesWord(next, acc, word, item)
  BY <1>2, <1>3 DEF SavesWord, Learning, words, states
<1>5. Remembers(next, acc, key, WordFingerprint(word))
  BY <1>2, <1>3 DEF Remembers
<1> QED BY <1>3, <1>4, <1>5

\* recordReviewEvent: the event, its word, its day and its pack
AddsEvent(next, acc, event, key) ==
  LET item   == OrNew(acc.reviewState[event.slug], event.createdAt)
      then   == ItemAfter(item, event)
      day    == DateOf(event.createdAt) IN
  /\ next.savedWords = acc.savedWords
  /\ next.reviewState = [acc.reviewState EXCEPT ![event.slug] = then]
  /\ next.reviewEvents = Append(acc.reviewEvents, StoredEvent(event, key, item, then))
  /\ next.dailyStats =
       [acc.dailyStats EXCEPT ![day] = StatsAfter(@, item, then, event)]
  /\ next.packProgress =
       IF event.pack = None THEN acc.packProgress
       ELSE [acc.packProgress EXCEPT ![event.pack] = PackAfter(@, event)]
  /\ next.upgradeInterest = acc.upgradeInterest

LEMMA AcceptWrites ==
  ASSUME NEW acc, HasFields(acc), NEW event, NEW key,
         NEW next, next = AcceptEvent(acc, event, key)
  PROVE  /\ HasFields(next) /\ AddsEvent(next, acc, event, key)
         /\ Remembers(next, acc, key, EventFingerprint(event))
<1> DEFINE item   == OrNew(acc.reviewState[event.slug], event.createdAt)
           then   == ItemAfter(item, event)
           day    == DateOf(event.createdAt)
           states == [acc.reviewState EXCEPT ![event.slug] = then]
           events == Append(acc.reviewEvents, StoredEvent(event, key, item, then))
           stats  == [acc.dailyStats EXCEPT ![day] = StatsAfter(@, item, then, event)]
           packs  == IF event.pack = None THEN acc.packProgress
                     ELSE [acc.packProgress EXCEPT ![event.pack] = PackAfter(@, event)]
           taken  == [[acc EXCEPT !.reviewEvents = events, !.reviewState = states,
                                  !.dailyStats = stats, !.packProgress = packs]
                        EXCEPT !.syncVersion = @ + 1]
<1>1. next = Remember(taken, key, EventFingerprint(event), "accepted")
  BY DEF AcceptEvent, Advance
<1> HIDE DEF events, states, stats, packs
<1>2. /\ HasFields(taken) /\ taken.savedWords = acc.savedWords
      /\ taken.reviewState = states /\ taken.reviewEvents = events
      /\ taken.dailyStats = stats /\ taken.packProgress = packs
      /\ taken.upgradeInterest = acc.upgradeInterest
      /\ taken.processed = acc.processed
  BY DEF HasFields, AccountFields
<1> HIDE DEF taken
<1>3. /\ HasFields(next) /\ Learning(next) = Learning(taken)
      /\ Remembers(next, taken, key, EventFingerprint(event))
  BY <1>1, <1>2, RememberWrites
<1>4. /\ next.savedWords = acc.savedWords
      /\ next.reviewState = states /\ next.reviewEvents = events
      /\ next.dailyStats = stats /\ next.packProgress = packs
      /\ next.upgradeInterest = acc.upgradeInterest
  BY <1>2, <1>3 DEF Learning
<1>5. AddsEvent(next, acc, event, key)
  BY <1>4 DEF AddsEvent, states, events, stats, packs
<1>6. Remembers(next, acc, key, EventFingerprint(event))
  BY <1>2, <1>3 DEF Remembers
<1> QED BY <1>3, <1>5, <1>6

\* recordUpgradeInterestAttribution: the list of interests
KeepsEvidence(next, acc) ==
  /\ next.savedWords = acc.savedWords /\ next.reviewState = acc.reviewState
  /\ next.reviewEvents = acc.reviewEvents /\ next.dailyStats = acc.dailyStats
  /\ next.packProgress = acc.packProgress

LEMMA InterestAdds ==
  ASSUME NEW acc, HasFields(acc), NEW interest,
         NEW next, next = RecordUpgradeInterest(acc, interest).account
  PROVE  /\ HasFields(next) /\ Keeps(next, acc) /\ KeepsEvidence(next, acc)
         /\ \/ next = acc
            \/ /\ interest.id \notin Range(acc.upgradeInterest)
               /\ next.upgradeInterest = Append(acc.upgradeInterest, interest.id)
<1> DEFINE more == Append(acc.upgradeInterest, interest.id)
           longer == [[acc EXCEPT !.upgradeInterest = more] EXCEPT !.syncVersion = @ + 1]
<1>1. \/ next = acc
      \/ interest.id \notin Range(acc.upgradeInterest) /\ next = longer
  BY DEF RecordUpgradeInterest, Answer, Reject, Advance
<1> HIDE DEF more
<1>2. HasFields(longer) /\ Keeps(longer, acc) /\ KeepsEvidence(longer, acc)
      /\ longer.upgradeInterest = more
  BY DEF HasFields, AccountFields, Keeps, KeepsEvidence
<1>3. Keeps(acc, acc) /\ KeepsEvidence(acc, acc)
  BY DEF Keeps, KeepsEvidence
<1> HIDE DEF longer
<1> QED BY <1>1, <1>2, <1>3 DEF more

-----------------------------------------------------------------------------
(* Sorting                                                                   *)

\* toSortedEvents returns the events it was given.
LEMMA SortedAreEvents ==
  ASSUME NEW events, events \in Seq(Range(events)),
         \A e \in Range(events) : e.createdAt \in Nat /\ e.order \in Nat
  PROVE  /\ Len(SortedEvents(events)) = Len(events)
         /\ DOMAIN SortedEvents(events) = 1..Len(events)
         /\ \A k \in 1..Len(events) : SortedEvents(events)[k] \in Range(events)
<1> DEFINE n == Len(events)
           D == 1..n
           before(i) == {j \in D : Precedes(events, j, i)}
           rank == [i \in D |-> Cardinality(before(i))]
<1>1. DOMAIN events = D /\ n \in Nat
  OBVIOUS
<1>2. \A i \in D : /\ events[i] \in Range(events)
                   /\ events[i].createdAt \in Nat /\ events[i].order \in Nat
  BY <1>1 DEF Range
<1> HIDE DEF n
<1>3. IsFiniteSet(D) /\ Cardinality(D) = n
  BY <1>1, FS_Interval
<1>4. /\ \A i \in D : ~Precedes(events, i, i)
      /\ \A i, j \in D : i # j => Precedes(events, i, j) \/ Precedes(events, j, i)
      /\ \A i, j, k \in D : Precedes(events, i, j) /\ Precedes(events, j, k)
                              => Precedes(events, i, k)
  <2>1. \A i \in D : ~Precedes(events, i, i)
    BY <1>1, <1>2 DEF Precedes
  <2>2. \A i, j \in D : i # j => Precedes(events, i, j) \/ Precedes(events, j, i)
    BY <1>1, <1>2 DEF Precedes
  <2>3. \A i, j, k \in D : Precedes(events, i, j) /\ Precedes(events, j, k)
                             => Precedes(events, i, k)
    BY <1>1, <1>2 DEF Precedes
  <2> QED BY <2>1, <2>2, <2>3
<1>5. ASSUME NEW i \in D
      PROVE  IsFiniteSet(before(i)) /\ Cardinality(before(i)) \in 0..(n - 1)
  <2> DEFINE b == before(i)
  <2>1. b \in SUBSET D /\ i \notin b
    BY <1>4
  <2> HIDE DEF b
  <2>2. IsFiniteSet(b) /\ Cardinality(b) <= n /\ (Cardinality(b) = n => b = D)
    BY <1>3, <2>1, FS_Subset
  <2>3. Cardinality(b) \in Nat
    BY <2>2, FS_CardinalityType
  <2>4. Cardinality(b) # n
    BY <2>1, <2>2
  <2>5. Cardinality(b) \in 0..(n - 1)
    BY <1>1, <2>2, <2>3, <2>4
  <2> QED BY <2>2, <2>5 DEF b
<1>6. ASSUME NEW i \in D, NEW j \in D, Precedes(events, i, j)
      PROVE  rank[i] # rank[j]
  <2> DEFINE a == before(i)  b == before(j)
  <2>1. a \in SUBSET b /\ i \in b /\ i \notin a
    BY <1>4, <1>6
  <2>2. IsFiniteSet(b)
    BY <1>5
  <2>3. rank[i] = Cardinality(a) /\ rank[j] = Cardinality(b)
    OBVIOUS
  <2> HIDE DEF a, b, rank
  <2>4. Cardinality(a) # Cardinality(b)
    BY <2>1, <2>2, FS_Subset
  <2> QED BY <2>3, <2>4
<1>7. rank \in Injection(D, 0..(n - 1))
  <2>1. rank \in [D -> 0..(n - 1)]
    BY <1>5
  <2> HIDE DEF rank
  <2>2. \A i, j \in D : rank[i] = rank[j] => i = j
    BY <1>4, <1>6
  <2> QED BY <2>1, <2>2 DEF Injection, IsInjective
<1>8. rank \in Surjection(D, 0..(n - 1))
  <2>1. IsFiniteSet(0..(n - 1)) /\ Cardinality(0..(n - 1)) = n
    <3>1. n - 1 \in Int /\ (0 > n - 1 => n = 0) /\ n - 1 - 0 + 1 = n
      BY <1>1
    <3> QED BY <3>1, FS_Interval
  <2> HIDE DEF rank
  <2> QED BY <1>3, <1>7, <2>1, FS_Injection
<1>9. ASSUME NEW k \in D
      PROVE  \E i \in D : Cardinality({j \in D : Precedes(events, j, i)}) = k - 1
  <2>1. k - 1 \in 0..(n - 1)
    BY <1>1
  <2>2. \E i \in D : rank[i] = k - 1
    <3> HIDE DEF rank
    <3> QED BY <1>8, <2>1 DEF Surjection
  <2> QED BY <2>2
<1>10. SortedEvents(events) =
         [k \in D |-> events[CHOOSE i \in D :
            Cardinality({j \in D : Precedes(events, j, i)}) = k - 1]]
  BY <1>1 DEF SortedEvents
<1> DEFINE at(k) == CHOOSE i \in D : Cardinality({j \in D : Precedes(events, j, i)}) = k - 1
<1>11. \A k \in D : at(k) \in D
  BY <1>9
<1>12. SortedEvents(events) = [k \in D |-> events[at(k)]]
  BY <1>10
<1> HIDE DEF at, rank, before
<1>13. SortedEvents(events) \in [D -> Range(events)]
  BY <1>2, <1>11, <1>12
<1>14. SortedEvents(events) \in Seq(Range(events)) /\ Len(SortedEvents(events)) = n
  BY <1>1, <1>13
<1> QED BY <1>12, <1>13, <1>14 DEF n

-----------------------------------------------------------------------------
(* The parts of a plan                                                       *)

LEMMA RangeOfParts ==
  ASSUME NEW X, NEW s \in Seq(X), NEW t \in Seq(X)
  PROVE  s \o t \in Seq(X) /\ Range(s \o t) = Range(s) \cup Range(t)
<1> DEFINE m == Len(s)  n == Len(t)  st == s \o t
<1>1. /\ m \in Nat /\ n \in Nat /\ st \in Seq(X) /\ DOMAIN st = 1..(m + n)
      /\ DOMAIN s = 1..m /\ DOMAIN t = 1..n
      /\ \A i \in 1..m : st[i] = s[i]
      /\ \A i \in 1..n : st[m + i] = t[i]
  OBVIOUS
<1> HIDE DEF m, n, st
<1>2. ASSUME NEW i \in 1..(m + n)
      PROVE  st[i] \in Range(s) \cup Range(t)
  <2>1. CASE i \in 1..m
    BY <1>1, <2>1 DEF Range
  <2>2. CASE i - m \in 1..n
    <3>1. m + (i - m) = i
      BY <1>1
    <3>2. st[i] = t[i - m]
      BY <1>1, <2>2, <3>1
    <3> QED BY <1>1, <2>2, <3>2 DEF Range
  <2>3. i \in 1..m \/ i - m \in 1..n
    BY <1>1
  <2> QED BY <2>1, <2>2, <2>3
<1>3. ASSUME NEW i \in 1..m
      PROVE  s[i] \in Range(st)
  <2>1. i \in 1..(m + n)
    BY <1>1
  <2> QED BY <1>1, <2>1 DEF Range
<1>4. ASSUME NEW i \in 1..n
      PROVE  t[i] \in Range(st)
  <2>1. m + i \in 1..(m + n)
    BY <1>1
  <2> QED BY <1>1, <2>1 DEF Range
<1>5. Range(st) \subseteq Range(s) \cup Range(t)
  BY <1>1, <1>2 DEF Range
<1>6. Range(s) \subseteq Range(st) /\ Range(t) \subseteq Range(st)
  BY <1>1, <1>3, <1>4 DEF Range
<1> QED BY <1>1, <1>5, <1>6 DEF st

IsFlattening(f, ss, n) ==
  f = [i \in 1..n |-> IF i = 1 THEN ss[i] ELSE f[i - 1] \o ss[i]]

LEMMA FlatteningExists ==
  ASSUME NEW ss, NEW n \in Nat
  PROVE  \E f : IsFlattening(f, ss, n)
<1> DEFINE Is(f, m) == IsFlattening(f, ss, m)
           S == {m \in Nat : \E f : Is(f, m)}
<1>1. 0 \in S
  <2> DEFINE f == [i \in 1..0 |-> ss[i]]
  <2>1. Is(f, 0)
    BY DEF IsFlattening
  <2> HIDE DEF Is, f
  <2> QED BY <2>1
<1>2. ASSUME NEW m \in 1..n, m - 1 \in S
      PROVE  m \in S
  <2>1. PICK f : Is(f, m - 1)
    BY <1>2
  <2> DEFINE next == IF m = 1 THEN ss[m] ELSE f[m - 1] \o ss[m]
             g    == [i \in 1..m |-> IF i = m THEN next ELSE f[i]]
  <2>2. \A i \in 1..(m - 1) : f[i] = IF i = 1 THEN ss[i] ELSE f[i - 1] \o ss[i]
    BY <2>1 DEF IsFlattening
  <2>7. next = IF m = 1 THEN ss[m] ELSE f[m - 1] \o ss[m]
    OBVIOUS
  <2> HIDE DEF next
  <2>3. g[m] = next /\ \A i \in 1..(m - 1) : g[i] = f[i]
    OBVIOUS
  <2>4. g = [i \in 1..m |-> g[i]]
    OBVIOUS
  <2> HIDE DEF g
  <2>5. ASSUME NEW i \in 1..m
        PROVE  g[i] = IF i = 1 THEN ss[i] ELSE g[i - 1] \o ss[i]
    <3>1. CASE i = m
      <4>1. m # 1 => g[m - 1] = f[m - 1]
        BY <2>3
      <4> QED BY <2>3, <2>7, <3>1, <4>1
    <3>2. CASE i \in 1..(m - 1)
      <4>1. i # 1 => g[i - 1] = f[i - 1]
        BY <2>3, <3>2
      <4> QED BY <2>2, <2>3, <3>2, <4>1
    <3> QED BY <3>1, <3>2
  <2>6. Is(g, m)
    BY <2>4, <2>5 DEF IsFlattening
  <2> HIDE DEF Is
  <2> QED BY <2>6
<1> HIDE DEF S
<1>3. n \in S
  BY <1>1, <1>2, CountingUp
<1> QED BY <1>3 DEF S

\* Flattened, the parts have the elements they had.
LEMMA FlattenedParts ==
  ASSUME NEW X, NEW ss \in Seq(Seq(X))
  PROVE  /\ FlattenSeq(ss) \in Seq(X)
         /\ \A x : x \in Range(FlattenSeq(ss)) <=> \E i \in DOMAIN ss : x \in Range(ss[i])
<1> DEFINE n == Len(ss)
           Is(f) == IsFlattening(f, ss, n)
           flat == CHOOSE f : Is(f)
<1>1. n \in Nat /\ DOMAIN ss = 1..n /\ \A i \in 1..n : ss[i] \in Seq(X)
  OBVIOUS
<1>2. CASE n = 0
  <2>1. ss = << >> /\ FlattenSeq(ss) = ss
    BY <1>1, <1>2 DEF FlattenSeq
  <2>2. DOMAIN ss = {} /\ ss \in Seq(X)
    BY <2>1
  <2>3. Range(ss) = {}
    BY <2>2 DEF Range
  <2> QED BY <2>1, <2>2, <2>3
<1>3. CASE n # 0
  <2>1. FlattenSeq(ss) = flat[n]
    BY <1>3 DEF FlattenSeq, IsFlattening
  <2>2. Is(flat)
    <3>1. \E f : Is(f)
      BY <1>1, FlatteningExists
    <3> HIDE DEF Is
    <3> QED BY <3>1
  <2> HIDE DEF flat, n
  <2>3. \A i \in 1..n : flat[i] = IF i = 1 THEN ss[i] ELSE flat[i - 1] \o ss[i]
    BY <2>2 DEF IsFlattening
  <2> DEFINE Good(m) == /\ flat[m] \in Seq(X)
                        /\ \A x : x \in Range(flat[m]) <=> \E i \in 1..m : x \in Range(ss[i])
             S == {m \in Nat : m # 0 => Good(m)}
  <2>4. 0 \in S
    OBVIOUS
  <2>5. ASSUME NEW m \in 1..n, m - 1 \in S
        PROVE  m \in S
    <3>1. CASE m = 1
      <4>1. flat[m] = ss[m] /\ \A i : i \in 1..m <=> i = m
        BY <2>3, <3>1
      <4> QED BY <1>1, <4>1
    <3>2. CASE m # 1
      <4>1. flat[m] = flat[m - 1] \o ss[m]
        BY <2>3, <3>2
      <4>2. Good(m - 1)
        BY <2>5, <3>2
      <4>3. flat[m] \in Seq(X) /\ Range(flat[m]) = Range(flat[m - 1]) \cup Range(ss[m])
        BY <1>1, <4>1, <4>2, RangeOfParts
      <4>4. \A i : i \in 1..m <=> (i \in 1..(m - 1) \/ i = m)
        OBVIOUS
      <4>5. \A x : x \in Range(flat[m]) <=> (x \in Range(flat[m - 1]) \/ x \in Range(ss[m]))
        BY <4>3
      <4>6. \A x : x \in Range(flat[m]) <=> \E i \in 1..m : x \in Range(ss[i])
        BY <4>2, <4>4, <4>5
      <4> QED BY <4>3, <4>6
    <3> QED BY <3>1, <3>2
  <2>8. \A m \in 1..n : m - 1 \in S => m \in S
    BY <2>5
  <2> HIDE DEF Good, S
  <2>6. n \in S
    <3>1. n \in 0..n
      BY <1>1
    <3> QED BY <1>1, <2>4, <2>8, <3>1, CountingUp
  <2>7. Good(n)
    BY <1>3, <2>6 DEF S
  <2> QED BY <1>1, <2>1, <2>7 DEF Good
<1> QED BY <1>2, <1>3

-----------------------------------------------------------------------------
(* One event more                                                            *)

\* The event at the end of a sequence, and the positions before it.
Grows(more, events, e) ==
  /\ Len(events) \in Nat /\ DOMAIN events = 1..Len(events)
  /\ Len(more) = Len(events) + 1 /\ DOMAIN more = 1..(Len(events) + 1)
  /\ more[Len(events) + 1] = e
  /\ \A i \in 1..Len(events) : more[i] = events[i]

LEMMA AppendGrows ==
  ASSUME NEW events, events \in Seq(Range(events)), NEW e
  PROVE  /\ Grows(Append(events, e), events, e)
         /\ Append(events, e) \in Seq(Range(Append(events, e)))
         /\ \A x : x \in Range(Append(events, e)) <=> (x \in Range(events) \/ x = e)
<1> DEFINE n == Len(events)  more == Append(events, e)  X == Range(events) \cup {e}
<1>1. events \in Seq(X) /\ n \in Nat /\ DOMAIN events = 1..n
  OBVIOUS
<1>2. /\ more \in Seq(X) /\ Len(more) = n + 1 /\ DOMAIN more = 1..(n + 1)
      /\ more[n + 1] = e /\ \A i \in 1..n : more[i] = events[i]
  BY <1>1
<1> HIDE DEF more, n, X
<1>3. more \in Seq(Range(more))
  BY <1>2 DEF Range
<1>4. \A x : x \in Range(more) <=> (x \in Range(events) \/ x = e)
  <2>1. \A i : i \in 1..(n + 1) <=> (i \in 1..n \/ i = n + 1)
    BY <1>1
  <2> QED BY <1>1, <1>2, <2>1 DEF Range
<1>5. Grows(more, events, e)
  BY <1>1, <1>2 DEF Grows, n
<1> QED BY <1>3, <1>4, <1>5 DEF more

\* The positions of the grown sequence: the last one is among them if x is y.
AtMore(at2, at, n, x, y) ==
  at \subseteq 1..n /\ at2 = IF x = y THEN at \cup {n + 1} ELSE at

LEMMA PositionsGrow ==
  ASSUME NEW more, NEW events, NEW e, Grows(more, events, e)
  PROVE  /\ \A w : AtMore(EventsOn(more, w), EventsOn(events, w), Len(events), e.slug, w)
         /\ \A d : AtMore(EventsOfDay(more, d), EventsOfDay(events, d), Len(events),
                          DateOf(e.createdAt), d)
         /\ \A p : AtMore(EventsOfPack(more, p), EventsOfPack(events, p), Len(events),
                          e.pack, p)
<1> DEFINE n == Len(events)
<1>1. /\ n \in Nat /\ DOMAIN events = 1..n /\ DOMAIN more = 1..(n + 1)
      /\ more[n + 1] = e /\ \A i \in 1..n : more[i] = events[i]
      /\ \A i : i \in 1..(n + 1) <=> (i \in 1..n \/ i = n + 1)
      /\ n + 1 \notin 1..n
  BY DEF Grows
<1> HIDE DEF n
<1>2. \A w : AtMore(EventsOn(more, w), EventsOn(events, w), n, e.slug, w)
  BY <1>1 DEF EventsOn, AtMore
<1>3. \A d : AtMore(EventsOfDay(more, d), EventsOfDay(events, d), n, DateOf(e.createdAt), d)
  BY <1>1 DEF EventsOfDay, AtMore
<1>4. \A p : AtMore(EventsOfPack(more, p), EventsOfPack(events, p), n, e.pack, p)
  BY <1>1 DEF EventsOfPack, AtMore
<1> QED BY <1>2, <1>3, <1>4 DEF n

\* A replay of the grown sequence is the replay of the shorter one and, if it is
\* taken in, of the event at the end.
LEMMA RecomputeGrows ==
  ASSUME NEW more, NEW events, NEW e, Grows(more, events, e), NEW base,
         NEW at2, NEW at, NEW x, NEW y, AtMore(at2, at, Len(events), x, y)
  PROVE  Recompute(base, more, at2) =
           IF x = y THEN Reviewed(Recompute(base, events, at), e)
           ELSE Recompute(base, events, at)
<1> DEFINE n == Len(events)
<1>1. /\ n \in Nat /\ Len(more) = n + 1 /\ more[n + 1] = e
      /\ \A i \in 1..n : more[i] = events[i]
  BY DEF Grows
<1>2. PICK a : IsReplay(a, base, more, at2)
  BY <1>1, RecomputeReplays
<1>3. PICK b : IsReplay(b, base, events, at)
  BY <1>1, RecomputeReplays
<1>4. \A i \in 1..n : i \in at2 <=> i \in at
  BY <1>1 DEF AtMore
<1>5. n + 1 \in at2 <=> x = y
  BY <1>1 DEF AtMore
<1>6. /\ a[0] = base /\ Recompute(base, more, at2) = a[n + 1]
      /\ \A i \in 1..(n + 1) :
           a[i] = IF i \in at2 THEN Reviewed(a[i - 1], more[i]) ELSE a[i - 1]
  BY <1>1, <1>2 DEF IsReplay
<1>7. /\ b[0] = base /\ Recompute(base, events, at) = b[n]
      /\ \A i \in 1..n :
           b[i] = IF i \in at THEN Reviewed(b[i - 1], events[i]) ELSE b[i - 1]
  BY <1>3 DEF IsReplay
<1> HIDE DEF n
<1> DEFINE S == {i \in Nat : a[i] = b[i]}
<1>8. 0 \in S
  BY <1>6, <1>7
<1>9. ASSUME NEW i \in 1..n, i - 1 \in S
      PROVE  i \in S
  <2>1. a[i - 1] = b[i - 1] /\ i \in 1..(n + 1) /\ i \in Nat
    BY <1>1, <1>9
  <2>2. a[i] = IF i \in at2 THEN Reviewed(a[i - 1], more[i]) ELSE a[i - 1]
    BY <1>6, <2>1
  <2>3. b[i] = IF i \in at THEN Reviewed(b[i - 1], events[i]) ELSE b[i - 1]
    BY <1>7
  <2>4. more[i] = events[i] /\ (i \in at2 <=> i \in at)
    BY <1>1, <1>4
  <2> QED BY <2>1, <2>2, <2>3, <2>4
<1> HIDE DEF S
<1>10. n \in S
  <2>1. n \in 0..n
    BY <1>1
  <2> QED BY <1>1, <1>8, <1>9, <2>1, CountingUp
<1>11. a[n] = b[n]
  BY <1>10 DEF S
<1>12. a[n + 1] = IF n + 1 \in at2 THEN Reviewed(a[n], e) ELSE a[n]
  <2>1. n + 1 \in 1..(n + 1) /\ n + 1 - 1 = n
    BY <1>1
  <2> QED BY <1>1, <1>6, <2>1
<1> QED BY <1>5, <1>6, <1>7, <1>11, <1>12

\* Nothing replayed leaves the item where it began.
LEMMA RecomputeNothing ==
  ASSUME NEW events, Len(events) \in Nat, NEW base
  PROVE  Recompute(base, events, {}) = base
<1> DEFINE n == Len(events)
<1>1. PICK a : IsReplay(a, base, events, {})
  BY RecomputeReplays
<1>2. /\ a[0] = base /\ Recompute(base, events, {}) = a[n]
      /\ \A i \in 1..n : a[i] = a[i - 1]
  BY <1>1 DEF IsReplay
<1> DEFINE S == {i \in Nat : a[i] = base}
<1>3. 0 \in S /\ \A i \in 1..n : i - 1 \in S => i \in S
  BY <1>2
<1> HIDE DEF S
<1>4. n \in Nat /\ n \in 0..n
  OBVIOUS
<1> HIDE DEF n
<1>5. n \in S
  BY <1>3, <1>4, CountingUp
<1> QED BY <1>2, <1>5 DEF S

\* Counting the positions up to one of them.
LEMMA RanksIn ==
  ASSUME NEW n \in Nat, NEW at \in SUBSET (1..n)
  PROVE  /\ IsFiniteSet(at) /\ Cardinality(at) \in Nat
         /\ Cardinality(at \cup {n + 1}) = Cardinality(at) + 1
         /\ \A i \in at : /\ Cardinality({j \in at : j <= i}) \in 1..Cardinality(at)
                          /\ {j \in at \cup {n + 1} : j <= i} = {j \in at : j <= i}
         /\ {j \in at \cup {n + 1} : j <= n + 1} = at \cup {n + 1}
<1>1. IsFiniteSet(1..n)
  BY FS_Interval
<1>2. IsFiniteSet(at)
  BY <1>1, FS_Subset
<1>3. Cardinality(at) \in Nat
  BY <1>2, FS_CardinalityType
<1>4. n + 1 \notin at /\ \A j \in at : j \in Nat /\ j <= n
  OBVIOUS
<1>5. Cardinality(at \cup {n + 1}) = Cardinality(at) + 1
  BY <1>2, <1>4, FS_AddElement
<1>6. ASSUME NEW i \in at
      PROVE  /\ Cardinality({j \in at : j <= i}) \in 1..Cardinality(at)
             /\ {j \in at \cup {n + 1} : j <= i} = {j \in at : j <= i}
  <2> DEFINE low == {j \in at : j <= i}
  <2>1. low \in SUBSET at /\ i \in low
    BY <1>4
  <2>2. {j \in at \cup {n + 1} : j <= i} = low
    BY <1>4
  <2> HIDE DEF low
  <2>3. IsFiniteSet(low) /\ Cardinality(low) <= Cardinality(at)
    BY <1>2, <2>1, FS_Subset
  <2>4. Cardinality(low) \in Nat /\ Cardinality(low) # 0
    BY <2>1, <2>3, FS_CardinalityType, FS_EmptySet
  <2>5. Cardinality(low) \in 1..Cardinality(at)
    BY <1>3, <2>3, <2>4
  <2> QED BY <2>2, <2>5 DEF low
<1>7. {j \in at \cup {n + 1} : j <= n + 1} = at \cup {n + 1}
  <2>1. \A j \in at : j <= n + 1
    BY <1>4
  <2>2. n + 1 <= n + 1
    OBVIOUS
  <2>3. \A j \in at \cup {n + 1} : j <= n + 1
    BY <2>1, <2>2
  <2> QED BY <2>3, Zenon
<1>8. \A i \in at : /\ Cardinality({j \in at : j <= i}) \in 1..Cardinality(at)
                     /\ {j \in at \cup {n + 1} : j <= i} = {j \in at : j <= i}
  BY <1>6, Zenon
<1> QED BY <1>2, <1>3, <1>5, <1>7, <1>8, Zenon

\* A list of events stays one when another event is stored, and with it added
\* lists that event too.
ListsOn(from2, from, more, events, e, at2, at, x, y) ==
  /\ Grows(more, events, e) /\ AtMore(at2, at, Len(events), x, y)
  /\ from \in Seq(EventNames) /\ Lists(from, events, at)
  /\ from2 = IF x = y THEN Append(from, e.eventId) ELSE from

LEMMA ListsGrow ==
  ASSUME NEW more, NEW events, NEW e, NEW at2, NEW at, NEW x, NEW y, NEW from,
         NEW from2, ListsOn(from2, from, more, events, e, at2, at, x, y)
  PROVE  /\ Lists(from2, more, at2)
         /\ Cardinality(at2) = IF x = y THEN Cardinality(at) + 1 ELSE Cardinality(at)
<1> DEFINE n == Len(events)  k == Cardinality(at)  rank(i) == Cardinality({j \in at : j <= i})
<1>1. /\ n \in Nat /\ more[n + 1] = e /\ \A i \in 1..n : more[i] = events[i]
  BY DEF ListsOn, Grows
<1>2. at \in SUBSET (1..n) /\ at2 = IF x = y THEN at \cup {n + 1} ELSE at
  BY DEF ListsOn, AtMore
<1> HIDE DEF n
<1>3. /\ k \in Nat /\ Cardinality(at \cup {n + 1}) = k + 1
      /\ \A i \in at : /\ rank(i) \in 1..k
                       /\ {j \in at \cup {n + 1} : j <= i} = {j \in at : j <= i}
      /\ {j \in at \cup {n + 1} : j <= n + 1} = at \cup {n + 1}
  BY <1>1, <1>2, RanksIn
<1>4. Len(from) = k /\ \A i \in at : from[rank(i)] = events[i].eventId
  BY DEF ListsOn, Lists
<1>5. CASE x # y
  <2>1. at2 = at /\ from2 = from
    BY <1>2, <1>5 DEF ListsOn
  <2>2. \A i \in at : more[i] = events[i]
    BY <1>1, <1>2
  <2> QED BY <1>4, <1>5, <2>1, <2>2 DEF Lists
<1>6. CASE x = y
  <2>1. at2 = at \cup {n + 1} /\ from2 = Append(from, e.eventId) /\ from \in Seq(EventNames)
    BY <1>2, <1>6 DEF ListsOn
  <2>2. /\ Len(from2) = k + 1 /\ from2[k + 1] = e.eventId
        /\ \A i \in 1..k : from2[i] = from[i]
    BY <1>4, <2>1
  <2>3. ASSUME NEW i \in at2
        PROVE  from2[Cardinality({j \in at2 : j <= i})] = more[i].eventId
    <3>1. CASE i \in at
      <4>1. {j \in at2 : j <= i} = {j \in at : j <= i}
        BY <1>3, <2>1, <3>1
      <4>2. from2[rank(i)] = events[i].eventId
        BY <1>3, <1>4, <2>2, <3>1
      <4>3. more[i] = events[i]
        BY <1>1, <1>2, <3>1
      <4> QED BY <4>1, <4>2, <4>3
    <3>2. CASE i = n + 1
      <4>1. {j \in at2 : j <= i} = at \cup {n + 1}
        BY <1>3, <2>1, <3>2
      <4>2. Cardinality({j \in at2 : j <= i}) = k + 1
        BY <1>3, <4>1
      <4> QED BY <1>1, <2>2, <3>2, <4>2
    <3> QED BY <2>1, <3>1, <3>2
  <2>4. Cardinality(at2) = k + 1
    BY <1>3, <2>1
  <2> QED BY <1>6, <2>2, <2>3, <2>4 DEF Lists
<1> QED BY <1>5, <1>6

-----------------------------------------------------------------------------
(* A stored event                                                            *)

\* What the engine, the rows and the lists read of an event
SameAnswer(e, event) ==
  /\ e.eventId = event.eventId /\ e.slug = event.slug /\ e.pack = event.pack
  /\ e.result = event.result /\ e.speed = event.speed
  /\ e.confidence = event.confidence /\ e.usedHint = event.usedHint
  /\ e.createdAt = event.createdAt

LEMMA StoredAnswer ==
  ASSUME NEW event, DOMAIN event = EventFields, NEW key, NEW item, NEW next
  PROVE  /\ SameAnswer(StoredEvent(event, key, item, next), event)
         /\ StoredEvent(event, key, item, next).key = key
  BY DEF StoredEvent, SameAnswer, EventFields

\* The engine makes the same of them.
LEMMA SameAfter ==
  ASSUME NEW e, NEW event, SameAnswer(e, event), NEW item
  PROVE  ItemAfter(item, e) = ItemAfter(item, event)
<1>1. BoxAfter(item, e) = BoxAfter(item, event)
  BY DEF SameAnswer, BoxAfter, ShouldImprove, ShouldAdvanceFromCorrect,
         ShouldAllowSmallImprovement
<1>2. WeakScoreAfter(item, e) = WeakScoreAfter(item, event)
  BY DEF SameAnswer, WeakScoreAfter, WrongIncrease, CorrectDecrease
<1> QED BY <1>1, <1>2 DEF SameAnswer, ItemAfter

-----------------------------------------------------------------------------
(* The parts of an account, one event later                                  *)

LEMMA HeldOnceGrows ==
  ASSUME NEW more, NEW events, NEW e, Grows(more, events, e), HeldOnce(events),
         \A i \in 1..Len(events) : events[i].eventId # e.eventId /\ events[i].key # e.key
  PROVE  HeldOnce(more)
<1> DEFINE n == Len(events)
<1>1. /\ n \in Nat /\ DOMAIN events = 1..n /\ DOMAIN more = 1..(n + 1)
      /\ more[n + 1] = e /\ \A i \in 1..n : more[i] = events[i]
      /\ \A i : i \in 1..(n + 1) <=> (i \in 1..n \/ i = n + 1)
  BY DEF Grows
<1>2. \A i \in 1..n : more[i].eventId # e.eventId /\ more[i].key # e.key
  BY <1>1
<1> HIDE DEF n
<1>3. ASSUME NEW i \in DOMAIN more, NEW j \in DOMAIN more,
             more[i].eventId = more[j].eventId \/ more[i].key = more[j].key
      PROVE  i = j
  <2>1. CASE i \in 1..n /\ j \in 1..n
    BY <1>1, <1>3, <2>1 DEF HeldOnce
  <2>2. CASE i = n + 1 /\ j \in 1..n
    BY <1>1, <1>2, <1>3, <2>2
  <2>3. CASE i \in 1..n /\ j = n + 1
    BY <1>1, <1>2, <1>3, <2>3
  <2> QED BY <1>1, <2>1, <2>2, <2>3
<1> QED BY <1>3 DEF HeldOnce

\* The word's state follows, and so do those of the other words.
LEMMA StateGrows ==
  ASSUME NEW more, NEW events, NEW e, Grows(more, events, e),
         NEW event, SameAnswer(e, event), EngineAnswer(event),
         NEW w, NEW item \in Item \cup {None}, StateFollows(events, item, w),
         NEW then, then = IF event.slug = w
                          THEN ItemAfter(OrNew(item, event.createdAt), event) ELSE item
  PROVE  then \in Item \cup {None} /\ StateFollows(more, then, w)
<1> DEFINE at == EventsOn(events, w)  at2 == EventsOn(more, w)
<1>1. AtMore(at2, at, Len(events), e.slug, w) /\ e.slug = event.slug
  BY PositionsGrow DEF SameAnswer
<1>2. None \notin Item
  BY NamesAssumption
<1>3. \A base : Recompute(base, more, at2) =
                  IF e.slug = w THEN Reviewed(Recompute(base, events, at), e)
                  ELSE Recompute(base, events, at)
  <2> HIDE DEF at, at2
  <2> QED BY <1>1, RecomputeGrows
<1>4. CASE event.slug # w
  <2>1. at2 = at /\ then = item
    BY <1>1, <1>4 DEF AtMore
  <2>2. \A base : Recompute(base, more, at2) = Recompute(base, events, at)
    BY <1>1, <1>3, <1>4
  <2> QED BY <2>1, <2>2 DEF StateFollows
<1>5. CASE event.slug = w
  <2> DEFINE old == OrNew(item, event.createdAt)
  <2>1. old \in Item
    BY NewItemType DEF OrNew, EngineAnswer
  <2>2. Recompute(NewItem(old.createdAt), events, at) = old
    <3>1. CASE item = None
      <4>1. at = {} /\ old = NewItem(event.createdAt)
        BY <3>1 DEF StateFollows, OrNew
      <4>2. old.createdAt = event.createdAt
        BY <4>1 DEF NewItem
      <4>3. Len(events) \in Nat
        BY DEF Grows
      <4>4. Recompute(NewItem(old.createdAt), events, {}) = NewItem(old.createdAt)
        BY <4>3, RecomputeNothing
      <4> QED BY <4>1, <4>2, <4>4
    <3>2. CASE item # None
      BY <3>2 DEF StateFollows, OrNew
    <3> QED BY <3>1, <3>2
  <2>3. then = ItemAfter(old, event)
    BY <1>5
  <2> HIDE DEF old, at, at2
  <2>4. then \in Item /\ then.createdAt = old.createdAt
    BY <2>1, <2>3, ItemAfterType, ItemAfterFields
  <2>5. Reviewed(old, e) = then
    <3>1. OrNew(old, e.createdAt) = old
      BY <1>2, <2>1 DEF OrNew
    <3> QED BY <2>3, <3>1, SameAfter DEF Reviewed
  <2>6. Recompute(NewItem(then.createdAt), more, at2) = then
    BY <1>1, <1>3, <1>5, <2>2, <2>4, <2>5
  <2>7. then # None
    BY <1>2, <2>4
  <2> QED BY <2>4, <2>6, <2>7 DEF StateFollows, at2
<1> QED BY <1>4, <1>5

\* The rows name events of the account.
Named(row, events) ==
  row # None => \A i \in DOMAIN row.from :
                  \E e \in Range(events) : e.eventId = row.from[i]

\* A list one name longer
LEMMA NamesGrow ==
  ASSUME NEW from, from \in Seq(EventNames), NEW id \in EventNames,
         NEW from2, from2 = Append(from, id)
  PROVE  /\ from2 \in Seq(EventNames)
         /\ \A i \in DOMAIN from2 : from2[i] = id \/ (i \in DOMAIN from /\ from2[i] = from[i])
  OBVIOUS

DayFollows(events, row, d) ==
  LET on == EventsOfDay(events, d) IN
  RowFollows(events, row, on) /\ (row # None => row.stats.reviewed = Cardinality(on))

LEMMA NothingListed == \A events : Lists(<< >>, events, {}) /\ Cardinality({}) = 0
  BY FS_EmptySet DEF Lists

LEMMA DayGrows ==
  ASSUME NEW more, NEW events, NEW e, Grows(more, events, e),
         \A x : x \in Range(more) <=> (x \in Range(events) \/ x = e),
         NEW event, SameAnswer(e, event), event.eventId \in EventNames,
         NEW d, NEW row \in DayRow \cup {None}, DayFollows(events, row, d),
         Named(row, events), NEW item, NEW next,
         NEW row2, row2 = IF DateOf(event.createdAt) = d
                          THEN StatsAfter(row, item, next, event) ELSE row
  PROVE  row2 \in DayRow \cup {None} /\ DayFollows(more, row2, d) /\ Named(row2, more)
<1> DEFINE at == EventsOfDay(events, d)  at2 == EventsOfDay(more, d)
           day == DateOf(e.createdAt)
           from == IF row = None THEN << >> ELSE row.from
           from2 == IF day = d THEN Append(from, e.eventId) ELSE from
<1>1. /\ AtMore(at2, at, Len(events), day, d) /\ e.createdAt = event.createdAt
      /\ e.eventId = event.eventId
  BY PositionsGrow DEF SameAnswer
<1>2. from \in Seq(EventNames)
  BY DEF DayRow
<1>3. Lists(from, events, at)
  <2>1. CASE row = None
    BY <2>1, NothingListed DEF DayFollows, RowFollows
  <2>2. CASE row # None
    BY <2>2 DEF DayFollows, RowFollows
  <2> QED BY <2>1, <2>2
<1>4. from2 = IF day = d THEN Append(from, e.eventId) ELSE from
  OBVIOUS
<1> HIDE DEF at, at2, day, from, from2
<1>5. /\ Lists(from2, more, at2)
      /\ Cardinality(at2) = IF day = d THEN Cardinality(at) + 1 ELSE Cardinality(at)
  <2>1. ListsOn(from2, from, more, events, e, at2, at, day, d)
    BY <1>1, <1>2, <1>3, <1>4 DEF ListsOn
  <2> QED BY <2>1, ListsGrow
<1>6. CASE day # d
  <2>1. row2 = row /\ at2 = at
    BY <1>1, <1>6 DEF day, AtMore
  <2>2. RowFollows(more, row, at2)
    BY <1>4, <1>5, <1>6, <2>1 DEF RowFollows, DayFollows, from, at
  <2>3. Named(row, more)
    BY DEF Named
  <2> QED BY <2>1, <2>2, <2>3 DEF DayFollows, at, at2
<1>7. CASE day = d
  <2> DEFINE stats == IF row = None THEN EmptyDailyStats ELSE row.stats
             stats2 == DailyStatsAfter(stats, item, next, event, TRUE)
             list == IF row = None THEN <<event.eventId>> ELSE Append(row.from, event.eventId)
  <2>1. row2 = [stats |-> stats2, from |-> list]
    BY <1>1, <1>7 DEF StatsAfter, day
  <2>2. stats \in DailyStats /\ stats.reviewed = Cardinality(at)
    <3>1. CASE row = None
      <4>1. at = {} /\ stats = EmptyDailyStats
        BY <3>1 DEF DayFollows, RowFollows, at
      <4> QED BY <4>1, NothingListed DEF EmptyDailyStats, DailyStats
    <3>2. CASE row # None
      BY <3>2 DEF DayFollows, DayRow, at
    <3> QED BY <3>1, <3>2
  <2> HIDE DEF stats
  <2>3. stats2 \in DailyStats /\ stats2.reviewed = stats.reviewed + 1
    <3> DEFINE yes == TRUE
    <3>1. yes \in BOOLEAN /\ stats2 = DailyStatsAfter(stats, item, next, event, yes)
      OBVIOUS
    <3> HIDE DEF at, yes, stats2
    <3> QED BY <2>2, <3>1, DailyStatsAfterType, DailyStatsAfterFields
  <2> HIDE DEF stats2
  <2>4. list = from2
    <3>1. row = None => <<event.eventId>> = Append(<< >>, event.eventId)
      OBVIOUS
    <3> QED BY <1>1, <1>4, <1>7, <3>1 DEF from
  <2>5. /\ from2 \in Seq(EventNames)
        /\ \A i \in DOMAIN from2 :
             from2[i] = e.eventId \/ (i \in DOMAIN from /\ from2[i] = from[i])
    BY <1>1, <1>2, <1>4, <1>7, NamesGrow
  <2> HIDE DEF list, from2
  <2>6. row2 \in DayRow /\ row2.stats = stats2 /\ row2.from = from2
    BY <2>1, <2>3, <2>4, <2>5 DEF DayRow
  <2>7. row2 # None
    BY <2>6, NamesAssumption
  <2>8. DayFollows(more, row2, d)
    BY <1>5, <1>7, <2>2, <2>3, <2>6, <2>7 DEF DayFollows, RowFollows, at2
  <2>9. \A i \in DOMAIN from : \E x \in Range(events) : x.eventId = from[i]
    BY DEF Named, from
  <2>10. Named(row2, more)
    BY <2>5, <2>6, <2>9 DEF Named
  <2> QED BY <2>6, <2>8, <2>10
<1> QED BY <1>6, <1>7

PackFollows(events, row, p) ==
  LET in == EventsOfPack(events, p) IN
  RowFollows(events, row, in) /\ (row # None => row.reviewed = Cardinality(in))

LEMMA PackGrows ==
  ASSUME NEW more, NEW events, NEW e, Grows(more, events, e),
         \A x : x \in Range(more) <=> (x \in Range(events) \/ x = e),
         \A x \in Range(events) : x.eventId # e.eventId,
         NEW event, SameAnswer(e, event), event.eventId \in EventNames,
         NEW p, NEW row \in PackRow \cup {None}, PackFollows(events, row, p),
         Named(row, events),
         NEW row2, row2 = IF event.pack = p THEN PackAfter(row, event) ELSE row
  PROVE  row2 \in PackRow \cup {None} /\ PackFollows(more, row2, p) /\ Named(row2, more)
<1> DEFINE at == EventsOfPack(events, p)  at2 == EventsOfPack(more, p)
           in == e.pack
           from == IF row = None THEN << >> ELSE row.from
           from2 == IF in = p THEN Append(from, e.eventId) ELSE from
<1>1. /\ AtMore(at2, at, Len(events), in, p) /\ e.pack = event.pack
      /\ e.eventId = event.eventId
  BY PositionsGrow DEF SameAnswer
<1>2. from \in Seq(EventNames)
  BY DEF PackRow
<1>3. Lists(from, events, at)
  <2>1. CASE row = None
    BY <2>1, NothingListed DEF PackFollows, RowFollows
  <2>2. CASE row # None
    BY <2>2 DEF PackFollows, RowFollows
  <2> QED BY <2>1, <2>2
<1>4. from2 = IF in = p THEN Append(from, e.eventId) ELSE from
  OBVIOUS
<1> HIDE DEF at, at2, in, from, from2
<1>5. /\ Lists(from2, more, at2)
      /\ Cardinality(at2) = IF in = p THEN Cardinality(at) + 1 ELSE Cardinality(at)
  <2>1. ListsOn(from2, from, more, events, e, at2, at, in, p)
    BY <1>1, <1>2, <1>3, <1>4 DEF ListsOn
  <2> QED BY <2>1, ListsGrow
<1>6. CASE in # p
  <2>1. row2 = row /\ at2 = at
    BY <1>1, <1>6 DEF in, AtMore
  <2>2. RowFollows(more, row, at2)
    BY <1>4, <1>5, <1>6, <2>1 DEF RowFollows, PackFollows, from, at
  <2>3. Named(row, more)
    BY DEF Named
  <2> QED BY <2>1, <2>2, <2>3 DEF PackFollows, at, at2
<1>7. CASE in = p
  <2> DEFINE old == IF row = None THEN [reviewed |-> 0, correct |-> 0, from |-> << >>]
                    ELSE row
  <2>1. /\ old.reviewed \in Nat /\ old.correct \in Nat /\ old.from = from
        /\ old.reviewed = Cardinality(at)
    <3>1. CASE row = None
      <4>1. at = {} /\ old = [reviewed |-> 0, correct |-> 0, from |-> << >>]
        BY <3>1 DEF PackFollows, RowFollows, at
      <4> QED BY <3>1, <4>1, NothingListed DEF from
    <3>2. CASE row # None
      BY <3>2 DEF PackFollows, PackRow, at, from
    <3> QED BY <3>1, <3>2
  <2>2. \A i \in DOMAIN from : \E x \in Range(events) : x.eventId = from[i]
    BY DEF Named, from
  <2>3. e.eventId \notin Range(from)
    BY <2>2 DEF Range
  <2>4. row2 = [reviewed |-> old.reviewed + 1,
                correct |-> old.correct + One(event.result = "correct"),
                from |-> Append(old.from, event.eventId)]
    <3>1. row2 = PackAfter(row, event)
      BY <1>1, <1>7 DEF in
    <3>2. event.eventId \notin Range(old.from)
      BY <1>1, <2>1, <2>3
    <3> QED BY <3>1, <3>2 DEF PackAfter
  <2> HIDE DEF old
  <2>5. /\ from2 \in Seq(EventNames)
        /\ \A i \in DOMAIN from2 :
             from2[i] = e.eventId \/ (i \in DOMAIN from /\ from2[i] = from[i])
    BY <1>1, <1>2, <1>4, <1>7, NamesGrow
  <2>6. Append(old.from, event.eventId) = from2
    BY <1>1, <1>4, <1>7, <2>1
  <2> HIDE DEF from2
  <2>7. One(event.result = "correct") \in Nat
    BY OneType
  <2>8. row2 \in PackRow /\ row2.reviewed = old.reviewed + 1 /\ row2.from = from2
    BY <2>1, <2>4, <2>5, <2>6, <2>7 DEF PackRow
  <2>9. row2 # None
    BY <2>8, NamesAssumption
  <2>10. PackFollows(more, row2, p)
    BY <1>5, <1>7, <2>1, <2>8, <2>9 DEF PackFollows, RowFollows, at2
  <2>11. Named(row2, more)
    BY <2>2, <2>5, <2>8 DEF Named
  <2> QED BY <2>8, <2>10, <2>11
<1> QED BY <1>6, <1>7

-----------------------------------------------------------------------------
(* The inductive invariant of an account                                     *)

IsStored(e) ==
  /\ EngineAnswer(e) /\ DateOf(e.createdAt) \in Dates
  /\ e.eventId \in EventNames /\ e.slug \in Words /\ e.pack \in Packs \cup {None}

AccountRows(acc) ==
  /\ HasFields(acc) /\ DOMAIN acc.savedWords = Words
  /\ acc.reviewState \in [Words -> Item \cup {None}]
  /\ acc.reviewEvents \in Seq(Range(acc.reviewEvents))
  /\ \A e \in Range(acc.reviewEvents) : IsStored(e)
  /\ acc.dailyStats \in [Dates -> DayRow \cup {None}]
  /\ acc.packProgress \in [Packs -> PackRow \cup {None}]
  /\ acc.upgradeInterest \in Seq(Range(acc.upgradeInterest))

RowsNamed(acc) ==
  /\ \A d \in Dates : Named(acc.dailyStats[d], acc.reviewEvents)
  /\ \A p \in Packs : Named(acc.packProgress[p], acc.reviewEvents)

\* A key is remembered as long as an event bears it, and what is remembered of a
\* write was done.
KeysKnown(acc) == \A e \in Range(acc.reviewEvents) : e.key \in DOMAIN acc.processed

MemosDone(acc) == \A k \in DOMAIN acc.processed :
  LET fingerprint == acc.processed[k].fingerprint IN
  /\ \A word : fingerprint = WordFingerprint(word) => acc.savedWords[word.slug] # None
  /\ \A event \in Arriving :
       fingerprint = EventFingerprint(event) => IsKnownEvent(acc, event)

AccountInv(acc) ==
  /\ AccountRows(acc) /\ FollowsEvents(acc) /\ RowsNamed(acc)
  /\ KeysKnown(acc) /\ MemosDone(acc)

\* Nothing but the learning and the keys matters to it.
SameMemos(next, acc) == Learning(next) = Learning(acc) /\ Keeps(next, acc)

LEMMA SameKeepsInv ==
  ASSUME NEW acc, AccountInv(acc), NEW next, HasFields(next), SameMemos(next, acc)
  PROVE  AccountInv(next)
<1>1. /\ next.savedWords = acc.savedWords /\ next.reviewState = acc.reviewState
      /\ next.reviewEvents = acc.reviewEvents /\ next.dailyStats = acc.dailyStats
      /\ next.packProgress = acc.packProgress
      /\ next.upgradeInterest = acc.upgradeInterest /\ next.processed = acc.processed
  BY DEF SameMemos, Learning, Keeps
<1>2. AccountRows(next)
  BY <1>1 DEF AccountInv, AccountRows
<1>3. FollowsEvents(next)
  BY <1>1 DEF AccountInv, FollowsEvents
<1>4. RowsNamed(next)
  BY <1>1 DEF AccountInv, RowsNamed
<1>5. KeysKnown(next)
  BY <1>1 DEF AccountInv, KeysKnown
<1>6. MemosDone(next)
  BY <1>1 DEF AccountInv, MemosDone, IsKnownEvent
<1> QED BY <1>2, <1>3, <1>4, <1>5, <1>6 DEF AccountInv

LEMMA EmptyInv == AccountInv(EmptyAccount)
<1> DEFINE acc == EmptyAccount
<1>1. /\ HasFields(acc) /\ acc.savedWords = [w \in Words |-> None]
      /\ acc.reviewState = [w \in Words |-> None] /\ acc.reviewEvents = << >>
      /\ acc.dailyStats = [d \in Dates |-> None]
      /\ acc.packProgress = [p \in Packs |-> None]
      /\ acc.upgradeInterest = << >> /\ acc.processed = << >>
  BY DEF EmptyAccount, HasFields, AccountFields
<1> HIDE DEF acc
<1>2. DOMAIN << >> = {} /\ Range(<< >>) = {}
  BY DEF Range
<1>3. AccountRows(acc)
  BY <1>1, <1>2 DEF AccountRows
<1>4. FollowsEvents(acc)
  <2>1. HeldOnce(<< >>)
    BY <1>2 DEF HeldOnce
  <2>2. \A w \in Words : StateFollows(<< >>, acc.reviewState[w], w)
    BY <1>1, <1>2 DEF StateFollows, EventsOn
  <2>3. \A d \in Dates : acc.dailyStats[d] = None /\ EventsOfDay(<< >>, d) = {}
    BY <1>1, <1>2 DEF EventsOfDay
  <2>4. \A p \in Packs : acc.packProgress[p] = None /\ EventsOfPack(<< >>, p) = {}
    BY <1>1, <1>2 DEF EventsOfPack
  <2> QED BY <1>1, <2>1, <2>2, <2>3, <2>4 DEF FollowsEvents, RowFollows
<1>5. RowsNamed(acc)
  BY <1>1 DEF RowsNamed, Named
<1>6. KeysKnown(acc) /\ MemosDone(acc)
  BY <1>1, <1>2 DEF KeysKnown, MemosDone
<1> QED BY <1>3, <1>4, <1>5, <1>6 DEF AccountInv, acc

\* The fingerprints tell the writes apart.
LEMMA FingerprintsDiffer ==
  ASSUME NEW event, NEW word
  PROVE  /\ EventFingerprint(event) # WordFingerprint(word)
         /\ \A other : WordFingerprint(word) = WordFingerprint(other) => other = word
         /\ \A other : (DOMAIN event = EventFields /\ DOMAIN other = EventFields
                        /\ EventFingerprint(event) = EventFingerprint(other))
                         => other.eventId = event.eventId
<1>1. EventFingerprint(event) # WordFingerprint(word)
  <2>1. EventFingerprint(event).kind = "record_review_event"
        /\ WordFingerprint(word).kind = "record_saved_word"
    BY DEF EventFingerprint, WordFingerprint
  <2> QED BY <2>1
<1>2. \A other : WordFingerprint(word) = WordFingerprint(other) => other = word
  <2>1. \A other : WordFingerprint(other).payload = other
    BY DEF WordFingerprint
  <2> QED BY <2>1
<1>3. \A other : DOMAIN other = EventFields =>
        EventFingerprint(other).payload.eventId = other.eventId
  BY DEF EventFingerprint, EventFields
<1> QED BY <1>1, <1>2, <1>3

-----------------------------------------------------------------------------
(* What the adapter answers                                                  *)

EventRefused(answer, acc) ==
  answer.status = "rejected" /\ answer.account = acc

EventAgain(answer, acc, event, key) ==
  /\ answer.status = "duplicate_noop" /\ answer.account = acc
  /\ key \in DOMAIN acc.processed
  /\ acc.processed[key].fingerprint = EventFingerprint(event)

EventKnown(answer, acc, event, key) ==
  /\ answer.status = "duplicate_noop" /\ IsKnownEvent(acc, event)
  /\ answer.account = Remember(acc, key, EventFingerprint(event), "duplicate_review_event")

EventTaken(answer, acc, event, key) ==
  /\ answer.status = "accepted" /\ event.valid
  /\ key \notin DOMAIN acc.processed /\ ~IsKnownEvent(acc, event)
  /\ answer.account = AcceptEvent(acc, event, key)

LEMMA EventOutcomes ==
  ASSUME NEW acc, NEW event, NEW key, NEW answer,
         answer = RecordReviewEvent(acc, event, key)
  PROVE  \/ EventRefused(answer, acc)
         \/ EventAgain(answer, acc, event, key)
         \/ EventKnown(answer, acc, event, key)
         \/ EventTaken(answer, acc, event, key)
<1> DEFINE item == OrNew(acc.reviewState[event.slug], event.createdAt)
           known == Remember(acc, key, EventFingerprint(event), "duplicate_review_event")
           taken == AcceptEvent(acc, event, key)
           later == ItemAfter(item, event)
<1>1. CASE key = None \/ ~event.valid
  <2>1. \E reason : answer = Reject(acc, reason)
    BY <1>1 DEF RecordReviewEvent
  <2> QED BY <2>1 DEF Reject, Answer, EventRefused
<1>2. CASE key # None /\ event.valid /\ key \in DOMAIN acc.processed
  <2>1. answer = AnswerProcessed(acc, key, EventFingerprint(event),
                                 "duplicate_review_event", item)
    BY <1>2 DEF RecordReviewEvent
  <2> HIDE DEF item
  <2>2. CASE acc.processed[key].fingerprint # EventFingerprint(event)
    BY <2>1, <2>2 DEF AnswerProcessed, Reject, Answer, EventRefused
  <2>3. CASE acc.processed[key].fingerprint = EventFingerprint(event)
    BY <1>2, <2>1, <2>3 DEF AnswerProcessed, Answer, EventAgain
  <2> QED BY <2>2, <2>3
<1>3. CASE key # None /\ event.valid /\ key \notin DOMAIN acc.processed
  <2>1. answer = IF IsKnownEvent(acc, event)
                 THEN Answer(known, "duplicate_noop", "duplicate_review_event", item)
                 ELSE Answer(taken, "accepted", "accepted", later)
    BY <1>3 DEF RecordReviewEvent
  <2> HIDE DEF item, known, taken, later
  <2>2. CASE IsKnownEvent(acc, event)
    BY <2>1, <2>2 DEF Answer, EventKnown, known
  <2>3. CASE ~IsKnownEvent(acc, event)
    BY <1>3, <2>1, <2>3 DEF Answer, EventTaken, taken
  <2> QED BY <2>2, <2>3
<1> QED BY <1>1, <1>2, <1>3

WordAgain(answer, acc, word, key) ==
  /\ answer.status = "duplicate_noop" /\ answer.account = acc
  /\ key \in DOMAIN acc.processed
  /\ acc.processed[key].fingerprint = WordFingerprint(word)

WordKnown(answer, acc, word, key) ==
  /\ answer.status = "duplicate_noop" /\ acc.savedWords[word.slug] # None
  /\ answer.account = Remember(acc, key, WordFingerprint(word), "duplicate_saved_word")

WordTaken(answer, acc, word, key) ==
  /\ answer.status = "accepted" /\ word.valid
  /\ acc.savedWords[word.slug] = None
  /\ answer.account =
       SaveNewWord(acc, word, key, OrNew(acc.reviewState[word.slug], word.savedAt))

LEMMA WordOutcomes ==
  ASSUME NEW acc, NEW word, NEW key, NEW answer,
         answer = RecordSavedWord(acc, word, key)
  PROVE  \/ EventRefused(answer, acc)
         \/ WordAgain(answer, acc, word, key)
         \/ WordKnown(answer, acc, word, key)
         \/ WordTaken(answer, acc, word, key)
<1> DEFINE item == OrNew(acc.reviewState[word.slug], word.savedAt)
           known == Remember(acc, key, WordFingerprint(word), "duplicate_saved_word")
           taken == SaveNewWord(acc, word, key, item)
<1>1. CASE key = None \/ ~word.valid
  <2>1. \E reason : answer = Reject(acc, reason)
    BY <1>1 DEF RecordSavedWord
  <2> QED BY <2>1 DEF Reject, Answer, EventRefused
<1>2. CASE key # None /\ word.valid /\ key \in DOMAIN acc.processed
  <2>1. answer = AnswerProcessed(acc, key, WordFingerprint(word),
                                 "duplicate_saved_word", item)
    BY <1>2 DEF RecordSavedWord
  <2> HIDE DEF item
  <2>2. CASE acc.processed[key].fingerprint # WordFingerprint(word)
    BY <2>1, <2>2 DEF AnswerProcessed, Reject, Answer, EventRefused
  <2>3. CASE acc.processed[key].fingerprint = WordFingerprint(word)
    BY <1>2, <2>1, <2>3 DEF AnswerProcessed, Answer, WordAgain
  <2> QED BY <2>2, <2>3
<1>3. CASE key # None /\ word.valid /\ key \notin DOMAIN acc.processed
  <2>1. answer = IF acc.savedWords[word.slug] # None
                 THEN Answer(known, "duplicate_noop", "duplicate_saved_word", item)
                 ELSE Answer(taken, "accepted", "accepted", item)
    BY <1>3 DEF RecordSavedWord
  <2>2. CASE acc.savedWords[word.slug] # None
    <3> HIDE DEF known, taken, item
    <3> QED BY <2>1, <2>2 DEF Answer, WordKnown, known
  <2>3. CASE acc.savedWords[word.slug] = None
    <3>1. answer.status = "accepted" /\ answer.account = taken
      <4> HIDE DEF known, taken, item
      <4> QED BY <2>1, <2>3 DEF Answer
    <3> QED BY <1>3, <2>3, <3>1 DEF WordTaken
  <2> QED BY <2>2, <2>3
<1> QED BY <1>1, <1>2, <1>3

-----------------------------------------------------------------------------
(* The writes keep the invariant                                             *)

\* A key remembered for what is done
LEMMA RememberKeepsInv ==
  ASSUME NEW acc, AccountInv(acc), NEW next, HasFields(next),
         Learning(next) = Learning(acc), NEW key, NEW fingerprint,
         Remembers(next, acc, key, fingerprint),
         \A word : fingerprint = WordFingerprint(word) => acc.savedWords[word.slug] # None,
         \A event \in Arriving :
           fingerprint = EventFingerprint(event) => IsKnownEvent(acc, event)
  PROVE  AccountInv(next)
<1>1. /\ next.savedWords = acc.savedWords /\ next.reviewState = acc.reviewState
      /\ next.reviewEvents = acc.reviewEvents /\ next.dailyStats = acc.dailyStats
      /\ next.packProgress = acc.packProgress
      /\ next.upgradeInterest = acc.upgradeInterest
  BY DEF Learning
<1>2. AccountRows(next)
  BY <1>1 DEF AccountInv, AccountRows
<1>3. FollowsEvents(next)
  BY <1>1 DEF AccountInv, FollowsEvents
<1>4. RowsNamed(next)
  BY <1>1 DEF AccountInv, RowsNamed
<1>5. KeysKnown(next)
  BY <1>1 DEF AccountInv, KeysKnown, Remembers
<1>6. MemosDone(next)
  <2> SUFFICES ASSUME NEW k \in DOMAIN next.processed
      PROVE  LET memo == next.processed[k].fingerprint IN
             /\ \A word : memo = WordFingerprint(word) => acc.savedWords[word.slug] # None
             /\ \A event \in Arriving :
                  memo = EventFingerprint(event) => IsKnownEvent(acc, event)
    BY <1>1 DEF MemosDone, IsKnownEvent
  <2>1. CASE k = key
    BY <2>1 DEF Remembers
  <2>2. CASE k # key
    <3>1. k \in DOMAIN acc.processed /\ next.processed[k] = acc.processed[k]
      BY <2>2 DEF Remembers
    <3> QED BY <3>1 DEF AccountInv, MemosDone
  <2> QED BY <2>1, <2>2
<1> QED BY <1>2, <1>3, <1>4, <1>5, <1>6 DEF AccountInv

\* recordSavedWord of a new word
LEMMA SaveKeepsInv ==
  ASSUME NEW acc, AccountInv(acc), NEW word, word # None,
         word.slug \in Words, word.savedAt \in Nat, NEW key,
         NEW next, next = SaveNewWord(acc, word, key,
                            OrNew(acc.reviewState[word.slug], word.savedAt))
  PROVE  AccountInv(next)
<1> DEFINE old == acc.reviewState[word.slug]  item == OrNew(old, word.savedAt)
<1>0. HasFields(acc) /\ AccountRows(acc) /\ FollowsEvents(acc)
  BY DEF AccountInv, AccountRows
<1>1. /\ HasFields(next) /\ SavesWord(next, acc, word, item)
      /\ Remembers(next, acc, key, WordFingerprint(word))
  BY <1>0, SaveWrites
<1>2. /\ next.savedWords = [acc.savedWords EXCEPT ![word.slug] = word]
      /\ next.reviewState = [acc.reviewState EXCEPT ![word.slug] = item]
      /\ next.reviewEvents = acc.reviewEvents /\ next.dailyStats = acc.dailyStats
      /\ next.packProgress = acc.packProgress
      /\ next.upgradeInterest = acc.upgradeInterest
  BY <1>1 DEF SavesWord
<1>3. old \in Item \cup {None} /\ item \in Item
  BY <1>0, NewItemType DEF AccountRows, OrNew
<1> DEFINE events == acc.reviewEvents
<1>4. StateFollows(events, item, word.slug)
  <2>1. StateFollows(events, old, word.slug)
    BY <1>0 DEF FollowsEvents
  <2>2. CASE old = None
    <3>1. EventsOn(events, word.slug) = {}
      BY <2>1, <2>2 DEF StateFollows
    <3>2. item = NewItem(word.savedAt) /\ item.createdAt = word.savedAt
      BY <2>2 DEF OrNew, NewItem
    <3>3. Len(events) \in Nat
      BY <1>0 DEF AccountRows
    <3>4. Recompute(NewItem(item.createdAt), events, {}) = item
      BY <3>2, <3>3, RecomputeNothing
    <3>5. item # None
      BY <1>3, NamesAssumption
    <3> QED BY <3>1, <3>4, <3>5 DEF StateFollows
  <2>3. CASE old # None
    BY <2>1, <2>3 DEF OrNew
  <2> QED BY <2>2, <2>3
<1> HIDE DEF item
<1>5. AccountRows(next)
  <2>1. next.reviewState \in [Words -> Item \cup {None}]
    BY <1>0, <1>2, <1>3 DEF AccountRows
  <2>2. DOMAIN next.savedWords = Words
    BY <1>0, <1>2 DEF AccountRows
  <2> QED BY <1>0, <1>1, <1>2, <2>1, <2>2 DEF AccountRows
<1>6. FollowsEvents(next)
  <2>1. \A w \in Words : StateFollows(events, next.reviewState[w], w)
    <3> TAKE w \in Words
    <3>1. next.reviewState[w] = IF w = word.slug THEN item ELSE acc.reviewState[w]
      BY <1>0, <1>2 DEF AccountRows
    <3> QED BY <1>0, <1>4, <3>1 DEF FollowsEvents
  <2> QED BY <1>0, <1>2, <2>1 DEF FollowsEvents
<1>7. RowsNamed(next)
  BY <1>2 DEF AccountInv, RowsNamed
<1>8. KeysKnown(next)
  BY <1>1, <1>2 DEF AccountInv, KeysKnown, Remembers
<1>9. MemosDone(next)
  <2>1. \A w : acc.savedWords[w] # None => next.savedWords[w] # None
    <3> TAKE w
    <3>1. CASE w = word.slug
      BY <1>0, <1>2, <3>1 DEF AccountRows
    <3>2. CASE w # word.slug
      BY <1>0, <1>2, <3>2 DEF AccountRows
    <3> QED BY <3>1, <3>2
  <2>2. next.savedWords[word.slug] = word
    BY <1>0, <1>2 DEF AccountRows
  <2>3. \A event : IsKnownEvent(acc, event) => IsKnownEvent(next, event)
    BY <1>2 DEF IsKnownEvent
  <2> SUFFICES ASSUME NEW k \in DOMAIN next.processed
      PROVE  LET memo == next.processed[k].fingerprint IN
             /\ \A x : memo = WordFingerprint(x) => next.savedWords[x.slug] # None
             /\ \A event \in Arriving :
                  memo = EventFingerprint(event) => IsKnownEvent(next, event)
    BY DEF MemosDone
  <2>4. CASE k = key
    <3>1. next.processed[k].fingerprint = WordFingerprint(word)
      BY <1>1, <2>4 DEF Remembers
    <3>2. \A x : WordFingerprint(word) = WordFingerprint(x) => x = word
      BY FingerprintsDiffer
    <3>3. \A event : EventFingerprint(event) # WordFingerprint(word)
      BY FingerprintsDiffer
    <3> QED BY <2>2, <3>1, <3>2, <3>3
  <2>5. CASE k # key
    <3>1. k \in DOMAIN acc.processed /\ next.processed[k] = acc.processed[k]
      BY <1>1, <2>5 DEF Remembers
    <3> QED BY <2>1, <2>3, <3>1 DEF AccountInv, MemosDone
  <2> QED BY <2>4, <2>5
<1> QED BY <1>5, <1>6, <1>7, <1>8, <1>9 DEF AccountInv

\* recordReviewEvent of a new event
LEMMA AcceptKeepsInv ==
  ASSUME NEW acc, AccountInv(acc), NEW event \in Arriving, event.valid, NEW key,
         key \notin DOMAIN acc.processed, ~IsKnownEvent(acc, event),
         NEW next, next = AcceptEvent(acc, event, key)
  PROVE  AccountInv(next)
<1> DEFINE events == acc.reviewEvents
           more   == next.reviewEvents
           item   == OrNew(acc.reviewState[event.slug], event.createdAt)
           later  == ItemAfter(item, event)
           e      == StoredEvent(event, key, item, later)
           day    == DateOf(event.createdAt)
<1>0. HasFields(acc) /\ AccountRows(acc) /\ FollowsEvents(acc) /\ RowsNamed(acc)
  BY DEF AccountInv, AccountRows
<1>1. /\ DOMAIN event = EventFields /\ EngineAnswer(event) /\ event.slug \in Words
      /\ event.pack \in Packs \cup {None} /\ day \in Dates /\ event.eventId \in EventNames
  BY EventsAssumption DEF EventNames
<1>2. /\ HasFields(next) /\ AddsEvent(next, acc, event, key)
      /\ Remembers(next, acc, key, EventFingerprint(event))
  BY <1>0, AcceptWrites
<1>3. SameAnswer(e, event) /\ e.key = key
  BY <1>1, StoredAnswer
<1> HIDE DEF item, later, e
<1>4. /\ next.savedWords = acc.savedWords
      /\ next.reviewState = [acc.reviewState EXCEPT ![event.slug] = later]
      /\ more = Append(events, e)
      /\ next.dailyStats = [acc.dailyStats EXCEPT ![day] = StatsAfter(@, item, later, event)]
      /\ next.packProgress = IF event.pack = None THEN acc.packProgress
                             ELSE [acc.packProgress EXCEPT ![event.pack] = PackAfter(@, event)]
      /\ next.upgradeInterest = acc.upgradeInterest
  BY <1>2 DEF AddsEvent, item, later, e
<1>5. /\ Grows(more, events, e) /\ more \in Seq(Range(more))
      /\ \A x : x \in Range(more) <=> (x \in Range(events) \/ x = e)
  BY <1>0, <1>4, AppendGrows DEF AccountRows
<1>6. /\ \A x \in Range(events) : x.eventId # e.eventId /\ x.key # e.key
      /\ \A i \in 1..Len(events) : events[i] \in Range(events)
  <2>1. \A x \in Range(events) : x.eventId # event.eventId
    BY DEF IsKnownEvent
  <2>2. \A x \in Range(events) : x.key # key
    BY DEF AccountInv, KeysKnown
  <2>3. \A i \in 1..Len(events) : events[i] \in Range(events)
    BY <1>5 DEF Grows, Range
  <2> QED BY <1>3, <2>1, <2>2, <2>3 DEF SameAnswer
<1>7. HeldOnce(more)
  <2>1. HeldOnce(events)
    BY <1>0 DEF FollowsEvents
  <2> QED BY <1>5, <1>6, <2>1, HeldOnceGrows
<1>8. ASSUME NEW w \in Words
      PROVE  next.reviewState[w] \in Item \cup {None} /\ StateFollows(more, next.reviewState[w], w)
  <2> DEFINE old == acc.reviewState[w]  then == next.reviewState[w]
  <2>1. old \in Item \cup {None} /\ StateFollows(events, old, w)
    BY <1>0 DEF AccountRows, FollowsEvents
  <2>2. then = IF event.slug = w THEN ItemAfter(OrNew(old, event.createdAt), event) ELSE old
    BY <1>0, <1>4 DEF AccountRows, item, later
  <2> HIDE DEF old, then, events, more
  <2>3. then \in Item \cup {None} /\ StateFollows(more, then, w)
    BY <1>1, <1>3, <1>5, <2>1, <2>2, StateGrows
  <2> QED BY <2>3 DEF then
<1>9. ASSUME NEW d \in Dates
      PROVE  /\ next.dailyStats[d] \in DayRow \cup {None}
             /\ DayFollows(more, next.dailyStats[d], d) /\ Named(next.dailyStats[d], more)
  <2> DEFINE old == acc.dailyStats[d]  then == next.dailyStats[d]
  <2>1. old \in DayRow \cup {None} /\ DayFollows(events, old, d) /\ Named(old, events)
    BY <1>0 DEF AccountRows, FollowsEvents, DayFollows, RowsNamed
  <2>2. then = IF day = d THEN StatsAfter(old, item, later, event) ELSE old
    BY <1>0, <1>4 DEF AccountRows
  <2> HIDE DEF old, then, events, more
  <2>3. then \in DayRow \cup {None} /\ DayFollows(more, then, d) /\ Named(then, more)
    BY <1>1, <1>3, <1>5, <2>1, <2>2, DayGrows
  <2> QED BY <2>3 DEF then
<1>10. ASSUME NEW p \in Packs
       PROVE  /\ next.packProgress[p] \in PackRow \cup {None}
              /\ PackFollows(more, next.packProgress[p], p)
              /\ Named(next.packProgress[p], more)
  <2> DEFINE old == acc.packProgress[p]  then == next.packProgress[p]
  <2>1. old \in PackRow \cup {None} /\ PackFollows(events, old, p) /\ Named(old, events)
    BY <1>0 DEF AccountRows, FollowsEvents, PackFollows, RowsNamed
  <2>2. p # None
    BY NamesAssumption
  <2>3. then = IF event.pack = p THEN PackAfter(old, event) ELSE old
    BY <1>0, <1>1, <1>4, <2>2 DEF AccountRows
  <2> HIDE DEF old, then, events, more
  <2>4. then \in PackRow \cup {None} /\ PackFollows(more, then, p) /\ Named(then, more)
    BY <1>1, <1>3, <1>5, <1>6, <2>1, <2>3, PackGrows
  <2> QED BY <2>4 DEF then
<1>11. AccountRows(next)
  <2>1. next.reviewState \in [Words -> Item \cup {None}]
    <3>1. /\ DOMAIN next.reviewState = Words
          /\ next.reviewState = [w \in DOMAIN next.reviewState |-> next.reviewState[w]]
      BY <1>0, <1>4 DEF AccountRows
    <3> QED BY <1>8, <3>1
  <2>2. next.dailyStats \in [Dates -> DayRow \cup {None}]
    <3>1. /\ DOMAIN next.dailyStats = Dates
          /\ next.dailyStats = [d \in DOMAIN next.dailyStats |-> next.dailyStats[d]]
      BY <1>0, <1>4 DEF AccountRows
    <3> QED BY <1>9, <3>1
  <2>3. next.packProgress \in [Packs -> PackRow \cup {None}]
    <3>1. /\ DOMAIN next.packProgress = Packs
          /\ next.packProgress = [p \in DOMAIN next.packProgress |-> next.packProgress[p]]
      BY <1>0, <1>4 DEF AccountRows
    <3> QED BY <1>10, <3>1
  <2>4. IsStored(e)
    BY <1>1, <1>3 DEF SameAnswer, IsStored, EngineAnswer
  <2>5. \A x \in Range(more) : IsStored(x)
    BY <1>0, <1>5, <2>4 DEF AccountRows
  <2> HIDE DEF e
  <2> QED BY <1>0, <1>2, <1>4, <1>5, <2>1, <2>2, <2>3, <2>5 DEF AccountRows
<1>12. FollowsEvents(next)
  <2>1. \A w \in Words : StateFollows(more, next.reviewState[w], w)
    BY <1>8
  <2>2. \A d \in Dates : DayFollows(more, next.dailyStats[d], d)
    BY <1>9
  <2>3. \A p \in Packs : PackFollows(more, next.packProgress[p], p)
    BY <1>10
  <2> QED BY <1>7, <2>1, <2>2, <2>3 DEF FollowsEvents, DayFollows, PackFollows
<1>13. RowsNamed(next)
  BY <1>9, <1>10 DEF RowsNamed
<1>14. KeysKnown(next)
  BY <1>2, <1>3, <1>5 DEF AccountInv, KeysKnown, Remembers
<1>15. MemosDone(next)
  <2>1. \A x : IsKnownEvent(acc, x) => IsKnownEvent(next, x)
    BY <1>5 DEF IsKnownEvent
  <2>2. \A x : x.eventId = event.eventId => IsKnownEvent(next, x)
    BY <1>3, <1>5 DEF IsKnownEvent, SameAnswer
  <2> SUFFICES ASSUME NEW k \in DOMAIN next.processed
      PROVE  LET memo == next.processed[k].fingerprint IN
             /\ \A x : memo = WordFingerprint(x) => next.savedWords[x.slug] # None
             /\ \A x \in Arriving :
                  memo = EventFingerprint(x) => IsKnownEvent(next, x)
    BY DEF MemosDone
  <2>4. CASE k = key
    <3>1. next.processed[k].fingerprint = EventFingerprint(event)
      BY <1>2, <2>4 DEF Remembers
    <3>2. \A x : EventFingerprint(event) # WordFingerprint(x)
      BY FingerprintsDiffer
    <3>3. \A x \in Arriving : DOMAIN x = EventFields
      BY EventsAssumption
    <3>4. \A x \in Arriving : EventFingerprint(event) = EventFingerprint(x)
                                => x.eventId = event.eventId
      BY <1>1, <3>3, FingerprintsDiffer
    <3> QED BY <2>2, <3>1, <3>2, <3>4
  <2>5. CASE k # key
    <3>1. k \in DOMAIN acc.processed /\ next.processed[k] = acc.processed[k]
      BY <1>2, <2>5 DEF Remembers
    <3> QED BY <1>4, <2>1, <3>1 DEF AccountInv, MemosDone
  <2> QED BY <2>4, <2>5
<1> QED BY <1>11, <1>12, <1>13, <1>14, <1>15 DEF AccountInv

\* The adapter's writes, whatever they answer
LEMMA EventKeepsInv ==
  ASSUME NEW acc, AccountInv(acc), NEW event \in Arriving, NEW key,
         NEW answer, answer = RecordReviewEvent(acc, event, key)
  PROVE  AccountInv(answer.account)
<1>1. CASE EventRefused(answer, acc) \/ EventAgain(answer, acc, event, key)
  BY <1>1 DEF EventRefused, EventAgain
<1>2. CASE EventKnown(answer, acc, event, key)
  <2> DEFINE next == answer.account  fingerprint == EventFingerprint(event)
  <2>1. next = Remember(acc, key, fingerprint, "duplicate_review_event")
        /\ IsKnownEvent(acc, event)
    BY <1>2 DEF EventKnown
  <2>2. HasFields(acc)
    BY DEF AccountInv, AccountRows
  <2>3. /\ HasFields(next) /\ Learning(next) = Learning(acc)
        /\ Remembers(next, acc, key, fingerprint)
    <3> HIDE DEF next, fingerprint
    <3> QED BY <2>1, <2>2, RememberWrites
  <2>4. \A x : fingerprint # WordFingerprint(x)
    BY FingerprintsDiffer
  <2>5. \A x \in Arriving : fingerprint = EventFingerprint(x) => IsKnownEvent(acc, x)
    <3>1. \A x \in Arriving : DOMAIN x = EventFields
      BY EventsAssumption
    <3>2. \A x \in Arriving : fingerprint = EventFingerprint(x) => x.eventId = event.eventId
      BY <3>1, FingerprintsDiffer
    <3> QED BY <2>1, <3>2 DEF IsKnownEvent
  <2> HIDE DEF next, fingerprint
  <2>6. AccountInv(next)
    BY <2>3, <2>4, <2>5, RememberKeepsInv
  <2> QED BY <2>6 DEF next
<1>3. CASE EventTaken(answer, acc, event, key)
  BY <1>3, AcceptKeepsInv DEF EventTaken
<1> QED BY <1>1, <1>2, <1>3, EventOutcomes

LEMMA WordKeepsInv ==
  ASSUME NEW acc, AccountInv(acc), NEW word, word # None,
         word.valid => word.slug \in Words /\ word.savedAt \in Nat, NEW key,
         NEW answer, answer = RecordSavedWord(acc, word, key)
  PROVE  AccountInv(answer.account)
<1>1. CASE EventRefused(answer, acc) \/ WordAgain(answer, acc, word, key)
  BY <1>1 DEF EventRefused, WordAgain
<1>2. CASE WordKnown(answer, acc, word, key)
  <2> DEFINE next == answer.account  fingerprint == WordFingerprint(word)
  <2>1. next = Remember(acc, key, fingerprint, "duplicate_saved_word")
        /\ acc.savedWords[word.slug] # None
    BY <1>2 DEF WordKnown
  <2>2. HasFields(acc)
    BY DEF AccountInv, AccountRows
  <2>3. /\ HasFields(next) /\ Learning(next) = Learning(acc)
        /\ Remembers(next, acc, key, fingerprint)
    <3> HIDE DEF next, fingerprint
    <3> QED BY <2>1, <2>2, RememberWrites
  <2>4. \A x : fingerprint = WordFingerprint(x) => acc.savedWords[x.slug] # None
    BY <2>1, FingerprintsDiffer
  <2>5. \A x : fingerprint # EventFingerprint(x)
    BY FingerprintsDiffer
  <2> HIDE DEF next, fingerprint
  <2>6. AccountInv(next)
    BY <2>3, <2>4, <2>5, RememberKeepsInv
  <2> QED BY <2>6 DEF next
<1>3. CASE WordTaken(answer, acc, word, key)
  BY <1>3, SaveKeepsInv DEF WordTaken
<1> QED BY <1>1, <1>2, <1>3, WordOutcomes

LEMMA InterestKeepsInv ==
  ASSUME NEW acc, AccountInv(acc), NEW interest,
         NEW next, next = RecordUpgradeInterest(acc, interest).account
  PROVE  AccountInv(next)
<1>1. HasFields(acc) /\ AccountRows(acc)
  BY DEF AccountInv, AccountRows
<1>2. /\ HasFields(next) /\ Keeps(next, acc) /\ KeepsEvidence(next, acc)
      /\ \/ next = acc
         \/ next.upgradeInterest = Append(acc.upgradeInterest, interest.id)
  BY <1>1, InterestAdds
<1>3. CASE next = acc
  BY <1>3
<1>4. CASE next.upgradeInterest = Append(acc.upgradeInterest, interest.id)
  <2>1. /\ next.savedWords = acc.savedWords /\ next.reviewState = acc.reviewState
        /\ next.reviewEvents = acc.reviewEvents /\ next.dailyStats = acc.dailyStats
        /\ next.packProgress = acc.packProgress /\ next.processed = acc.processed
    BY <1>2 DEF KeepsEvidence, Keeps
  <2>2. next.upgradeInterest \in Seq(Range(next.upgradeInterest))
    BY <1>1, <1>4, AppendGrows DEF AccountRows
  <2>3. AccountRows(next)
    BY <1>1, <1>2, <2>1, <2>2 DEF AccountRows
  <2>4. FollowsEvents(next)
    BY <2>1 DEF AccountInv, FollowsEvents
  <2>5. RowsNamed(next)
    BY <2>1 DEF AccountInv, RowsNamed
  <2>6. KeysKnown(next)
    BY <2>1 DEF AccountInv, KeysKnown
  <2>7. MemosDone(next)
    BY <2>1 DEF AccountInv, MemosDone, IsKnownEvent
  <2> QED BY <2>3, <2>4, <2>5, <2>6, <2>7 DEF AccountInv
<1> QED BY <1>2, <1>3, <1>4

LEMMA AuditKeepsInv ==
  ASSUME NEW acc, AccountInv(acc), NEW next, next = RecordSyncAudit(acc).account
  PROVE  AccountInv(next)
<1>1. HasFields(acc)
  BY DEF AccountInv, AccountRows
<1>2. HasFields(next) /\ Learning(next) = Learning(acc) /\ Keeps(next, acc)
  BY <1>1, AuditWrites
<1> QED BY <1>2, SameKeepsInv DEF SameMemos

-----------------------------------------------------------------------------
(* A plan: words, then the sorted events, then states, packs and interests   *)

\* A sequence of at most one element
Single(s) == s = << >> \/ \E x : s = <<x>>

LEMMA SingleIsSeq ==
  ASSUME NEW s, Single(s)
  PROVE  s \in Seq(Range(s)) /\ \A x : s = <<x>> => Range(s) = {x}
<1>1. Range(<< >>) = {} /\ << >> \in Seq({})
  BY DEF Range
<1>2. ASSUME NEW x
      PROVE  Range(<<x>>) = {x} /\ <<x>> \in Seq({x})
  <2>1. DOMAIN <<x>> = {1} /\ <<x>>[1] = x
    OBVIOUS
  <2> QED BY <2>1 DEF Range
<1> QED BY <1>1, <1>2 DEF Single

LEMMA FlattenedAll ==
  ASSUME NEW n \in Nat, NEW ss, ss = [i \in 1..n |-> ss[i]],
         \A i \in 1..n : Single(ss[i])
  PROVE  /\ FlattenSeq(ss) \in Seq(Range(FlattenSeq(ss)))
         /\ \A x : x \in Range(FlattenSeq(ss)) <=> \E i \in 1..n : x \in Range(ss[i])
<1> DEFINE X == UNION {Range(ss[i]) : i \in 1..n}
<1>1. ASSUME NEW i \in 1..n
      PROVE  ss[i] \in Seq(X)
  <2> DEFINE s == ss[i]
  <2>1. s \in Seq(Range(s)) /\ Range(s) \subseteq X
    BY SingleIsSeq
  <2> HIDE DEF X, s
  <2>2. s \in Seq(X)
    BY <2>1
  <2> QED BY <2>2 DEF s
<1> HIDE DEF X
<1>2. ss \in Seq(Seq(X)) /\ DOMAIN ss = 1..n
  <2>1. ss \in [1..n -> Seq(X)]
    BY <1>1
  <2> QED BY <2>1
<1> DEFINE flat == FlattenSeq(ss)
<1>3. /\ flat \in Seq(X)
      /\ \A x : x \in Range(flat) <=> \E i \in 1..n : x \in Range(ss[i])
  BY <1>2, FlattenedParts
<1>4. flat \in Seq(Range(flat))
  <2> HIDE DEF flat
  <2> QED BY <1>3 DEF Range
<1> QED BY <1>3, <1>4

LEMMA WiderSeq ==
  ASSUME NEW s, s \in Seq(Range(s)), NEW X, Range(s) \subseteq X
  PROVE  s \in Seq(X)
  OBVIOUS

\* The elements of three sequences in a row
LEMMA RangeOfThree ==
  ASSUME NEW s, s \in Seq(Range(s)), NEW t, t \in Seq(Range(t)), NEW u, u \in Seq(Range(u))
  PROVE  /\ s \o t \o u \in Seq(Range(s \o t \o u))
         /\ \A x : x \in Range(s \o t \o u) <=> (x \in Range(s) \/ x \in Range(t) \/ x \in Range(u))
<1> DEFINE X == Range(s) \cup Range(t) \cup Range(u)
<1>0. Range(s) \subseteq X /\ Range(t) \subseteq X /\ Range(u) \subseteq X
  OBVIOUS
<1> HIDE DEF X
<1>1. s \in Seq(X) /\ t \in Seq(X) /\ u \in Seq(X)
  BY <1>0, WiderSeq
<1>2. s \o t \in Seq(X) /\ Range(s \o t) = Range(s) \cup Range(t)
  BY <1>1, RangeOfParts
<1> DEFINE st == s \o t  stu == st \o u
<1>7. st \in Seq(X)
  BY <1>2
<1> HIDE DEF st
<1>3. stu \in Seq(X) /\ Range(stu) = Range(st) \cup Range(u)
  BY <1>1, <1>7, RangeOfParts
<1> HIDE DEF stu
<1>4. stu \in Seq(Range(stu))
  BY <1>3 DEF Range
<1>5. stu = s \o t \o u
  BY DEF st, stu
<1>6. \A x : x \in Range(stu) <=> (x \in Range(s) \/ x \in Range(t) \/ x \in Range(u))
  BY <1>2, <1>3 DEF st
<1> QED BY <1>4, <1>5, <1>6

\* A snapshot the resolver can read
Readable(local) ==
  /\ local.reviewEvents \in Seq(Range(local.reviewEvents))
  /\ local.upgradeInterest \in Seq(Range(local.upgradeInterest))
  /\ \A e \in Range(local.reviewEvents) : e.createdAt \in Nat /\ e.order \in Nat

Sorted(local) == SortedEvents(local.reviewEvents)
OnServer(server) == Range(server.reviewEvents)
MergedOf(local, server) == Merged(Sorted(local), OnServer(server))

WordPart(r, planId, local, server) ==
  \E w \in Words : \/ r \in Range(WordResolution(planId, local, server, w))
                   \/ r \in Range(ServerOnlyWord(planId, local, server, w))

RestPart(r, planId, local, server) ==
  LET merged == MergedOf(local, server) IN
  \/ \E w \in Words :
       r \in Range(StateResolution(planId, local, server, Sorted(local), merged, w))
  \/ \E p \in Packs :
       r \in Range(PackResolution(planId, local, server, Sorted(local), merged, p))
  \/ \E i \in DOMAIN local.upgradeInterest :
       r = InterestResolution(planId, local.upgradeInterest[i])

\* The resolutions in their order: a of words, then one for each event
IsPlan(plan, planId, local, server, a) ==
  LET rs == plan.resolutions  m == Len(local.reviewEvents) IN
  /\ plan.planId = planId
  /\ a \in Nat /\ m \in Nat /\ Len(rs) \in Nat /\ a + m <= Len(rs)
  /\ DOMAIN rs = 1..Len(rs)
  /\ \A n \in 1..a : WordPart(rs[n], planId, local, server)
  /\ \A n \in 1..m : rs[a + n] = EventResolution(planId, Sorted(local), OnServer(server), n)
  /\ \A n \in (a + m + 1)..Len(rs) : RestPart(rs[n], planId, local, server)
  /\ \A r : WordPart(r, planId, local, server) \/ RestPart(r, planId, local, server)
              => r \in Range(rs)
  /\ plan.status # "blocked" => \A r \in Range(rs) : r.action # "reject_blocked"

LEMMA SinglesOfPlan ==
  ASSUME NEW planId, NEW local, NEW server, NEW x
  PROVE  /\ Single(WordResolution(planId, local, server, x))
         /\ Single(ServerOnlyWord(planId, local, server, x))
         /\ \A sorted, merged :
              /\ Single(StateResolution(planId, local, server, sorted, merged, x))
              /\ Single(PackResolution(planId, local, server, sorted, merged, x))
<1>1. Single(WordResolution(planId, local, server, x))
  BY DEF WordResolution, Single
<1>2. Single(ServerOnlyWord(planId, local, server, x))
  BY DEF ServerOnlyWord, Single
<1>3. ASSUME NEW sorted, NEW merged
      PROVE  Single(StateResolution(planId, local, server, sorted, merged, x))
  <2> DEFINE own == local.reviewState[x]  kept == server.reviewState[x]
             news == EventsOn(sorted, x) \cap merged
             correct == Cardinality(CorrectIn(server.reviewEvents,
                                              EventsOn(server.reviewEvents, x)))
                        + Cardinality(CorrectIn(sorted, news))
             proposed == IF news = {} THEN None ELSE Recompute(kept, sorted, news)
             plain == Resolution(planId, "review_state", RecomputedAs(proposed, own, kept),
                                 "recompute_from_events", x)
             recompute == [plain EXCEPT !.proposed = proposed]
             say(category, action) ==
               <<Resolution(planId, "review_state", category, action, x)>>
             false == ClaimsMasteryFalsely(own, proposed, kept, correct)
             s == StateResolution(planId, local, server, sorted, merged, x)
  <2>1. s = CASE own = Malformed -> <<Unsupported(planId, x)>>
              [] own # Malformed /\ false -> say("fake_mastery_risk", "reject_blocked")
              [] OTHER ->
                   IF proposed # None THEN <<recompute>>
                   ELSE IF own # None /\ kept # None THEN say(KeptAs(own, kept), "keep_server")
                   ELSE IF own # None THEN say("stale_review_state", "skip_audit_only")
                   ELSE << >>
    BY DEF StateResolution
  <2> HIDE DEF own, kept, news, correct, proposed, false, recompute, s
  <2>2. s = << >> \/ \E q : s = <<q>>
    BY <2>1
  <2> QED BY <2>2 DEF Single, s
<1>4. ASSUME NEW sorted, NEW merged
      PROVE  Single(PackResolution(planId, local, server, sorted, merged, x))
  <2> DEFINE row == local.packProgress[x]
             known == \E e \in Range(server.reviewEvents) \cup {sorted[i] : i \in merged} :
                        e.pack = x
             say(action) == <<Resolution(planId, "pack_progress",
                              "pack_progress_without_event_evidence", action, x)>>
  <2>1. \/ PackResolution(planId, local, server, sorted, merged, x) = << >>
        \/ PackResolution(planId, local, server, sorted, merged, x) = <<Unsupported(planId, x)>>
        \/ PackResolution(planId, local, server, sorted, merged, x) =
             IF known THEN say("recompute_from_events") ELSE say("skip_audit_only")
    BY DEF PackResolution
  <2> HIDE DEF known
  <2> QED BY <2>1 DEF Single
<1> QED BY <1>1, <1>2, <1>3, <1>4

\* Where the elements of three sequences in a row are
LEMMA PlacesOfThree ==
  ASSUME NEW X, NEW s \in Seq(X), NEW t \in Seq(X), NEW u \in Seq(X),
         NEW all, all = s \o t \o u
  PROVE  /\ Len(all) = Len(s) + Len(t) + Len(u) /\ DOMAIN all = 1..Len(all)
         /\ \A n \in 1..Len(s) : all[n] = s[n]
         /\ \A n \in 1..Len(t) : all[Len(s) + n] = t[n]
         /\ \A n \in (Len(s) + Len(t) + 1)..Len(all) :
              n - (Len(s) + Len(t)) \in 1..Len(u) /\ all[n] = u[n - (Len(s) + Len(t))]
<1> DEFINE a == Len(s)  m == Len(t)  b == Len(u)  st == s \o t
<1>1. /\ a \in Nat /\ m \in Nat /\ b \in Nat /\ st \in Seq(X) /\ Len(st) = a + m
      /\ \A n \in 1..a : st[n] = s[n]
      /\ \A n \in 1..m : st[a + n] = t[n]
  OBVIOUS
<1>2. all = st \o u
  OBVIOUS
<1>3. st \in Seq(X) /\ Len(st) \in Nat
  BY <1>1
<1> HIDE DEF st
<1>4. /\ Len(all) = Len(st) + b /\ DOMAIN all = 1..(Len(st) + b)
      /\ \A n \in 1..Len(st) : all[n] = st[n]
      /\ \A n \in 1..b : all[Len(st) + n] = u[n]
  BY <1>2, <1>3
<1> HIDE DEF a, m, b
<1>5. \A n \in 1..a : all[n] = s[n]
  <2> TAKE n \in 1..a
  <2>1. n \in 1..Len(st)
    BY <1>1
  <2> QED BY <1>1, <1>4, <2>1
<1>6. \A n \in 1..m : all[a + n] = t[n]
  <2> TAKE n \in 1..m
  <2>1. a + n \in 1..Len(st)
    BY <1>1
  <2> QED BY <1>1, <1>4, <2>1
<1>7. \A n \in (a + m + 1)..(a + m + b) : n - (a + m) \in 1..b /\ all[n] = u[n - (a + m)]
  <2> TAKE n \in (a + m + 1)..(a + m + b)
  <2>1. n - (a + m) \in 1..b /\ Len(st) + (n - (a + m)) = n
    BY <1>1
  <2>2. all[Len(st) + (n - (a + m))] = u[n - (a + m)]
    BY <1>4, <2>1
  <2> QED BY <2>1, <2>2
<1>8. Len(all) = a + m + b /\ DOMAIN all = 1..(a + m + b)
  BY <1>1, <1>4
<1> QED BY <1>5, <1>6, <1>7, <1>8 DEF a, m, b

\* An element of a family of singles, over the words or the packs in their order
IsFamily(ss, f, names, N) ==
  /\ N = Range(names) /\ names \in Seq(N) /\ \A x \in N : Single(f[x])
  /\ ss = [i \in DOMAIN names |-> f[names[i]]]

LEMMA OverNames ==
  ASSUME NEW names, NEW N, NEW f, NEW ss, IsFamily(ss, f, names, N)
  PROVE  /\ FlattenSeq(ss) \in Seq(Range(FlattenSeq(ss)))
         /\ \A r : r \in Range(FlattenSeq(ss)) <=> \E x \in N : r \in Range(f[x])
<1> DEFINE n == Len(names)  flat == FlattenSeq(ss)
<1>0. /\ N = Range(names) /\ names \in Seq(N) /\ \A x \in N : Single(f[x])
      /\ ss = [i \in DOMAIN names |-> f[names[i]]]
  BY DEF IsFamily
<1>1. n \in Nat /\ DOMAIN names = 1..n
  BY <1>0
<1>2. \A i \in 1..n : names[i] \in N
  BY <1>0, <1>1 DEF Range
<1>3. \A x \in N : \E i \in 1..n : names[i] = x
  BY <1>0, <1>1 DEF Range
<1> HIDE DEF n
<1>4. ss = [i \in 1..n |-> ss[i]] /\ \A i \in 1..n : ss[i] = f[names[i]]
  BY <1>0, <1>1
<1>5. \A i \in 1..n : Single(ss[i])
  BY <1>0, <1>2, <1>4
<1>6. /\ flat \in Seq(Range(flat))
      /\ \A r : r \in Range(flat) <=> \E i \in 1..n : r \in Range(ss[i])
  BY <1>1, <1>4, <1>5, FlattenedAll
<1>7. \A r : r \in Range(flat) <=> \E x \in N : r \in Range(f[x])
  BY <1>2, <1>3, <1>4, <1>6
<1> QED BY <1>6, <1>7

\* resolveAccountSyncConflicts makes a plan.
LEMMA ResolvePlan ==
  ASSUME NEW planId, NEW local, Readable(local), NEW server
  PROVE  \E a : IsPlan(Resolve(planId, local, server), planId, local, server, a)
<1> DEFINE sorted   == Sorted(local)
           onServer == OnServer(server)
           merged   == MergedOf(local, server)
           word   == [w \in Words |-> WordResolution(planId, local, server, w)]
           other  == [w \in Words |-> ServerOnlyWord(planId, local, server, w)]
           state  == [w \in Words |-> StateResolution(planId, local, server, sorted, merged, w)]
           pack   == [p \in Packs |-> PackResolution(planId, local, server, sorted, merged, p)]
           words  == [i \in DOMAIN Slugs |-> WordResolution(planId, local, server, Slugs[i])]
           others == [i \in DOMAIN Slugs |-> ServerOnlyWord(planId, local, server, Slugs[i])]
           states == [i \in DOMAIN Slugs |->
                        StateResolution(planId, local, server, sorted, merged, Slugs[i])]
           packs  == [i \in DOMAIN PackIds |->
                        PackResolution(planId, local, server, sorted, merged, PackIds[i])]
           events == [n \in DOMAIN sorted |-> EventResolution(planId, sorted, onServer, n)]
           interest == [i \in DOMAIN local.upgradeInterest |->
                          InterestResolution(planId, local.upgradeInterest[i])]
           W == FlattenSeq(words)  O == FlattenSeq(others)
           S == FlattenSeq(states)  P == FlattenSeq(packs)
           before == W \o O
           rest == S \o P \o interest
           all == before \o events \o rest
           plan == Resolve(planId, local, server)
           m == Len(local.reviewEvents)
<1>1. /\ plan.planId = planId /\ plan.resolutions = all
      /\ plan.status = IF \E r \in Range(all) : r.action = "reject_blocked"
                       THEN "blocked" ELSE "preview_only"
  BY DEF Resolve, Sorted, OnServer, MergedOf
<1>2. /\ Words = Range(Slugs) /\ Slugs \in Seq(Words)
      /\ Packs = Range(PackIds) /\ PackIds \in Seq(Packs)
  BY NamesAssumption DEF Words, Packs
<1>3. W \in Seq(Range(W)) /\ \A r : r \in Range(W) <=> \E w \in Words : r \in Range(word[w])
  <2>1. words = [i \in DOMAIN Slugs |-> word[Slugs[i]]]
    BY <1>2 DEF Range
  <2>2. \A w \in Words : Single(word[w])
    BY SinglesOfPlan
  <2> HIDE DEF words, word
  <2>3. IsFamily(words, word, Slugs, Words)
    BY <1>2, <2>1, <2>2 DEF IsFamily
  <2> QED BY <2>3, OverNames
<1>4. O \in Seq(Range(O)) /\ \A r : r \in Range(O) <=> \E w \in Words : r \in Range(other[w])
  <2>1. others = [i \in DOMAIN Slugs |-> other[Slugs[i]]]
    BY <1>2 DEF Range
  <2>2. \A w \in Words : Single(other[w])
    BY SinglesOfPlan
  <2> HIDE DEF others, other
  <2>3. IsFamily(others, other, Slugs, Words)
    BY <1>2, <2>1, <2>2 DEF IsFamily
  <2> QED BY <2>3, OverNames
<1>5. S \in Seq(Range(S)) /\ \A r : r \in Range(S) <=> \E w \in Words : r \in Range(state[w])
  <2> HIDE DEF sorted, merged
  <2>1. states = [i \in DOMAIN Slugs |-> state[Slugs[i]]]
    BY <1>2 DEF Range
  <2>2. \A w \in Words : Single(state[w])
    BY SinglesOfPlan
  <2> HIDE DEF states, state
  <2>3. IsFamily(states, state, Slugs, Words)
    BY <1>2, <2>1, <2>2 DEF IsFamily
  <2> QED BY <2>3, OverNames
<1>6. P \in Seq(Range(P)) /\ \A r : r \in Range(P) <=> \E p \in Packs : r \in Range(pack[p])
  <2> HIDE DEF sorted, merged
  <2>1. packs = [i \in DOMAIN PackIds |-> pack[PackIds[i]]]
    BY <1>2 DEF Range
  <2>2. \A p \in Packs : Single(pack[p])
    BY SinglesOfPlan
  <2> HIDE DEF packs, pack
  <2>3. IsFamily(packs, pack, PackIds, Packs)
    BY <1>2, <2>1, <2>2 DEF IsFamily
  <2> QED BY <2>3, OverNames
<1>7. /\ DOMAIN sorted = 1..m /\ m \in Nat
      /\ events \in Seq(Range(events)) /\ Len(events) = m
      /\ \A n \in 1..m : events[n] = EventResolution(planId, sorted, onServer, n)
  <2>1. DOMAIN sorted = 1..m /\ m \in Nat
    BY SortedAreEvents DEF Readable, Sorted
  <2> HIDE DEF sorted, onServer, m
  <2>2. events = [n \in 1..m |-> events[n]] /\ DOMAIN events = 1..m
    BY <2>1
  <2>3. \A n \in 1..m : events[n] = EventResolution(planId, sorted, onServer, n)
    BY <2>1
  <2> HIDE DEF events
  <2>4. events \in [1..m -> Range(events)]
    BY <2>2 DEF Range
  <2> QED BY <2>1, <2>3, <2>4
<1>8. /\ interest \in Seq(Range(interest))
      /\ \A r : r \in Range(interest) <=>
           \E i \in DOMAIN local.upgradeInterest :
             r = InterestResolution(planId, local.upgradeInterest[i])
  <2> DEFINE k == Len(local.upgradeInterest)
  <2>1. k \in Nat /\ DOMAIN local.upgradeInterest = 1..k
    BY DEF Readable
  <2> HIDE DEF k
  <2>2. interest = [i \in 1..k |-> interest[i]] /\ DOMAIN interest = 1..k
        /\ \A i \in 1..k : interest[i] = InterestResolution(planId, local.upgradeInterest[i])
    BY <2>1
  <2> HIDE DEF interest
  <2>3. interest \in [1..k -> Range(interest)]
    BY <2>2 DEF Range
  <2>4. interest \in Seq(Range(interest))
    BY <2>1, <2>3
  <2> QED BY <2>1, <2>2, <2>4 DEF Range
<1>9. \A r : (r \in Range(W) \/ r \in Range(O)) <=> WordPart(r, planId, local, server)
  <2>1. \A w \in Words : word[w] = WordResolution(planId, local, server, w)
                         /\ other[w] = ServerOnlyWord(planId, local, server, w)
    OBVIOUS
  <2> HIDE DEF word, other, W, O
  <2> QED BY <1>3, <1>4, <2>1 DEF WordPart
<1>10. \A r : (r \in Range(S) \/ r \in Range(P) \/ r \in Range(interest))
                <=> RestPart(r, planId, local, server)
  <2>1. \A w \in Words : state[w] = StateResolution(planId, local, server, sorted, merged, w)
    OBVIOUS
  <2>2. \A p \in Packs : pack[p] = PackResolution(planId, local, server, sorted, merged, p)
    OBVIOUS
  <2> HIDE DEF state, pack, S, P, interest
  <2> QED BY <1>5, <1>6, <1>8, <2>1, <2>2 DEF RestPart
<1> HIDE DEF W, O, S, P, interest, events, sorted, onServer, merged, m, plan
<1>11. /\ rest \in Seq(Range(rest))
       /\ \A r : r \in Range(rest) <=> RestPart(r, planId, local, server)
  BY <1>5, <1>6, <1>8, <1>10, RangeOfThree
<1>12. /\ before \in Seq(Range(before))
       /\ \A r : r \in Range(before) <=> WordPart(r, planId, local, server)
  <2>1. << >> \in Seq(Range(<< >>)) /\ Range(<< >>) = {}
    BY DEF Range
  <2>2. W \o << >> = W /\ W \in Seq(Range(W)) /\ O \in Seq(Range(O))
    BY <1>3, <1>4
  <2>3. /\ W \o << >> \o O \in Seq(Range(W \o << >> \o O))
        /\ \A r : r \in Range(W \o << >> \o O) <=>
                    (r \in Range(W) \/ r \in Range(<< >>) \/ r \in Range(O))
    BY <1>3, <1>4, <2>1, RangeOfThree
  <2>4. W \o << >> \o O = before
    BY <2>2
  <2> HIDE DEF before
  <2> QED BY <1>9, <2>1, <2>3, <2>4
<1> HIDE DEF before, rest
<1>13. /\ all \in Seq(Range(all))
       /\ \A r : r \in Range(all) <=>
                   (r \in Range(before) \/ r \in Range(events) \/ r \in Range(rest))
  BY <1>7, <1>11, <1>12, RangeOfThree
<1> DEFINE X == Range(before) \cup Range(events) \cup Range(rest)  a == Len(before)
           b == Len(rest)
<1>14. before \in Seq(X) /\ events \in Seq(X) /\ rest \in Seq(X)
  <2>1. Range(before) \subseteq X /\ Range(events) \subseteq X /\ Range(rest) \subseteq X
    OBVIOUS
  <2> HIDE DEF X
  <2> QED BY <1>7, <1>11, <1>12, <2>1, WiderSeq
<1>15. /\ a \in Nat /\ b \in Nat
       /\ \A n \in 1..a : before[n] \in Range(before)
       /\ \A n \in 1..b : rest[n] \in Range(rest)
  <2>1. DOMAIN before = 1..a /\ DOMAIN rest = 1..b /\ a \in Nat /\ b \in Nat
    BY <1>11, <1>12
  <2> HIDE DEF a, b
  <2> QED BY <2>1 DEF Range
<1> HIDE DEF X, all
<1>16. all = before \o events \o rest
  BY DEF all
<1>17. /\ Len(all) = a + m + b /\ DOMAIN all = 1..Len(all)
       /\ \A n \in 1..a : all[n] = before[n]
       /\ \A n \in 1..m : all[a + n] = events[n]
       /\ \A n \in (a + m + 1)..Len(all) :
            n - (a + m) \in 1..b /\ all[n] = rest[n - (a + m)]
  <2>1. /\ Len(all) = a + Len(events) + b /\ DOMAIN all = 1..Len(all)
        /\ \A n \in 1..a : all[n] = before[n]
        /\ \A n \in 1..Len(events) : all[a + n] = events[n]
        /\ \A n \in (a + Len(events) + 1)..Len(all) :
             n - (a + Len(events)) \in 1..b /\ all[n] = rest[n - (a + Len(events))]
    BY <1>14, <1>16, PlacesOfThree
  <2> QED BY <1>7, <2>1
<1> HIDE DEF a, b
<1>18. \A n \in 1..a : WordPart(all[n], planId, local, server)
  BY <1>12, <1>15, <1>17
<1>19. \A n \in (a + m + 1)..Len(all) : RestPart(all[n], planId, local, server)
  BY <1>11, <1>15, <1>17
<1>20. \A r : WordPart(r, planId, local, server) \/ RestPart(r, planId, local, server)
              => r \in Range(all)
  BY <1>11, <1>12, <1>13
<1>21. Len(all) \in Nat /\ a + m <= Len(all)
  BY <1>7, <1>15, <1>17
<1>22. \A n \in 1..m : all[a + n] = EventResolution(planId, Sorted(local), OnServer(server), n)
  BY <1>7, <1>17 DEF sorted, onServer
<1>23. plan.status # "blocked" => \A r \in Range(all) : r.action # "reject_blocked"
  BY <1>1
<1>24. IsPlan(plan, planId, local, server, a)
  BY <1>1, <1>7, <1>15, <1>17, <1>18, <1>19, <1>20, <1>21, <1>22, <1>23 DEF IsPlan, m
<1> QED BY <1>24 DEF plan

-----------------------------------------------------------------------------
(* What the resolutions ask for                                              *)

ImportOf(planId, w) ==
  Resolution(planId, "saved_word", "local_only_saved_word", "import_to_server", w)
MergeOf(planId, id) ==
  Resolution(planId, "review_event", "local_review_event_not_on_server",
             "merge_event_evidence", id)
AttributionOf(planId, id) ==
  Resolution(planId, "upgrade_interest", "upgrade_interest_attribution_only",
             "attribution_only", id)

IsNew(local, server, w) ==
  /\ w \in Words /\ local.savedWords[w] # None /\ local.savedWords[w].valid
  /\ server.savedWords[w] = None

\* What is put aside, or written down only
Audited == {"keep_server", "skip_audit_only", "no_op_duplicate"}

NewsOf(local, server, w) == EventsOn(Sorted(local), w) \cap MergedOf(local, server)

Proposal(r, local, server, w) ==
  /\ w \in Words /\ r.of = w /\ NewsOf(local, server, w) # {}
  /\ r.proposed = Recompute(server.reviewState[w], Sorted(local), NewsOf(local, server, w))

LEMMA ResolutionFields ==
  ASSUME NEW planId, NEW target, NEW category, NEW action, NEW of,
         NEW r, r = Resolution(planId, target, category, action, of)
  PROVE  /\ r.action = action /\ r.of = of /\ r.proposed = None
         /\ r.id = <<planId, target, category, of>>
  BY DEF Resolution

LEMMA UnsupportedFields ==
  ASSUME NEW planId, NEW of
  PROVE  Unsupported(planId, of).action = "reject_blocked"
         /\ Unsupported(planId, of).proposed = None
  BY DEF Unsupported, Resolution

LEMMA WordKinds ==
  ASSUME NEW planId, NEW local, NEW server, NEW r, WordPart(r, planId, local, server)
  PROVE  /\ r.proposed = None
         /\ \/ r.action = "reject_blocked" \/ r.action \in Audited
            \/ \E w : IsNew(local, server, w) /\ r = ImportOf(planId, w)
<1>1. PICK w \in Words : \/ r \in Range(WordResolution(planId, local, server, w))
                         \/ r \in Range(ServerOnlyWord(planId, local, server, w))
  BY DEF WordPart
<1>2. \A x : Range(<<x>>) = {x}
  BY SingleIsSeq DEF Single
<1>3. Range(<< >>) = {}
  BY DEF Range
<1>4. CASE r \in Range(ServerOnlyWord(planId, local, server, w))
  <2>1. r = Resolution(planId, "saved_word", "server_only_saved_word", "keep_server", w)
    BY <1>2, <1>3, <1>4 DEF ServerOnlyWord
  <2> QED BY <2>1, ResolutionFields DEF Audited
<1>5. CASE r \in Range(WordResolution(planId, local, server, w))
  <2> DEFINE word == local.savedWords[w]
             same == Resolution(planId, "saved_word", "duplicate_saved_word",
                                "no_op_duplicate", w)
  <2>1. word # None
    BY <1>3, <1>5 DEF WordResolution
  <2>2. CASE ~word.valid
    <3>1. WordResolution(planId, local, server, w) = <<Unsupported(planId, w)>>
      BY <2>1, <2>2 DEF WordResolution
    <3>2. r = Unsupported(planId, w)
      BY <1>2, <1>5, <3>1
    <3> QED BY <3>2, UnsupportedFields
  <2>3. CASE word.valid /\ server.savedWords[w] # None
    <3>1. WordResolution(planId, local, server, w) = <<same>>
      BY <2>1, <2>3 DEF WordResolution
    <3>2. r = same
      BY <1>2, <1>5, <3>1
    <3> QED BY <3>2, ResolutionFields DEF Audited
  <2>4. CASE word.valid /\ server.savedWords[w] = None
    <3>1. WordResolution(planId, local, server, w) = <<ImportOf(planId, w)>>
      BY <2>1, <2>4 DEF WordResolution, ImportOf
    <3>2. r = ImportOf(planId, w)
      BY <1>2, <1>5, <3>1
    <3>3. IsNew(local, server, w)
      BY <2>1, <2>4 DEF IsNew
    <3>4. r.proposed = None
      BY <3>2, ResolutionFields DEF ImportOf
    <3> QED BY <3>2, <3>3, <3>4
  <2> QED BY <2>2, <2>3, <2>4
<1> QED BY <1>1, <1>4, <1>5

\* A new word of the snapshot is imported by every plan.
LEMMA NewIsImported ==
  ASSUME NEW planId, NEW local, NEW server, NEW w, IsNew(local, server, w)
  PROVE  WordPart(ImportOf(planId, w), planId, local, server)
<1>1. WordResolution(planId, local, server, w) = <<ImportOf(planId, w)>>
  BY DEF IsNew, WordResolution, ImportOf
<1>2. Range(<<ImportOf(planId, w)>>) = {ImportOf(planId, w)}
  BY SingleIsSeq DEF Single
<1> QED BY <1>1, <1>2 DEF WordPart, IsNew

LEMMA EventKinds ==
  ASSUME NEW planId, NEW local, Readable(local), NEW server,
         NEW n \in 1..Len(local.reviewEvents),
         NEW r, r = EventResolution(planId, Sorted(local), OnServer(server), n)
  PROVE  /\ r.proposed = None
         /\ n \in MergedOf(local, server) => r = MergeOf(planId, Sorted(local)[n].eventId)
         /\ n \notin MergedOf(local, server) =>
              r.action = "reject_blocked" \/ r.action \in Audited
         /\ r.action # "reject_blocked" => n \in Passed(Sorted(local), OnServer(server))
<1> DEFINE sorted == Sorted(local)  onServer == OnServer(server)  id == sorted[n].eventId
           conflict == Resolution(planId, "review_event", "idempotency_key_payload_conflict",
                                  "reject_blocked", id)
           same == Resolution(planId, "review_event", "duplicate_review_event",
                              "no_op_duplicate", id)
           passed == Passed(sorted, onServer)
           merged == Merged(sorted, onServer)
<1>1. /\ merged \subseteq passed
      /\ \A i \in passed : sorted[i].valid
  <2>1. merged \subseteq passed
    BY DEF Merged
  <2>2. \A i \in passed : sorted[i].valid
    BY DEF Passed
  <2> QED BY <2>1, <2>2
<1>2. MergedOf(local, server) = merged
  BY DEF MergedOf
<1>3. r = IF ~sorted[n].valid THEN Unsupported(planId, id)
          ELSE IF n \notin passed THEN conflict
          ELSE IF n \notin merged THEN same
          ELSE MergeOf(planId, id)
  BY DEF EventResolution, MergeOf
<1>4. /\ conflict.action = "reject_blocked" /\ conflict.proposed = None
      /\ same.action \in Audited /\ same.proposed = None
      /\ MergeOf(planId, id).proposed = None
      /\ Unsupported(planId, id).action = "reject_blocked"
      /\ Unsupported(planId, id).proposed = None
  BY ResolutionFields, UnsupportedFields DEF MergeOf, Audited
<1> HIDE DEF sorted, onServer, passed, merged, conflict, same
<1>5. /\ r.proposed = None
      /\ n \in merged => r = MergeOf(planId, id)
      /\ n \notin merged => r.action = "reject_blocked" \/ r.action \in Audited
      /\ r.action # "reject_blocked" => n \in passed
  BY <1>1, <1>3, <1>4
<1> QED BY <1>2, <1>5 DEF sorted, onServer, passed

LEMMA RestKinds ==
  ASSUME NEW planId, NEW local, NEW server, NEW r, RestPart(r, planId, local, server)
  PROVE  \/ /\ r.proposed = None
            /\ r.action = "reject_blocked" \/ r.action \in Audited
               \/ r.action = "recompute_from_events"
         \/ /\ r.action = "recompute_from_events"
            /\ \E w : Proposal(r, local, server, w)
         \/ /\ r.proposed = None
            /\ \E i \in DOMAIN local.upgradeInterest :
                 /\ local.upgradeInterest[i].valid
                 /\ r = AttributionOf(planId, local.upgradeInterest[i].id)
<1> DEFINE sorted == Sorted(local)  merged == MergedOf(local, server)
<1>2. \A x : Range(<<x>>) = {x}
  BY SingleIsSeq DEF Single
<1>3. Range(<< >>) = {}
  BY DEF Range
<1>4. ASSUME NEW w \in Words,
             r \in Range(StateResolution(planId, local, server, sorted, merged, w))
      PROVE  \/ /\ r.proposed = None
                /\ r.action = "reject_blocked" \/ r.action \in Audited
             \/ /\ r.action = "recompute_from_events"
                /\ Proposal(r, local, server, w)
  <2> DEFINE own == local.reviewState[w]  kept == server.reviewState[w]
             news == EventsOn(sorted, w) \cap merged
             correct == Cardinality(CorrectIn(server.reviewEvents,
                                              EventsOn(server.reviewEvents, w)))
                        + Cardinality(CorrectIn(sorted, news))
             proposed == IF news = {} THEN None ELSE Recompute(kept, sorted, news)
             plain == Resolution(planId, "review_state", RecomputedAs(proposed, own, kept),
                                 "recompute_from_events", w)
             recompute == [plain EXCEPT !.proposed = proposed]
             say(category, action) ==
               <<Resolution(planId, "review_state", category, action, w)>>
             false == ClaimsMasteryFalsely(own, proposed, kept, correct)
             s == StateResolution(planId, local, server, sorted, merged, w)
  <2>1. s = CASE own = Malformed -> <<Unsupported(planId, w)>>
              [] own # Malformed /\ false -> say("fake_mastery_risk", "reject_blocked")
              [] OTHER ->
                   IF proposed # None THEN <<recompute>>
                   ELSE IF own # None /\ kept # None THEN say(KeptAs(own, kept), "keep_server")
                   ELSE IF own # None THEN say("stale_review_state", "skip_audit_only")
                   ELSE << >>
    BY DEF StateResolution
  <2>2. \/ s = <<Unsupported(planId, w)>>
        \/ \E category : s = say(category, "reject_blocked")
        \/ proposed # None /\ s = <<recompute>>
        \/ \E category : s = say(category, "keep_server")
        \/ \E category : s = say(category, "skip_audit_only")
        \/ s = << >>
    <3> HIDE DEF own, kept, news, correct, proposed, false, recompute, s
    <3> QED BY <2>1
  <2>3. CASE s = <<Unsupported(planId, w)>>
    BY <1>2, <1>4, <2>3, UnsupportedFields
  <2>4. CASE \E category : s = say(category, "reject_blocked")
    BY <1>2, <1>4, <2>4, ResolutionFields
  <2>5. CASE \E category : s = say(category, "keep_server")
    BY <1>2, <1>4, <2>5, ResolutionFields DEF Audited
  <2>6. CASE \E category : s = say(category, "skip_audit_only")
    BY <1>2, <1>4, <2>6, ResolutionFields DEF Audited
  <2>7. CASE s = << >>
    BY <1>3, <1>4, <2>7
  <2>8. CASE proposed # None /\ s = <<recompute>>
    <3>1. r = recompute
      BY <1>2, <1>4, <2>8
    <3>2. news = NewsOf(local, server, w)
      BY DEF NewsOf
    <3>3. proposed = Recompute(server.reviewState[w], Sorted(local), news) /\ news # {}
      BY <2>8
    <3> HIDE DEF news, proposed, s
    <3>4. r.action = "recompute_from_events" /\ r.of = w /\ r.proposed = proposed
      BY <3>1 DEF Resolution
    <3> QED BY <3>2, <3>3, <3>4 DEF Proposal
  <2> HIDE DEF s
  <2> QED BY <2>2, <2>3, <2>4, <2>5, <2>6, <2>7, <2>8
<1>5. ASSUME NEW p \in Packs,
             r \in Range(PackResolution(planId, local, server, sorted, merged, p))
      PROVE  /\ r.proposed = None
             /\ r.action = "reject_blocked" \/ r.action \in Audited
                \/ r.action = "recompute_from_events"
  <2> DEFINE s == PackResolution(planId, local, server, sorted, merged, p)
             say(action) == <<Resolution(planId, "pack_progress",
                         "pack_progress_without_event_evidence", action, p)>>
  <2>1. \/ s = << >> \/ s = <<Unsupported(planId, p)>>
        \/ s = say("recompute_from_events") \/ s = say("skip_audit_only")
    BY DEF PackResolution
  <2>2. CASE s = << >>
    BY <1>3, <1>5, <2>2
  <2>3. CASE s = <<Unsupported(planId, p)>>
    BY <1>2, <1>5, <2>3, UnsupportedFields
  <2>4. CASE s = say("recompute_from_events")
    BY <1>2, <1>5, <2>4, ResolutionFields
  <2>5. CASE s = say("skip_audit_only")
    BY <1>2, <1>5, <2>5, ResolutionFields DEF Audited
  <2> QED BY <2>1, <2>2, <2>3, <2>4, <2>5
<1>6. ASSUME NEW i \in DOMAIN local.upgradeInterest,
             r = InterestResolution(planId, local.upgradeInterest[i])
      PROVE  /\ r.proposed = None
             /\ \/ r.action = "reject_blocked"
                \/ /\ local.upgradeInterest[i].valid
                   /\ r = AttributionOf(planId, local.upgradeInterest[i].id)
  <2>1. CASE local.upgradeInterest[i].valid
    <3>1. r = AttributionOf(planId, local.upgradeInterest[i].id)
      BY <1>6, <2>1 DEF InterestResolution, AttributionOf
    <3>2. r.proposed = None
      BY <3>1, ResolutionFields DEF AttributionOf
    <3> QED BY <2>1, <3>1, <3>2
  <2>2. CASE ~local.upgradeInterest[i].valid
    <3>1. r = Unsupported(planId, local.upgradeInterest[i].id)
      BY <1>6, <2>2 DEF InterestResolution
    <3> QED BY <3>1, UnsupportedFields
  <2> QED BY <2>1, <2>2
<1>7. \/ \E w \in Words : r \in Range(StateResolution(planId, local, server, sorted, merged, w))
      \/ \E p \in Packs : r \in Range(PackResolution(planId, local, server, sorted, merged, p))
      \/ \E i \in DOMAIN local.upgradeInterest :
           r = InterestResolution(planId, local.upgradeInterest[i])
  BY DEF RestPart
<1> HIDE DEF sorted, merged
<1> QED BY <1>4, <1>5, <1>6, <1>7

\* An attribution of the snapshot is in every plan.
LEMMA InterestIsAttributed ==
  ASSUME NEW planId, NEW local, NEW server, NEW i \in DOMAIN local.upgradeInterest,
         local.upgradeInterest[i].valid
  PROVE  RestPart(AttributionOf(planId, local.upgradeInterest[i].id), planId, local, server)
<1>1. AttributionOf(planId, local.upgradeInterest[i].id) =
        InterestResolution(planId, local.upgradeInterest[i])
  BY DEF InterestResolution, AttributionOf
<1> QED BY <1>1 DEF RestPart

-----------------------------------------------------------------------------
(* Applying a plan                                                           *)

\* What a resolution does: nothing but an audit, or one of the three writes
AuditOnly(answer, acc) ==
  /\ answer.status # "accepted" /\ answer.status # "rejected" /\ answer.status # "blocked"
  /\ answer.account = RecordSyncAudit(acc).account

DoesResolution(answer, acc, snapshot, r) ==
  /\ r.action = "reject_blocked" => answer.status = "blocked" /\ answer.account = acc
  /\ r.action \in Audited \/ r.action = "recompute_from_events" => AuditOnly(answer, acc)
  /\ r.action = "import_to_server" =>
       answer = RecordSavedWord(acc, snapshot.savedWords[r.of], r.id)
  /\ r.action = "merge_event_evidence" =>
       LET event == SnapshotEvent(snapshot, r) IN
       answer = RecordReviewEvent(acc, event, MergeKey(r, event))
  /\ r.action = "attribution_only" =>
       answer = RecordUpgradeInterest(acc,
                  CHOOSE i \in Range(snapshot.upgradeInterest) : i.id = r.of)

LEMMA ResolutionApplied ==
  ASSUME NEW acc, NEW snapshot, NEW r
  PROVE  DoesResolution(ApplyResolution(acc, snapshot, r), acc, snapshot, r)
<1> DEFINE answer == ApplyResolution(acc, snapshot, r)
<1> DEFINE audit == RecordSyncAudit(acc)
           word == RecordSavedWord(acc, snapshot.savedWords[r.of], r.id)
           event == SnapshotEvent(snapshot, r)
           review == RecordReviewEvent(acc, event, MergeKey(r, event))
           interest == RecordUpgradeInterest(acc,
                         CHOOSE i \in Range(snapshot.upgradeInterest) : i.id = r.of)
           noted == [audit EXCEPT !.status = StatusOf(r)]
           blocked == Answer(acc, "blocked", "blocked_plan", None)
<1>1. answer = CASE StatusOf(r) = "blocked" -> blocked
                 [] StatusOf(r) \in {"audit_only", "duplicate_noop"} -> noted
                 [] r.action = "import_to_server" -> word
                 [] r.action = "merge_event_evidence" -> review
                 [] r.action = "attribution_only" -> interest
                 [] r.action = "recompute_from_events" -> audit
                 [] OTHER -> Reject(acc, "unsupported_resolution")
  BY DEF ApplyResolution
<1>2. /\ audit.status = "audit_only"
      /\ blocked.status = "blocked" /\ blocked.account = acc
      /\ noted.status = StatusOf(r) /\ noted.account = audit.account
  BY DEF RecordSyncAudit, Answer
<1>3. StatusOf(r) =
        IF r.action = "reject_blocked" THEN "blocked"
        ELSE IF r.action \in {"skip_audit_only", "keep_server"} THEN "audit_only"
        ELSE IF r.action = "no_op_duplicate" THEN "duplicate_noop" ELSE "accepted"
  BY DEF StatusOf
<1> HIDE DEF answer, audit, word, event, review, interest, noted, blocked
<1> SUFFICES DoesResolution(answer, acc, snapshot, r)
  BY DEF answer
<1>4. CASE r.action = "reject_blocked"
  BY <1>1, <1>2, <1>3, <1>4 DEF Audited, DoesResolution
<1>5. CASE r.action \in Audited
  <2>1. StatusOf(r) = "audit_only" \/ StatusOf(r) = "duplicate_noop"
    BY <1>3, <1>5 DEF Audited
  <2>2. answer = noted
    BY <1>1, <1>5, <2>1 DEF Audited
  <2>3. AuditOnly(answer, acc)
    BY <1>2, <2>1, <2>2 DEF AuditOnly, audit
  <2> QED BY <1>5, <2>3 DEF Audited, DoesResolution
<1>6. CASE r.action = "recompute_from_events"
  BY <1>1, <1>2, <1>3, <1>6 DEF AuditOnly, Audited, audit, DoesResolution
<1>7. CASE r.action = "import_to_server"
  BY <1>1, <1>3, <1>7 DEF word, Audited, DoesResolution
<1>8. CASE r.action = "merge_event_evidence"
  BY <1>1, <1>3, <1>8 DEF review, event, Audited, DoesResolution
<1>9. CASE r.action = "attribution_only"
  BY <1>1, <1>3, <1>9 DEF interest, Audited, DoesResolution
<1>10. CASE r.action \notin Audited \cup {"reject_blocked", "recompute_from_events",
               "import_to_server", "merge_event_evidence", "attribution_only"}
  BY <1>10 DEF Audited, DoesResolution
<1> QED BY <1>4, <1>5, <1>6, <1>7, <1>8, <1>9, <1>10

\* findSnapshotReviewEvent finds an event of the snapshot with the eventId.
LEMMA SnapshotEventFound ==
  ASSUME NEW snapshot, snapshot.reviewEvents \in Seq(Range(snapshot.reviewEvents)),
         NEW r, \E e \in Range(snapshot.reviewEvents) : e.eventId = r.of
  PROVE  /\ SnapshotEvent(snapshot, r) \in Range(snapshot.reviewEvents)
         /\ SnapshotEvent(snapshot, r).eventId = r.of
<1> DEFINE events == snapshot.reviewEvents
           at == {i \in DOMAIN events : events[i].eventId = r.of}
           first == CHOOSE i \in at : \A j \in at : i <= j
<1>1. DOMAIN events = 1..Len(events) /\ Len(events) \in Nat
  OBVIOUS
<1>2. at \subseteq Nat /\ at # {}
  BY <1>1 DEF Range
<1> HIDE DEF at
<1>3. \E i \in at : \A j \in at : i <= j
  <2>1. PICK i \in at : \A j \in at : ~(<<j, i>> \in Smaller)
    BY <1>2, SmallerDescends, WFMin
  <2>2. ASSUME NEW j \in at
        PROVE  i <= j
    <3>1. i \in Nat /\ j \in Nat /\ ~(<<j, i>> \in Smaller)
      BY <1>2, <2>1
    <3>2. ~(j < i)
      BY <3>1 DEF Smaller
    <3> QED BY <3>1, <3>2
  <2> QED BY <2>1, <2>2
<1>4. first \in at
  BY <1>3
<1>5. SnapshotEvent(snapshot, r) = events[first]
  BY DEF SnapshotEvent, at
<1> HIDE DEF first
<1> QED BY <1>4, <1>5 DEF at, Range

\* What a resolution of a plan is
Kind(r, planId, local, server) ==
  \/ r.action = "reject_blocked" \/ r.action \in Audited
  \/ r.action = "recompute_from_events"
  \/ \E w : IsNew(local, server, w) /\ r = ImportOf(planId, w)
  \/ \E n \in MergedOf(local, server) \cap (1..Len(local.reviewEvents)) :
       r = MergeOf(planId, Sorted(local)[n].eventId)
  \/ \E i \in DOMAIN local.upgradeInterest :
       /\ local.upgradeInterest[i].valid
       /\ r = AttributionOf(planId, local.upgradeInterest[i].id)

LEMMA KindsOfPlan ==
  ASSUME NEW planId, NEW local, Readable(local), NEW server, NEW plan, NEW a,
         IsPlan(plan, planId, local, server, a)
  PROVE  \A n \in 1..Len(plan.resolutions) : Kind(plan.resolutions[n], planId, local, server)
<1> DEFINE rs == plan.resolutions  m == Len(local.reviewEvents)
<1>1. /\ a \in Nat /\ m \in Nat /\ Len(rs) \in Nat /\ a + m <= Len(rs)
      /\ \A n \in 1..a : WordPart(rs[n], planId, local, server)
      /\ \A n \in 1..m :
           rs[a + n] = EventResolution(planId, Sorted(local), OnServer(server), n)
      /\ \A n \in (a + m + 1)..Len(rs) : RestPart(rs[n], planId, local, server)
  BY DEF IsPlan
<1> SUFFICES ASSUME NEW n \in 1..Len(rs)
             PROVE  Kind(rs[n], planId, local, server)
  OBVIOUS
<1> HIDE DEF rs, m
<1>2. CASE n \in 1..a
  BY <1>1, <1>2, WordKinds DEF Kind
<1>3. CASE n - a \in 1..m
  <2> DEFINE k == n - a
  <2>1. k \in 1..m /\ a + k = n
    BY <1>1, <1>3
  <2>2. rs[n] = EventResolution(planId, Sorted(local), OnServer(server), k)
    BY <1>1, <2>1
  <2> HIDE DEF k
  <2>3. k \in MergedOf(local, server) => rs[n] = MergeOf(planId, Sorted(local)[k].eventId)
    BY <2>1, <2>2, EventKinds DEF m
  <2>4. k \notin MergedOf(local, server) =>
          rs[n].action = "reject_blocked" \/ rs[n].action \in Audited
    BY <2>1, <2>2, EventKinds DEF m
  <2> QED BY <2>1, <2>3, <2>4 DEF Kind, m
<1>4. CASE n \in (a + m + 1)..Len(rs)
  BY <1>1, <1>4, RestKinds DEF Kind
<1>5. n \in 1..a \/ n - a \in 1..m \/ n \in (a + m + 1)..Len(rs)
  BY <1>1
<1> QED BY <1>2, <1>3, <1>4, <1>5

\* What the assumptions say of a snapshot
LEMMA SnapshotFacts ==
  ASSUME NEW s \in Snapshots
  PROVE  /\ Readable(s)
         /\ \A e \in Range(s.reviewEvents) : e \in Arriving
         /\ DOMAIN Sorted(s) = 1..Len(s.reviewEvents)
         /\ Len(Sorted(s)) = Len(s.reviewEvents) /\ Len(s.reviewEvents) \in Nat
         /\ \A n \in 1..Len(s.reviewEvents) : Sorted(s)[n] \in Range(s.reviewEvents)
<1>1. \A e \in Range(s.reviewEvents) : e \in Arriving
  BY DEF Arriving
<1>2. Readable(s)
  BY <1>1, EventsAssumption, SnapshotsAssumption DEF Readable
<1>3. Len(s.reviewEvents) \in Nat
  BY SnapshotsAssumption
<1> QED BY <1>1, <1>2, <1>3, SortedAreEvents DEF Readable, Sorted

\* The event a merge brings is the one it was made for.
LEMMA MergedEvent ==
  ASSUME NEW s \in Snapshots, NEW n \in 1..Len(s.reviewEvents), NEW planId,
         NEW r, r = MergeOf(planId, Sorted(s)[n].eventId)
  PROVE  SnapshotEvent(s, r) = Sorted(s)[n] /\ Sorted(s)[n] \in Arriving
<1> DEFINE e == Sorted(s)[n]  f == SnapshotEvent(s, r)
<1>1. e \in Range(s.reviewEvents) /\ e \in Arriving
  BY SnapshotFacts
<1>2. r.of = e.eventId
  BY ResolutionFields DEF MergeOf
<1>3. s.reviewEvents \in Seq(Range(s.reviewEvents))
  BY SnapshotsAssumption
<1> HIDE DEF e
<1>4. f \in Range(s.reviewEvents) /\ f.eventId = e.eventId
  BY <1>1, <1>2, <1>3, SnapshotEventFound
<1> HIDE DEF f
<1>5. f = e
  BY <1>1, <1>4, SnapshotsAssumption
<1> QED BY <1>1, <1>5 DEF e, f

LEMMA ResolutionKeepsInv ==
  ASSUME NEW acc, AccountInv(acc), NEW s \in Snapshots, NEW planId, NEW server,
         NEW r, Kind(r, planId, s, server),
         NEW answer, answer = ApplyResolution(acc, s, r)
  PROVE  AccountInv(answer.account)
<1>0. DoesResolution(answer, acc, s, r)
  BY ResolutionApplied
<1>1. CASE r.action = "reject_blocked"
  <2>1. answer.account = acc
    BY <1>0, <1>1 DEF DoesResolution
  <2> QED BY <2>1
<1>2. CASE r.action \in Audited \/ r.action = "recompute_from_events"
  <2>1. AuditOnly(answer, acc)
    BY <1>0, <1>2 DEF DoesResolution
  <2> QED BY <2>1, AuditKeepsInv DEF AuditOnly
<1>3. ASSUME NEW w, IsNew(s, server, w), r = ImportOf(planId, w)
      PROVE  AccountInv(answer.account)
  <2> DEFINE word == s.savedWords[w]
  <2>1. r.action = "import_to_server" /\ r.of = w
    BY <1>3, ResolutionFields DEF ImportOf
  <2>2. answer = RecordSavedWord(acc, word, r.id)
    BY <1>0, <2>1 DEF DoesResolution
  <2>3. w \in Words /\ word # None /\ word.valid
    BY <1>3 DEF IsNew
  <2>4. word.slug \in Words /\ word.savedAt \in Nat
    BY <2>3, WordsAssumption
  <2> HIDE DEF word
  <2> QED BY <2>2, <2>3, <2>4, WordKeepsInv
<1>4. ASSUME NEW n \in 1..Len(s.reviewEvents),
             r = MergeOf(planId, Sorted(s)[n].eventId)
      PROVE  AccountInv(answer.account)
  <2> DEFINE event == SnapshotEvent(s, r)
  <2>1. r.action = "merge_event_evidence"
    BY <1>4, ResolutionFields DEF MergeOf
  <2>2. answer = RecordReviewEvent(acc, event, MergeKey(r, event))
    BY <1>0, <2>1 DEF DoesResolution
  <2>3. event \in Arriving
    BY <1>4, MergedEvent
  <2> HIDE DEF event
  <2> QED BY <2>2, <2>3, EventKeepsInv
<1>5. ASSUME NEW id, r = AttributionOf(planId, id)
      PROVE  AccountInv(answer.account)
  <2>1. r.action = "attribution_only"
    BY <1>5, ResolutionFields DEF AttributionOf
  <2>2. \E i : answer = RecordUpgradeInterest(acc, i)
    BY <1>0, <2>1 DEF DoesResolution
  <2> QED BY <2>2, InterestKeepsInv
<1> QED BY <1>1, <1>2, <1>3, <1>4, <1>5 DEF Kind

\* One round of the loop
LEMMA NextRound ==
  ASSUME NEW s, NEW accepted, NEW old, NEW r, NEW answer,
         answer = ApplyResolution(old.account, s, r),
         NEW then, then = ApplyNext(s, accepted, old, r)
  PROVE  \/ (old.refused \/ ~IsAccepted(accepted, r)) /\ then = old
         \/ /\ ~old.refused /\ IsAccepted(accepted, r)
            /\ then.account = answer.account /\ (then.refused <=> ~IsOk(answer))
            /\ then.applied = IF answer.status = "accepted" THEN Append(old.applied, r)
                              ELSE old.applied
  BY DEF ApplyNext

\* The loop over the resolutions of the plan that brings s to the account server.
IsApplying(done, rs, planId, s, server, accepted) ==
  /\ Len(rs) \in Nat /\ \A n \in 1..Len(rs) : Kind(rs[n], planId, s, server)
  /\ IsLoop(done, server, rs, s, accepted)

LEMMA PlanIsApplied ==
  ASSUME NEW s \in Snapshots, NEW planId, NEW server,
         NEW plan, plan = Resolve(planId, s, server), NEW accepted
  PROVE  \E done : IsApplying(done, plan.resolutions, planId, s, server, accepted)
<1> DEFINE rs == plan.resolutions
<1>1. PICK a : IsPlan(plan, planId, s, server, a)
  BY SnapshotFacts, ResolvePlan
<1>2. Len(rs) \in Nat /\ \A n \in 1..Len(rs) : Kind(rs[n], planId, s, server)
  BY <1>1, SnapshotFacts, KindsOfPlan DEF IsPlan
<1> HIDE DEF rs
<1>3. PICK done : IsLoop(done, server, rs, s, accepted)
  BY <1>2, RoundsLoop
<1> QED BY <1>2, <1>3 DEF IsApplying, rs

\* The account it leaves is that of the last round, or the one it began with.
Leaves(result, done, rs, server) ==
  /\ Len(rs) \in 0..Len(rs)
  /\ \/ /\ result.status # "accepted" /\ result.account = server
        /\ result.applied = << >>
     \/ /\ result.status = "accepted" /\ ~done[Len(rs)].refused
        /\ result.account = done[Len(rs)].account
        /\ result.applied = done[Len(rs)].applied

LEMMA AppliedAccount ==
  ASSUME NEW done, NEW plan, NEW planId, NEW s, NEW server, NEW accepted,
         IsApplying(done, plan.resolutions, planId, s, server, accepted)
  PROVE  Leaves(ApplyPlan(server, plan, s, accepted), done, plan.resolutions, server)
<1> DEFINE rs == plan.resolutions
<1>1. Len(rs) \in Nat /\ Rounds(server, rs, s, accepted) = done[Len(rs)]
  BY DEF IsApplying, IsLoop
<1> DEFINE last == Rounds(server, rs, s, accepted)
           result == ApplyPlan(server, plan, s, accepted)
<1>2. result =
        IF ~CanApply(plan, accepted)
        THEN [status |-> "blocked", account |-> server, applied |-> << >>]
        ELSE IF last.refused
        THEN [status |-> "rejected", account |-> server, applied |-> << >>]
        ELSE [status |-> "accepted", account |-> last.account, applied |-> last.applied]
  BY DEF ApplyPlan, Committed
<1> HIDE DEF last, result
<1>3. \/ result.status # "accepted" /\ result.account = server /\ result.applied = << >>
      \/ /\ result.status = "accepted" /\ ~last.refused
         /\ result.account = last.account /\ result.applied = last.applied
  BY <1>2
<1> QED BY <1>1, <1>3 DEF Leaves, last, result

LEMMA RoundsKeepInv ==
  ASSUME NEW s \in Snapshots, NEW done, NEW rs, NEW planId, NEW acc, NEW accepted,
         IsApplying(done, rs, planId, s, acc, accepted), AccountInv(acc)
  PROVE  \A n \in 0..Len(rs) : AccountInv(done[n].account)
<1> DEFINE S == {n \in Nat : AccountInv(done[n].account)}
<1>0. /\ Len(rs) \in Nat /\ \A n \in 1..Len(rs) : Kind(rs[n], planId, s, acc)
      /\ IsLoop(done, acc, rs, s, accepted)
  BY DEF IsApplying
<1>1. 0 \in S
  BY <1>0 DEF IsLoop, Start
<1>2. ASSUME NEW n \in 1..Len(rs), n - 1 \in S
      PROVE  n \in S
  <2> DEFINE old == done[n - 1]  then == done[n]
             answer == ApplyResolution(old.account, s, rs[n])
  <2>1. then = ApplyNext(s, accepted, old, rs[n])
    BY <1>0 DEF IsLoop
  <2>2. AccountInv(old.account)
    BY <1>2
  <2>3. AccountInv(answer.account)
    BY <1>0, <2>2, ResolutionKeepsInv
  <2>4. then = old \/ then.account = answer.account
    BY <2>1, NextRound
  <2>5. AccountInv(then.account)
    BY <2>2, <2>3, <2>4
  <2> QED BY <1>0, <2>5
<1> HIDE DEF S
<1>3. \A n \in 0..Len(rs) : n \in S
  BY <1>0, <1>1, <1>2, CountingUp
<1> QED BY <1>3 DEF S

LEMMA ApplyKeepsInv ==
  ASSUME NEW acc, AccountInv(acc), NEW s \in Snapshots, NEW planId,
         NEW plan, plan = Resolve(planId, s, acc), NEW accepted
  PROVE  AccountInv(ApplyPlan(acc, plan, s, accepted).account)
<1>1. PICK done : IsApplying(done, plan.resolutions, planId, s, acc, accepted)
  BY PlanIsApplied
<1>2. \A n \in 0..Len(plan.resolutions) : AccountInv(done[n].account)
  BY <1>1, RoundsKeepInv
<1>3. Leaves(ApplyPlan(acc, plan, s, accepted), done, plan.resolutions, acc)
  BY <1>1, AppliedAccount
<1> QED BY <1>2, <1>3 DEF Leaves

-----------------------------------------------------------------------------
(* Every account that is reached follows its events                          *)

LEMMA StepKeepsInv ==
  ASSUME AccountInv(account), [Next]_vars
  PROVE  AccountInv(account')
<1>1. CASE UNCHANGED account
  BY <1>1
<1>2. ASSUME NEW m \in WordWrites, WriteWord(m)
      PROVE  AccountInv(account')
  <2>1. account' = RecordSavedWord(account, m.word, m.key).account
    BY <1>2 DEF WriteWord, Take
  <2>2. m.word # None /\ (m.word.valid => m.word.slug \in Words /\ m.word.savedAt \in Nat)
    BY WordsAssumption
  <2> QED BY <2>1, <2>2, WordKeepsInv
<1>3. ASSUME NEW m \in EventWrites, WriteEvent(m)
      PROVE  AccountInv(account')
  <2>1. account' = RecordReviewEvent(account, m.event, m.key).account
    BY <1>3 DEF WriteEvent, Take
  <2>2. m.event \in Arriving
    BY DEF Arriving
  <2> QED BY <2>1, <2>2, EventKeepsInv
<1>4. ASSUME NEW i \in InterestWrites, WriteInterest(i)
      PROVE  AccountInv(account')
  BY <1>4, InterestKeepsInv DEF WriteInterest, Take
<1>5. CASE WriteAudit
  BY <1>5, AuditKeepsInv DEF WriteAudit, Take
<1>6. ASSUME NEW s \in Snapshots, Run(s)
      PROVE  AccountInv(account')
  <2> DEFINE plan == RunPlan(s)
  <2>1. \/ account' = account
        \/ account' = ApplyPlan(account, plan, s, None).account
    BY <1>6 DEF Run, Harness
  <2>2. plan = Resolve(<<"run", s.id>>, s, account)
    BY DEF RunPlan
  <2> HIDE DEF plan
  <2>3. AccountInv(ApplyPlan(account, plan, s, None).account)
    BY <2>2, ApplyKeepsInv
  <2> QED BY <2>1, <2>3
<1>7. ASSUME NEW flaw \in Flaws, RefuseRequest(flaw)
      PROVE  UNCHANGED account
  BY <1>7 DEF RefuseRequest
<1>8. ASSUME NEW s \in Previewed, PreviewRoute(s)
      PROVE  UNCHANGED account
  BY <1>8 DEF PreviewRoute
<1>9. ASSUME NEW req, ApplyNew(req) \/ ApplyAgain(req)
      PROVE  UNCHANGED account
  BY <1>9 DEF ApplyNew, ApplyAgain
<1>10. CASE ReadRoutes
  BY <1>10 DEF ReadRoutes
<1>11. CASE UNCHANGED vars
  BY <1>11 DEF vars
<1> QED
  BY <1>1, <1>2, <1>3, <1>4, <1>5, <1>6, <1>7, <1>8, <1>9, <1>10, <1>11 DEF Next

\* The account is what its events make of it, each of them held once, for any
\* number of words, packs, snapshots and calls.
THEOREM AccountFollows == Spec => []AccountFollowsEvents
<1> DEFINE Inv == AccountInv(account)
<1>1. Init => Inv
  BY EmptyInv DEF Init
<1>2. Inv /\ [Next]_vars => Inv'
  BY StepKeepsInv
<1>3. Inv => AccountFollowsEvents
  BY DEF AccountInv, AccountFollowsEvents
<1> HIDE DEF Inv
<1> QED BY <1>1, <1>2, <1>3, PTL DEF Spec

-----------------------------------------------------------------------------
(* A run that comes again adds nothing                                       *)

\* The snapshot's words, events and interests are on the account.
HasAll(s, acc) ==
  /\ \A w \in Words : s.savedWords[w] # None => acc.savedWords[w] # None
  /\ \A e \in Range(s.reviewEvents) : \E f \in Range(acc.reviewEvents) : f.eventId = e.eventId
  /\ \A i \in Range(s.upgradeInterest) : i.id \in Range(acc.upgradeInterest)

\* The resolver merges what the account does not have.
LEMMA MergedIsNew ==
  ASSUME NEW sorted, NEW onServer, NEW n, n \in Merged(sorted, onServer)
  PROVE  /\ n \in DOMAIN sorted /\ n \in Passed(sorted, onServer) /\ sorted[n].valid
         /\ \A e \in onServer : e.eventId # sorted[n].eventId
<1>1. /\ n \in Passed(sorted, onServer)
      /\ ~IsDuplicate(sorted[n], {sorted[i] : i \in {m \in Passed(sorted, onServer) : m < n}},
                      onServer)
  BY DEF Merged
<1>2. n \in DOMAIN sorted /\ sorted[n].valid
  <2> HIDE DEF Passed
  <2>1. Passed(sorted, onServer) \subseteq {m \in DOMAIN sorted : sorted[m].valid}
    BY DEF Passed
  <2> QED BY <1>1, <2>1
<1>3. \A e \in onServer : e.eventId # sorted[n].eventId
  BY <1>1 DEF IsDuplicate
<1> QED BY <1>1, <1>2, <1>3

\* A resolution of its plan changes nothing that was learned.
LEMMA SyncedResolution ==
  ASSUME NEW s \in Snapshots, NEW start, HasAll(s, start), NEW planId,
         NEW acc, HasFields(acc), Learning(acc) = Learning(start),
         NEW r, Kind(r, planId, s, start),
         NEW answer, answer = ApplyResolution(acc, s, r)
  PROVE  HasFields(answer.account) /\ Learning(answer.account) = Learning(start)
<1>0. DoesResolution(answer, acc, s, r)
  BY ResolutionApplied
<1>1. CASE r.action = "reject_blocked"
  BY <1>0, <1>1 DEF DoesResolution
<1>2. CASE r.action \in Audited \/ r.action = "recompute_from_events"
  <2>1. answer.account = RecordSyncAudit(acc).account
    BY <1>0, <1>2 DEF DoesResolution, AuditOnly
  <2> QED BY <2>1, AuditWrites
<1>3. ASSUME NEW w, IsNew(s, start, w)
      PROVE  FALSE
  BY <1>3 DEF IsNew, HasAll
<1>4. ASSUME NEW n \in 1..Len(s.reviewEvents), n \in MergedOf(s, start)
      PROVE  FALSE
  <2>1. Sorted(s)[n] \in Range(s.reviewEvents)
    BY SnapshotFacts
  <2>2. \A e \in Range(start.reviewEvents) : e.eventId # Sorted(s)[n].eventId
    BY <1>4, MergedIsNew DEF MergedOf, OnServer
  <2> QED BY <2>1, <2>2 DEF HasAll
<1>5. ASSUME NEW i \in DOMAIN s.upgradeInterest,
             r = AttributionOf(planId, s.upgradeInterest[i].id)
      PROVE  HasFields(answer.account) /\ Learning(answer.account) = Learning(start)
  <2> DEFINE found == CHOOSE x \in Range(s.upgradeInterest) : x.id = r.of
  <2>1. r.action = "attribution_only" /\ r.of = s.upgradeInterest[i].id
    BY <1>5, ResolutionFields DEF AttributionOf
  <2>2. s.upgradeInterest[i] \in Range(s.upgradeInterest)
    BY DEF Range
  <2>3. found \in Range(s.upgradeInterest)
    BY <2>1, <2>2
  <2>4. answer = RecordUpgradeInterest(acc, found)
    BY <1>0, <2>1 DEF DoesResolution
  <2>5. found.id \in Range(acc.upgradeInterest)
    BY <2>3 DEF HasAll, Learning
  <2> HIDE DEF found
  <2>6. answer.account = acc
    BY <2>4, <2>5 DEF RecordUpgradeInterest, Reject, Answer
  <2> QED BY <2>6
<1> QED BY <1>1, <1>2, <1>3, <1>4, <1>5 DEF Kind

LEMMA SyncedRounds ==
  ASSUME NEW s \in Snapshots, NEW done, NEW rs, NEW planId, NEW start, NEW accepted,
         IsApplying(done, rs, planId, s, start, accepted),
         HasFields(start), HasAll(s, start)
  PROVE  \A n \in 0..Len(rs) : Learning(done[n].account) = Learning(start)
<1> DEFINE S == {n \in Nat : /\ HasFields(done[n].account)
                             /\ Learning(done[n].account) = Learning(start)}
<1>0. /\ Len(rs) \in Nat /\ \A n \in 1..Len(rs) : Kind(rs[n], planId, s, start)
      /\ IsLoop(done, start, rs, s, accepted)
  BY DEF IsApplying
<1>1. 0 \in S
  BY <1>0 DEF IsLoop, Start
<1>2. ASSUME NEW n \in 1..Len(rs), n - 1 \in S
      PROVE  n \in S
  <2> DEFINE old == done[n - 1]  then == done[n]
             answer == ApplyResolution(old.account, s, rs[n])
  <2>1. then = ApplyNext(s, accepted, old, rs[n])
    BY <1>0 DEF IsLoop
  <2>2. HasFields(old.account) /\ Learning(old.account) = Learning(start)
    BY <1>2
  <2>3. HasFields(answer.account) /\ Learning(answer.account) = Learning(start)
    BY <1>0, <2>2, SyncedResolution
  <2>4. then = old \/ then.account = answer.account
    BY <2>1, NextRound
  <2>5. HasFields(then.account) /\ Learning(then.account) = Learning(start)
    BY <2>2, <2>3, <2>4
  <2> QED BY <1>0, <2>5
<1> HIDE DEF S
<1>3. \A n \in 0..Len(rs) : n \in S
  BY <1>0, <1>1, <1>2, CountingUp
<1> QED BY <1>3 DEF S

LEMMA SyncedApply ==
  ASSUME NEW acc, HasFields(acc), NEW s \in Snapshots, HasAll(s, acc), NEW planId,
         NEW plan, plan = Resolve(planId, s, acc), NEW accepted
  PROVE  Learning(ApplyPlan(acc, plan, s, accepted).account) = Learning(acc)
<1>1. PICK done : IsApplying(done, plan.resolutions, planId, s, acc, accepted)
  BY PlanIsApplied
<1>2. \A n \in 0..Len(plan.resolutions) : Learning(done[n].account) = Learning(acc)
  BY <1>1, SyncedRounds
<1>3. Leaves(ApplyPlan(acc, plan, s, accepted), done, plan.resolutions, acc)
  BY <1>1, AppliedAccount
<1> QED BY <1>2, <1>3 DEF Leaves

\* The step that runs a snapshot is its run.
LEMMA RanIsRun ==
  ASSUME [Next]_vars, NEW s \in Snapshots, Ran(s)
  PROVE  Run(s) \/ UNCHANGED vars
<1>1. ASSUME NEW m \in WordWrites, WriteWord(m) PROVE FALSE
  BY <1>1 DEF WriteWord, Take, Say, Ran
<1>2. ASSUME NEW m \in EventWrites, WriteEvent(m) PROVE FALSE
  BY <1>2 DEF WriteEvent, Take, Say, Ran
<1>3. ASSUME NEW i \in InterestWrites, WriteInterest(i) PROVE FALSE
  BY <1>3 DEF WriteInterest, Take, Say, Ran
<1>4. CASE WriteAudit
  BY <1>4 DEF WriteAudit, Take, Say, Ran
<1>5. ASSUME NEW t \in Snapshots, Run(t) PROVE Run(s)
  <2>1. t.id = s.id
    BY <1>5 DEF Run, Say, Ran
  <2>2. t = s
    BY <2>1, SnapshotsAssumption
  <2> QED BY <1>5, <2>2
<1>6. ASSUME NEW flaw \in Flaws, RefuseRequest(flaw) PROVE FALSE
  BY <1>6 DEF RefuseRequest, Say, Ran
<1>7. ASSUME NEW t \in Previewed, PreviewRoute(t) PROVE FALSE
  BY <1>7 DEF PreviewRoute, Say, Ran
<1>8. ASSUME NEW req, ApplyNew(req) PROVE FALSE
  BY <1>8 DEF ApplyNew, Say, Ran
<1>9. ASSUME NEW req, ApplyAgain(req) PROVE FALSE
  BY <1>9 DEF ApplyAgain, Say, Ran
<1>10. CASE ReadRoutes
  BY <1>10 DEF ReadRoutes, Say, Ran
<1> QED
  BY <1>1, <1>2, <1>3, <1>4, <1>5, <1>6, <1>7, <1>8, <1>9, <1>10 DEF Next

\* A snapshot the account has already adds no word, state, event, day, pack or
\* interest when it is run again, whatever was written between.
THEOREM RerunKeepsLearning == Spec => RerunAddsNothing
<1> DEFINE Inv == AccountInv(account)
<1>1. Init => Inv
  BY EmptyInv DEF Init
<1>2. Inv /\ [Next]_vars => Inv'
  BY StepKeepsInv
<1>3. ASSUME Inv, [Next]_vars
      PROVE  [\A s \in Snapshots :
                (Ran(s) /\ IsSynced(s)) => Learning(account') = Learning(account)]_vars
  <2> SUFFICES ASSUME NEW s \in Snapshots, Ran(s), IsSynced(s), ~UNCHANGED vars
               PROVE  Learning(account') = Learning(account)
    OBVIOUS
  <2> DEFINE plan == RunPlan(s)
  <2>1. Run(s)
    BY <1>3, RanIsRun
  <2>2. HasAll(s, account)
    BY DEF IsSynced, HasAll, EventIds
  <2>3. HasFields(account)
    BY <1>3 DEF AccountInv, AccountRows
  <2>4. plan = Resolve(<<"run", s.id>>, s, account)
    BY DEF RunPlan
  <2>5. \/ account' = account
        \/ account' = ApplyPlan(account, plan, s, None).account
    BY <2>1 DEF Run, Harness
  <2> HIDE DEF plan
  <2>6. Learning(ApplyPlan(account, plan, s, None).account) = Learning(account)
    BY <2>2, <2>3, <2>4, SyncedApply
  <2> QED BY <2>5, <2>6
<1> HIDE DEF Inv
<1> QED BY <1>1, <1>2, <1>3, PTL DEF Spec, RerunAddsNothing

-----------------------------------------------------------------------------
(* What was applied was previewed                                            *)

\* Words, events and interests that an account has it keeps.
Below(acc, later) ==
  /\ \A w \in Words : acc.savedWords[w] # None => later.savedWords[w] # None
  /\ \A e \in Range(acc.reviewEvents) : e \in Range(later.reviewEvents)
  /\ \A i \in Range(acc.upgradeInterest) : i \in Range(later.upgradeInterest)

LEMMA BelowIsTransitive ==
  ASSUME NEW a, NEW b, NEW c, Below(a, b), Below(b, c)
  PROVE  Below(a, c)
BY DEF Below

LEMMA SameIsBelow ==
  ASSUME NEW acc, NEW later, Learning(later) = Learning(acc)
  PROVE  Below(acc, later)
BY DEF Learning, Below

LEMMA EventGrows ==
  ASSUME NEW acc, AccountInv(acc), NEW event, NEW key,
         NEW answer, answer = RecordReviewEvent(acc, event, key)
  PROVE  Below(acc, answer.account)
<1>0. HasFields(acc)
  BY DEF AccountInv, AccountRows
<1>1. CASE EventRefused(answer, acc) \/ EventAgain(answer, acc, event, key)
  BY <1>1 DEF EventRefused, EventAgain, Below
<1>2. CASE EventKnown(answer, acc, event, key)
  <2> DEFINE next == answer.account  fingerprint == EventFingerprint(event)
  <2>1. next = Remember(acc, key, fingerprint, "duplicate_review_event")
    BY <1>2 DEF EventKnown
  <2> HIDE DEF next, fingerprint
  <2>2. Learning(next) = Learning(acc)
    BY <1>0, <2>1, RememberWrites
  <2>3. Below(acc, next)
    BY <2>2, SameIsBelow
  <2> QED BY <2>3 DEF next
<1>3. CASE EventTaken(answer, acc, event, key)
  <2> DEFINE next == answer.account
  <2>1. next = AcceptEvent(acc, event, key)
    BY <1>3 DEF EventTaken
  <2> HIDE DEF next
  <2>2. AddsEvent(next, acc, event, key)
    BY <1>0, <2>1, AcceptWrites
  <2>3. /\ next.savedWords = acc.savedWords /\ next.upgradeInterest = acc.upgradeInterest
        /\ \E e : next.reviewEvents = Append(acc.reviewEvents, e)
    BY <2>2 DEF AddsEvent
  <2>4. acc.reviewEvents \in Seq(Range(acc.reviewEvents))
    BY DEF AccountInv, AccountRows
  <2>5. \A e \in Range(acc.reviewEvents) : e \in Range(next.reviewEvents)
    BY <2>3, <2>4, AppendGrows
  <2> QED BY <2>3, <2>5 DEF Below, next
<1> QED BY <1>1, <1>2, <1>3, EventOutcomes

LEMMA WordGrows ==
  ASSUME NEW acc, AccountInv(acc), NEW word, word # None, NEW key,
         NEW answer, answer = RecordSavedWord(acc, word, key)
  PROVE  Below(acc, answer.account)
<1>0. HasFields(acc) /\ DOMAIN acc.savedWords = Words
  BY DEF AccountInv, AccountRows
<1>1. CASE EventRefused(answer, acc) \/ WordAgain(answer, acc, word, key)
  BY <1>1 DEF EventRefused, WordAgain, Below
<1>2. CASE WordKnown(answer, acc, word, key)
  <2> DEFINE next == answer.account  fingerprint == WordFingerprint(word)
  <2>1. next = Remember(acc, key, fingerprint, "duplicate_saved_word")
    BY <1>2 DEF WordKnown
  <2> HIDE DEF next, fingerprint
  <2>2. Learning(next) = Learning(acc)
    BY <1>0, <2>1, RememberWrites
  <2>3. Below(acc, next)
    BY <2>2, SameIsBelow
  <2> QED BY <2>3 DEF next
<1>3. CASE WordTaken(answer, acc, word, key)
  <2> DEFINE next == answer.account
             item == OrNew(acc.reviewState[word.slug], word.savedAt)
  <2>1. next = SaveNewWord(acc, word, key, item)
    BY <1>3 DEF WordTaken
  <2> HIDE DEF next, item
  <2>2. SavesWord(next, acc, word, item)
    BY <1>0, <2>1, SaveWrites
  <2>3. next.savedWords = [acc.savedWords EXCEPT ![word.slug] = word]
        /\ next.reviewEvents = acc.reviewEvents /\ next.upgradeInterest = acc.upgradeInterest
    BY <2>2 DEF SavesWord
  <2>4. \A w \in Words : acc.savedWords[w] # None => next.savedWords[w] # None
    BY <1>0, <2>3
  <2> QED BY <2>3, <2>4 DEF Below, next
<1> QED BY <1>1, <1>2, <1>3, WordOutcomes

LEMMA InterestGrows ==
  ASSUME NEW acc, AccountInv(acc), NEW interest,
         NEW next, next = RecordUpgradeInterest(acc, interest).account
  PROVE  Below(acc, next)
<1>1. HasFields(acc) /\ acc.upgradeInterest \in Seq(Range(acc.upgradeInterest))
  BY DEF AccountInv, AccountRows
<1>2. /\ KeepsEvidence(next, acc)
      /\ \/ next = acc
         \/ next.upgradeInterest = Append(acc.upgradeInterest, interest.id)
  BY <1>1, InterestAdds
<1>3. \A i \in Range(acc.upgradeInterest) : i \in Range(next.upgradeInterest)
  BY <1>1, <1>2, AppendGrows
<1> QED BY <1>2, <1>3 DEF KeepsEvidence, Below

LEMMA AuditGrows ==
  ASSUME NEW acc, AccountInv(acc), NEW next, next = RecordSyncAudit(acc).account
  PROVE  Below(acc, next)
<1>1. HasFields(acc)
  BY DEF AccountInv, AccountRows
<1> QED BY <1>1, AuditWrites, SameIsBelow

LEMMA ResolutionGrows ==
  ASSUME NEW acc, AccountInv(acc), NEW s \in Snapshots, NEW planId, NEW server,
         NEW r, Kind(r, planId, s, server),
         NEW answer, answer = ApplyResolution(acc, s, r)
  PROVE  Below(acc, answer.account)
<1>0. DoesResolution(answer, acc, s, r)
  BY ResolutionApplied
<1>1. CASE r.action = "reject_blocked"
  BY <1>0, <1>1 DEF DoesResolution, Below
<1>2. CASE r.action \in Audited \/ r.action = "recompute_from_events"
  <2>1. AuditOnly(answer, acc)
    BY <1>0, <1>2 DEF DoesResolution
  <2> QED BY <2>1, AuditGrows DEF AuditOnly
<1>3. ASSUME NEW w, IsNew(s, server, w), r = ImportOf(planId, w)
      PROVE  Below(acc, answer.account)
  <2>1. r.action = "import_to_server" /\ r.of = w
    BY <1>3, ResolutionFields DEF ImportOf
  <2>2. answer = RecordSavedWord(acc, s.savedWords[w], r.id) /\ s.savedWords[w] # None
    BY <1>0, <1>3, <2>1 DEF DoesResolution, IsNew
  <2> QED BY <2>2, WordGrows
<1>4. ASSUME r.action = "merge_event_evidence"
      PROVE  Below(acc, answer.account)
  <2>1. \E event, key : answer = RecordReviewEvent(acc, event, key)
    BY <1>0, <1>4 DEF DoesResolution
  <2> QED BY <2>1, EventGrows
<1>5. ASSUME r.action = "attribution_only"
      PROVE  Below(acc, answer.account)
  <2>1. \E i : answer = RecordUpgradeInterest(acc, i)
    BY <1>0, <1>5 DEF DoesResolution
  <2> QED BY <2>1, InterestGrows
<1>6. /\ \A id : AttributionOf(planId, id).action = "attribution_only"
      /\ \A id : MergeOf(planId, id).action = "merge_event_evidence"
  BY ResolutionFields DEF AttributionOf, MergeOf
<1> QED BY <1>1, <1>2, <1>3, <1>4, <1>5, <1>6 DEF Kind

LEMMA RoundsGrow ==
  ASSUME NEW s \in Snapshots, NEW done, NEW rs, NEW planId, NEW acc, NEW accepted,
         IsApplying(done, rs, planId, s, acc, accepted), AccountInv(acc)
  PROVE  \A n \in 0..Len(rs) : Below(acc, done[n].account)
<1> DEFINE S == {n \in 0..Len(rs) : Below(acc, done[n].account)}
<1>0. /\ Len(rs) \in Nat /\ \A n \in 1..Len(rs) : Kind(rs[n], planId, s, acc)
      /\ IsLoop(done, acc, rs, s, accepted)
  BY DEF IsApplying
<1>1. 0 \in S
  <2>1. done[0].account = acc
    BY <1>0 DEF IsLoop, Start
  <2> QED BY <1>0, <2>1 DEF Below
<1>2. ASSUME NEW n \in 1..Len(rs), n - 1 \in S
      PROVE  n \in S
  <2> DEFINE old == done[n - 1]  then == done[n]
             answer == ApplyResolution(old.account, s, rs[n])
  <2>1. then = ApplyNext(s, accepted, old, rs[n])
    BY <1>0 DEF IsLoop
  <2>2. Below(acc, old.account) /\ n - 1 \in 0..Len(rs) /\ n \in 0..Len(rs)
    BY <1>2, <1>0
  <2>3. AccountInv(old.account)
    BY <2>2, RoundsKeepInv
  <2>4. Below(old.account, answer.account)
    BY <1>0, <2>3, ResolutionGrows
  <2>5. then = old \/ then.account = answer.account
    BY <2>1, NextRound
  <2>6. Below(acc, then.account)
    BY <2>2, <2>4, <2>5, BelowIsTransitive
  <2> QED BY <2>2, <2>6
<1> HIDE DEF S
<1>3. \A n \in 0..Len(rs) : n \in S
  BY <1>0, <1>1, <1>2, CountingUp
<1> QED BY <1>3 DEF S

LEMMA ApplyGrows ==
  ASSUME NEW acc, AccountInv(acc), NEW s \in Snapshots, NEW planId,
         NEW plan, plan = Resolve(planId, s, acc), NEW accepted
  PROVE  Below(acc, ApplyPlan(acc, plan, s, accepted).account)
<1>1. PICK done : IsApplying(done, plan.resolutions, planId, s, acc, accepted)
  BY PlanIsApplied
<1>2. \A n \in 0..Len(plan.resolutions) : Below(acc, done[n].account)
  BY <1>1, RoundsGrow
<1>3. Leaves(ApplyPlan(acc, plan, s, accepted), done, plan.resolutions, acc)
  BY <1>1, AppliedAccount
<1>4. Below(acc, acc)
  BY DEF Below
<1> QED BY <1>2, <1>3, <1>4 DEF Leaves

\* No step takes a word or an event from the account.
LEMMA StepGrows ==
  ASSUME AccountInv(account), [Next]_vars
  PROVE  Below(account, account')
<1>1. CASE UNCHANGED account
  BY <1>1 DEF Below
<1>2. ASSUME NEW m \in WordWrites, WriteWord(m)
      PROVE  Below(account, account')
  <2>1. account' = RecordSavedWord(account, m.word, m.key).account /\ m.word # None
    BY <1>2, WordsAssumption DEF WriteWord, Take
  <2> QED BY <2>1, WordGrows
<1>3. ASSUME NEW m \in EventWrites, WriteEvent(m)
      PROVE  Below(account, account')
  <2>1. account' = RecordReviewEvent(account, m.event, m.key).account
    BY <1>3 DEF WriteEvent, Take
  <2> QED BY <2>1, EventGrows
<1>4. ASSUME NEW i \in InterestWrites, WriteInterest(i)
      PROVE  Below(account, account')
  <2>1. account' = RecordUpgradeInterest(account, i).account
    BY <1>4 DEF WriteInterest, Take
  <2> QED BY <2>1, InterestGrows
<1>5. CASE WriteAudit
  BY <1>5, AuditGrows DEF WriteAudit, Take
<1>6. ASSUME NEW s \in Snapshots, Run(s)
      PROVE  Below(account, account')
  <2> DEFINE plan == RunPlan(s)
  <2>1. \/ account' = account
        \/ account' = ApplyPlan(account, plan, s, None).account
    BY <1>6 DEF Run, Harness
  <2>2. plan = Resolve(<<"run", s.id>>, s, account)
    BY DEF RunPlan
  <2> HIDE DEF plan
  <2>3. Below(account, ApplyPlan(account, plan, s, None).account)
    BY <2>2, ApplyGrows
  <2> QED BY <1>1, <2>1, <2>3
<1>7. ASSUME NEW flaw \in Flaws, RefuseRequest(flaw)
      PROVE  UNCHANGED account
  BY <1>7 DEF RefuseRequest
<1>8. ASSUME NEW s \in Previewed, PreviewRoute(s)
      PROVE  UNCHANGED account
  BY <1>8 DEF PreviewRoute
<1>9. ASSUME NEW req, ApplyNew(req) \/ ApplyAgain(req)
      PROVE  UNCHANGED account
  BY <1>9 DEF ApplyNew, ApplyAgain
<1>10. CASE ReadRoutes
  BY <1>1, <1>10 DEF ReadRoutes
<1>11. CASE UNCHANGED vars
  BY <1>1, <1>11 DEF vars
<1> QED
  BY <1>1, <1>2, <1>3, <1>4, <1>5, <1>6, <1>7, <1>8, <1>9, <1>10, <1>11 DEF Next

\* No event of an unblocked plan's snapshot is put aside.
LEMMA AllPassed ==
  ASSUME NEW s \in Snapshots, NEW planId, NEW server,
         NEW plan, plan = Resolve(planId, s, server), plan.status # "blocked"
  PROVE  Passed(Sorted(s), OnServer(server)) = 1..Len(s.reviewEvents)
<1> DEFINE rs == plan.resolutions  m == Len(s.reviewEvents)
           passed == Passed(Sorted(s), OnServer(server))
<1>1. PICK a : IsPlan(plan, planId, s, server, a)
  BY SnapshotFacts, ResolvePlan
<1>2. ASSUME NEW n \in 1..m
      PROVE  n \in passed
  <2>1. a \in Nat /\ m \in Nat /\ a + m <= Len(rs) /\ Len(rs) \in Nat /\ DOMAIN rs = 1..Len(rs)
    BY <1>1 DEF IsPlan
  <2>2. rs[a + n] = EventResolution(planId, Sorted(s), OnServer(server), n)
    BY <1>1 DEF IsPlan
  <2>3. a + n \in DOMAIN rs
    BY <2>1
  <2>4. rs[a + n] \in Range(rs)
    BY <2>3 DEF Range
  <2>5. rs[a + n].action # "reject_blocked"
    BY <1>1, <2>4 DEF IsPlan
  <2> QED BY <2>2, <2>5, SnapshotFacts, EventKinds
<1>3. passed \subseteq DOMAIN Sorted(s)
  BY DEF Passed
<1>4. DOMAIN Sorted(s) = 1..m
  BY SnapshotFacts
<1> HIDE DEF passed
<1> QED BY <1>2, <1>3, <1>4 DEF passed

\* What is merged into an account was to be merged before.
LEMMA MergesShrink ==
  ASSUME NEW sorted, NEW before, NEW now, before \subseteq now,
         Passed(sorted, before) = Passed(sorted, now),
         NEW n, n \in Merged(sorted, now)
  PROVE  n \in Merged(sorted, before)
<1> DEFINE passed == Passed(sorted, now)
           earlier == {sorted[i] : i \in {m \in passed : m < n}}
<1>1. n \in passed /\ ~IsDuplicate(sorted[n], earlier, now)
  BY DEF Merged
<1> HIDE DEF earlier
<1>2. ~IsDuplicate(sorted[n], earlier, before)
  BY <1>1 DEF IsDuplicate
<1> HIDE DEF passed
<1>3. Merged(sorted, before) =
        {i \in passed : ~IsDuplicate(sorted[i], {sorted[j] : j \in {m \in passed : m < i}}, before)}
  BY DEF Merged, passed
<1> QED BY <1>1, <1>2, <1>3 DEF earlier

\* What a plan writes
Writes == {"import_to_server", "merge_event_evidence", "attribution_only"}

\* A plan made later asks for no write the earlier one did not ask for.
LEMMA PlansShrink ==
  ASSUME NEW s \in Snapshots, NEW planId, NEW acc, NEW later, Below(acc, later),
         NEW plan, plan = Resolve(planId, s, acc), plan.status # "blocked",
         NEW now, now = Resolve(planId, s, later), now.status # "blocked",
         NEW r, Kind(r, planId, s, later), r.action \in Writes
  PROVE  r \in Range(plan.resolutions)
<1> DEFINE rs == plan.resolutions  m == Len(s.reviewEvents)
<1>1. PICK a : IsPlan(plan, planId, s, acc, a)
  BY SnapshotFacts, ResolvePlan
<1>2. \A x : WordPart(x, planId, s, acc) \/ RestPart(x, planId, s, acc) => x \in Range(rs)
  BY <1>1 DEF IsPlan
<1>3. ASSUME NEW w, IsNew(s, later, w), r = ImportOf(planId, w)
      PROVE  r \in Range(rs)
  <2>1. IsNew(s, acc, w)
    BY <1>3 DEF IsNew, Below
  <2> QED BY <1>2, <1>3, <2>1, NewIsImported
<1>4. ASSUME NEW i \in DOMAIN s.upgradeInterest, s.upgradeInterest[i].valid,
             r = AttributionOf(planId, s.upgradeInterest[i].id)
      PROVE  r \in Range(rs)
  BY <1>2, <1>4, InterestIsAttributed
<1>5. ASSUME NEW n \in MergedOf(s, later) \cap (1..m),
             r = MergeOf(planId, Sorted(s)[n].eventId)
      PROVE  r \in Range(rs)
  <2>1. OnServer(acc) \subseteq OnServer(later)
    BY DEF OnServer, Below
  <2>2. Passed(Sorted(s), OnServer(acc)) = Passed(Sorted(s), OnServer(later))
    <3>1. Passed(Sorted(s), OnServer(acc)) = 1..m
      BY AllPassed
    <3>2. Passed(Sorted(s), OnServer(later)) = 1..m
      BY AllPassed
    <3> QED BY <3>1, <3>2
  <2>3. n \in MergedOf(s, acc)
    BY <1>5, <2>1, <2>2, MergesShrink DEF MergedOf
  <2>4. a \in Nat /\ m \in Nat /\ a + m <= Len(rs) /\ Len(rs) \in Nat /\ DOMAIN rs = 1..Len(rs)
    BY <1>1 DEF IsPlan
  <2>5. rs[a + n] = EventResolution(planId, Sorted(s), OnServer(acc), n)
    BY <1>1, <1>5 DEF IsPlan
  <2>6. rs[a + n] = r
    BY <1>5, <2>3, <2>5, SnapshotFacts, EventKinds
  <2>7. a + n \in DOMAIN rs
    BY <1>5, <2>4
  <2> QED BY <2>6, <2>7 DEF Range
<1>6. r.action # "reject_blocked" /\ r.action \notin Audited /\ r.action # "recompute_from_events"
  BY DEF Writes, Audited
<1> QED BY <1>3, <1>4, <1>5, <1>6 DEF Kind

\* An accepted answer is that of a write.
LEMMA AcceptedWrites ==
  ASSUME NEW acc, NEW s, NEW planId, NEW server, NEW r, Kind(r, planId, s, server),
         NEW answer, answer = ApplyResolution(acc, s, r), answer.status = "accepted"
  PROVE  r.action \in Writes
<1>0. DoesResolution(answer, acc, s, r)
  BY ResolutionApplied
<1>1. r.action # "reject_blocked"
  BY <1>0 DEF DoesResolution
<1>2. ~(r.action \in Audited \/ r.action = "recompute_from_events")
  BY <1>0 DEF DoesResolution, AuditOnly
<1>3. /\ \A w : ImportOf(planId, w).action = "import_to_server"
      /\ \A id : AttributionOf(planId, id).action = "attribution_only"
      /\ \A id : MergeOf(planId, id).action = "merge_event_evidence"
  BY ResolutionFields DEF ImportOf, AttributionOf, MergeOf
<1> QED BY <1>1, <1>2, <1>3 DEF Kind, Writes

\* What is applied is accepted, a write, and in the plan.
LEMMA AppliedAreAccepted ==
  ASSUME NEW s, NEW done, NEW rs, NEW planId, NEW acc, NEW accepted,
         IsApplying(done, rs, planId, s, acc, accepted)
  PROVE  \A n \in 0..Len(rs) : \A r \in Range(done[n].applied) :
           IsAccepted(accepted, r) /\ r.action \in Writes /\ Kind(r, planId, s, acc)
<1> DEFINE Fine(r) == IsAccepted(accepted, r) /\ r.action \in Writes /\ Kind(r, planId, s, acc)
           S == {n \in Nat : /\ done[n].applied \in Seq(Range(done[n].applied))
                             /\ \A r \in Range(done[n].applied) : Fine(r)}
<1>0. /\ Len(rs) \in Nat /\ \A n \in 1..Len(rs) : Kind(rs[n], planId, s, acc)
      /\ IsLoop(done, acc, rs, s, accepted)
  BY DEF IsApplying
<1>1. 0 \in S
  <2>1. done[0].applied = << >> /\ Range(<< >>) = {} /\ << >> \in Seq({})
    BY <1>0 DEF IsLoop, Start, Range
  <2> HIDE DEF Fine
  <2> QED BY <2>1
<1>2. ASSUME NEW n \in 1..Len(rs), n - 1 \in S
      PROVE  n \in S
  <2> DEFINE old == done[n - 1]  then == done[n]  r == rs[n]
             answer == ApplyResolution(old.account, s, r)
  <2>1. then = ApplyNext(s, accepted, old, r)
    BY <1>0 DEF IsLoop
  <2>2. /\ old.applied \in Seq(Range(old.applied))
        /\ \A x \in Range(old.applied) : Fine(x)
    BY <1>2
  <2>3. \/ then.applied = old.applied
        \/ /\ IsAccepted(accepted, r) /\ answer.status = "accepted"
           /\ then.applied = Append(old.applied, r)
    <3>1. then = IF old.refused \/ ~IsAccepted(accepted, r) THEN old
                 ELSE [account |-> answer.account, refused |-> ~IsOk(answer),
                       applied |-> IF answer.status = "accepted"
                                   THEN Append(old.applied, r) ELSE old.applied]
      BY <2>1 DEF ApplyNext
    <3> HIDE DEF old, then, r, answer, Fine
    <3> QED BY <3>1
  <2>4. CASE then.applied = old.applied
    BY <1>0, <2>2, <2>4
  <2>5. ASSUME IsAccepted(accepted, r), answer.status = "accepted",
               then.applied = Append(old.applied, r)
        PROVE  n \in S
    <3>1. Fine(r)
      BY <1>0, <2>5, AcceptedWrites
    <3> HIDE DEF Fine, old, then, r, answer
    <3>2. /\ then.applied \in Seq(Range(then.applied))
          /\ \A x \in Range(then.applied) : x \in Range(old.applied) \/ x = r
      BY <2>2, <2>5, AppendGrows
    <3>3. \A x \in Range(then.applied) : Fine(x)
      BY <2>2, <3>1, <3>2
    <3> QED BY <1>0, <3>2, <3>3 DEF then
  <2> QED BY <2>3, <2>4, <2>5
<1> HIDE DEF S
<1>3. \A n \in 0..Len(rs) : n \in S
  BY <1>0, <1>1, <1>2, CountingUp
<1> QED BY <1>3 DEF S

\* The client's preview was made from an account that has only grown since.
PreviewInv ==
  preview # None =>
    /\ preview.snapshot \in Snapshots
    /\ \E acc : /\ Below(acc, account)
                /\ preview.plan = Resolve(<<"preview", preview.snapshot.id>>,
                                          preview.snapshot, acc)

LEMMA AppliedIsShown ==
  ASSUME PreviewInv, NEW req \in Requests, ~IsBlocked(req),
         NEW r \in Range(ApplyOutcome(req).applied)
  PROVE  /\ IsAccepted(req.accepted, r)
         /\ req.plan # None => \E shown \in Effective(req.plan) : shown.id = r.id
<1> DEFINE s == preview.snapshot  plan == ApplyPlanOf(req)
           planId == IF req.plan # None THEN req.plan.planId ELSE <<"apply", req.key>>
<1>1. /\ preview # None /\ req.snapshot = s /\ req.plan \in {None, preview.plan}
  BY DEF Requests
<1>2. s \in Snapshots
  BY <1>1 DEF PreviewInv
<1>3. plan = Resolve(planId, s, account)
  BY <1>1 DEF ApplyPlanOf
<1>4. CanApply(plan, req.accepted)
  BY DEF IsBlocked
<1>5. ApplyOutcome(req) = ApplyPlan(account, plan, s, req.accepted)
  BY <1>1, <1>4 DEF ApplyOutcome, Harness
<1> HIDE DEF plan, planId, s
<1>6. PICK done : IsApplying(done, plan.resolutions, planId, s, account, req.accepted)
  BY <1>2, <1>3, PlanIsApplied
<1>7. Leaves(ApplyOutcome(req), done, plan.resolutions, account)
  BY <1>5, <1>6, AppliedAccount
<1>8. \A n \in 0..Len(plan.resolutions) : \A x \in Range(done[n].applied) :
        /\ IsAccepted(req.accepted, x) /\ x.action \in Writes
        /\ Kind(x, planId, s, account)
  BY <1>6, AppliedAreAccepted
<1>9. IsAccepted(req.accepted, r) /\ r.action \in Writes /\ Kind(r, planId, s, account)
  <2>1. Range(<< >>) = {}
    BY DEF Range
  <2> QED BY <1>7, <1>8, <2>1 DEF Leaves
<1>10. ASSUME req.plan # None
       PROVE  \E shown \in Effective(req.plan) : shown.id = r.id
  <2>1. req.plan = preview.plan
    BY <1>1, <1>10
  <2>2. PICK acc : Below(acc, account) /\ req.plan = Resolve(<<"preview", s.id>>, s, acc)
    BY <1>1, <2>1 DEF PreviewInv, s
  <2>3. planId = <<"preview", s.id>>
    <3>1. req.plan.planId = <<"preview", s.id>>
      BY <2>2 DEF Resolve
    <3> QED BY <1>10, <3>1 DEF planId
  <2>4. req.plan.status # "blocked" /\ plan.status # "blocked"
    BY <1>4, <1>10 DEF IsBlocked, CanApply
  <2>5. r \in Range(req.plan.resolutions)
    BY <1>2, <1>3, <1>9, <2>2, <2>3, <2>4, PlansShrink
  <2>6. r \in Effective(req.plan)
    BY <1>9, <2>5 DEF Effective, Writes
  <2> QED BY <2>6
<1> QED BY <1>9, <1>10

\* What an apply request carried out was previewed and confirmed, whatever the
\* account became between: for any snapshots, requests and writes.
THEOREM AppliedIsPreviewed == Spec => []AppliedWasPreviewed
<1> DEFINE Inv == /\ AccountInv(account) /\ PreviewInv
                  /\ DOMAIN ledger = ApplyKeys /\ AppliedWasPreviewed
<1>1. Init => Inv
  <2> SUFFICES ASSUME Init PROVE Inv
    OBVIOUS
  <2>1. AccountInv(account)
    BY EmptyInv DEF Init
  <2> QED BY <2>1 DEF Init, PreviewInv, AppliedWasPreviewed
<1>2. ASSUME Inv, [Next]_vars
      PROVE  Inv'
  <2>1. AccountInv(account') /\ Below(account, account')
    BY <1>2, StepKeepsInv, StepGrows
  <2>2. UNCHANGED preview => PreviewInv'
    BY <1>2, <2>1, BelowIsTransitive DEF PreviewInv
  <2>3. UNCHANGED ledger => DOMAIN ledger' = ApplyKeys /\ AppliedWasPreviewed'
    BY <1>2 DEF AppliedWasPreviewed
  <2>4. ASSUME NEW s \in Previewed, PreviewRoute(s)
        PROVE  PreviewInv' /\ UNCHANGED ledger
    <3>1. preview' = [snapshot |-> s, plan |-> Resolve(<<"preview", s.id>>, s, account)]
          /\ UNCHANGED ledger
      BY <2>4 DEF PreviewRoute
    <3>2. s \in Snapshots
      BY SnapshotsAssumption
    <3> QED BY <2>1, <3>1, <3>2 DEF PreviewInv
  <2>5. ASSUME NEW req \in Requests, ApplyNew(req)
        PROVE  UNCHANGED preview /\ DOMAIN ledger' = ApplyKeys /\ AppliedWasPreviewed'
    <3> DEFINE outcome == ApplyOutcome(req)
               body == [applied |-> outcome.applied, digest |-> Digest(outcome.account)]
               blocked == [request |-> req, status |-> "blocked_plan", body |-> None]
               done == [request |-> req, status |-> "ok", body |-> body]
    <3>1. UNCHANGED preview
      BY <2>5 DEF ApplyNew
    <3>2. req.key \in ApplyKeys
      BY DEF Requests
    <3>3. \/ UNCHANGED ledger
          \/ ledger' = [ledger EXCEPT ![req.key] = blocked]
          \/ ~IsBlocked(req) /\ ledger' = [ledger EXCEPT ![req.key] = done]
      BY <2>5 DEF ApplyNew, Recorded
    <3>4. \A r \in Range(outcome.applied) : ~IsBlocked(req) =>
            /\ IsAccepted(req.accepted, r)
            /\ req.plan # None => \E shown \in Effective(req.plan) : shown.id = r.id
      BY <1>2, AppliedIsShown
    <3>5. /\ blocked.body = None /\ done.request = req /\ done.body.applied = outcome.applied
      OBVIOUS
    <3> HIDE DEF outcome, blocked, done
    <3>6. DOMAIN ledger' = ApplyKeys
      BY <1>2, <3>3
    <3>7. ASSUME NEW k \in ApplyKeys
          PROVE  \/ ledger'[k] = ledger[k] \/ ledger'[k] = blocked
                 \/ ~IsBlocked(req) /\ ledger'[k] = done
      BY <1>2, <3>3
    <3>8. AppliedWasPreviewed'
      <4> SUFFICES ASSUME NEW k \in ApplyKeys, ledger'[k] # None, ledger'[k].body # None,
                          NEW r \in Range(ledger'[k].body.applied)
                   PROVE  LET asked == ledger'[k].request IN
                          /\ IsAccepted(asked.accepted, r)
                          /\ asked.plan # None =>
                               \E shown \in Effective(asked.plan) : shown.id = r.id
        BY DEF AppliedWasPreviewed
      <4>1. CASE ledger'[k] = ledger[k]
        BY <1>2, <4>1 DEF AppliedWasPreviewed
      <4>2. CASE ledger'[k] = blocked
        BY <4>2, <3>5
      <4>3. CASE ~IsBlocked(req) /\ ledger'[k] = done
        BY <4>3, <3>4, <3>5
      <4> QED BY <4>1, <4>2, <4>3, <3>7
    <3> QED BY <3>1, <3>6, <3>8
  <2>6. \/ UNCHANGED <<preview, ledger>>
        \/ \E s \in Previewed : PreviewRoute(s)
        \/ \E req \in Requests : ApplyNew(req)
    BY <1>2 DEF Next, vars, WriteWord, WriteEvent, WriteInterest, WriteAudit, Take, Run,
                RefuseRequest, ApplyAgain, ReadRoutes
  <2> QED BY <2>1, <2>2, <2>3, <2>4, <2>5, <2>6
<1>3. Inv => AppliedWasPreviewed
  OBVIOUS
<1> HIDE DEF Inv
<1> QED BY <1>1, <1>2, <1>3, PTL DEF Spec

-----------------------------------------------------------------------------
(* Items that differ in when the word was first seen                         *)

\* All but createdAt is the same.
SameButTime(x, y) ==
  /\ x.box = y.box /\ x.mastery = y.mastery /\ x.correct = y.correct
  /\ x.wrong = y.wrong /\ x.streakCorrect = y.streakCorrect
  /\ x.weakScore = y.weakScore
  /\ x.lastReviewedAt = y.lastReviewedAt /\ x.nextDueAt = y.nextDueAt

\* What the next answer depends on: the dates only when the word has left box zero.
Nearly(x, y) ==
  /\ x.box = y.box /\ x.correct = y.correct /\ x.wrong = y.wrong
  /\ x.streakCorrect = y.streakCorrect /\ x.weakScore = y.weakScore
  /\ x.box # 0 => x.lastReviewedAt = y.lastReviewedAt /\ x.nextDueAt = y.nextDueAt

LEMMA NearlyAfter ==
  ASSUME NEW x \in Item, NEW y \in Item, Nearly(x, y), NEW a, EngineAnswer(a)
  PROVE  SameButTime(ItemAfter(x, a), ItemAfter(y, a))
<1>1. x.box \in 0..5 /\ y.box = x.box
  BY DEF Item, Boxes, Nearly
<1>2. RepeatedMistake(x) <=> RepeatedMistake(y)
  BY DEF RepeatedMistake, Nearly
<1>3. ShouldImprove(x, a) <=> ShouldImprove(y, a)
  BY <1>1 DEF ShouldImprove, ShouldAllowSmallImprovement
<1>4. x.box # 0 => (HasDelayedRecallDue(x, a.createdAt) <=> HasDelayedRecallDue(y, a.createdAt))
  BY DEF HasDelayedRecallDue, Nearly
<1>5. BoxAfter(x, a) = BoxAfter(y, a)
  <2> DEFINE improves == ShouldImprove(x, a)  due == HasDelayedRecallDue(x, a.createdAt)
             dueY == HasDelayedRecallDue(y, a.createdAt)  again == RepeatedMistake(x)
             up(b) == IF improves THEN ClampBox(b + 1) ELSE b
             result(b, d) ==
               IF a.result = "wrong" THEN IF again THEN 0 ELSE ClampBox(b - 1)
               ELSE IF up(b) = 5 /\ b < 5 /\ ~d THEN 4 ELSE up(b)
  <2>1. BoxAfter(x, a) = result(x.box, due)
    BY DEF BoxAfter
  <2>2. BoxAfter(y, a) = result(x.box, dueY)
    BY <1>1, <1>2, <1>3 DEF BoxAfter
  <2>3. x.box = 0 => up(x.box) # 5
    BY DEF ClampBox
  <2>4. x.box # 0 => (due <=> dueY)
    BY <1>4
  <2> HIDE DEF improves, due, dueY, again, up
  <2> QED BY <2>1, <2>2, <2>3, <2>4
<1>6. WeakScoreAfter(x, a) = WeakScoreAfter(y, a)
  BY <1>2 DEF WeakScoreAfter, WrongIncrease, Nearly
<1> DEFINE box == BoxAfter(x, a)  weak == WeakScoreAfter(x, a)
           correct == x.correct + One(a.result = "correct")
           wrong == x.wrong + One(a.result = "wrong")
           streak == IF a.result = "correct" THEN x.streakCorrect + 1 ELSE 0
           due == NextDueAt(box, a.createdAt, a.result)
           After(i) == [i EXCEPT !.box = box, !.correct = correct, !.wrong = wrong,
                          !.streakCorrect = streak, !.lastReviewedAt = a.createdAt,
                          !.nextDueAt = due, !.weakScore = weak]
<1>7. /\ ItemAfter(x, a) = [After(x) EXCEPT !.mastery = MasteryLabel(After(x))]
      /\ ItemAfter(y, a) = [After(y) EXCEPT !.mastery = MasteryLabel(After(y))]
  BY <1>5, <1>6 DEF ItemAfter, Nearly
<1> HIDE DEF box, weak, correct, wrong, streak, due
<1>8. ASSUME NEW i \in Item
      PROVE  /\ After(i).box = box /\ After(i).correct = correct
             /\ After(i).wrong = wrong /\ After(i).streakCorrect = streak
             /\ After(i).lastReviewedAt = a.createdAt /\ After(i).nextDueAt = due
             /\ After(i).weakScore = weak
             /\ "mastery" \in DOMAIN After(i)
  BY DEF Item
<1> HIDE DEF After
<1>9. MasteryLabel(After(x)) = MasteryLabel(After(y))
  BY <1>8 DEF MasteryLabel, WeakEvidence, ReviewCount
<1> DEFINE label == MasteryLabel(After(x))
           Done(i) == [After(i) EXCEPT !.mastery = label]
<1>10. ItemAfter(x, a) = Done(x) /\ ItemAfter(y, a) = Done(y)
  BY <1>7, <1>9
<1> HIDE DEF label
<1>11. ASSUME NEW i \in Item
       PROVE  /\ Done(i).box = box /\ Done(i).correct = correct
              /\ Done(i).wrong = wrong /\ Done(i).streakCorrect = streak
              /\ Done(i).lastReviewedAt = a.createdAt /\ Done(i).nextDueAt = due
              /\ Done(i).weakScore = weak /\ Done(i).mastery = label
  BY <1>8
<1> HIDE DEF Done
<1> QED BY <1>10, <1>11 DEF SameButTime

\* An item x of the account and the item y a plan reckons with: the same, or the
\* same but for the time; a word the account saved meanwhile may have a new one.
Similar(x, y) ==
  \/ x = y
  \/ y = None /\ \E t \in Nat : x = NewItem(t)
  \/ x \in Item /\ y \in Item /\ SameButTime(x, y)

LEMMA SimilarReviewed ==
  ASSUME NEW x \in Item \cup {None}, NEW y \in Item \cup {None}, Similar(x, y),
         NEW e, EngineAnswer(e)
  PROVE  /\ Similar(Reviewed(x, e), Reviewed(y, e))
         /\ Reviewed(x, e) \in Item /\ Reviewed(y, e) \in Item
<1> DEFINE u == OrNew(x, e.createdAt)  v == OrNew(y, e.createdAt)
<1>0. e.createdAt \in Nat /\ None \notin Item
  BY NamesAssumption DEF EngineAnswer
<1>1. u \in Item /\ v \in Item
  BY <1>0, NewItemType DEF OrNew
<1>2. \A s, t : Nearly(NewItem(s), NewItem(t))
  BY DEF Nearly, NewItem
<1>3. \A i : Nearly(i, i)
  BY DEF Nearly
<1>4. Nearly(u, v)
  <2>1. CASE x = y
    BY <1>3, <2>1
  <2>2. CASE y = None /\ \E t \in Nat : x = NewItem(t)
    BY <1>0, <1>2, <2>2, NewItemType DEF OrNew
  <2>3. CASE x \in Item /\ y \in Item /\ SameButTime(x, y)
    BY <1>0, <2>3 DEF OrNew, SameButTime, Nearly
  <2> QED BY <2>1, <2>2, <2>3 DEF Similar
<1> HIDE DEF u, v
<1>5. SameButTime(ItemAfter(u, e), ItemAfter(v, e))
  BY <1>1, <1>4, NearlyAfter
<1>6. ItemAfter(u, e) \in Item /\ ItemAfter(v, e) \in Item
  BY <1>1, ItemAfterType
<1> QED BY <1>5, <1>6 DEF Similar, Reviewed, u, v

LEMMA SimilarItems ==
  ASSUME NEW x \in Item \cup {None}, NEW y \in Item, Similar(x, y)
  PROVE  x \in Item /\ x.mastery = y.mastery /\ Untimed(x) = Untimed(y)
<1>1. None \notin Item
  BY NamesAssumption
<1>2. x \in Item /\ (x = y \/ SameButTime(x, y))
  BY <1>1 DEF Similar
<1>3. SameButTime(x, y) => Untimed(x) = Untimed(y) /\ x.mastery = y.mastery
  BY <1>2 DEF SameButTime, Untimed, Item
<1> QED BY <1>2, <1>3

-----------------------------------------------------------------------------
(* A run that is accepted, round by round                                    *)

\* The loop over an unblocked plan, in which no write was refused; a of the
\* resolutions are about words.
IsRunThrough(done, plan, planId, s, acc, a) ==
  /\ IsApplying(done, plan.resolutions, planId, s, acc, None)
  /\ IsPlan(plan, planId, s, acc, a)
  /\ ~done[Len(plan.resolutions)].refused

\* What a round is made from, and what it makes
IsRound(done, n, answer, s, r, planId, acc) ==
  /\ AccountInv(done[n - 1].account)
  /\ answer = ApplyResolution(done[n - 1].account, s, r)
  /\ Kind(r, planId, s, acc)
  /\ IsOk(answer) /\ done[n].account = answer.account

LEMMA RoundIsOk ==
  ASSUME NEW s \in Snapshots, NEW done, NEW plan, NEW planId, NEW acc, NEW a,
         IsRunThrough(done, plan, planId, s, acc, a), AccountInv(acc),
         NEW n \in 1..Len(plan.resolutions)
  PROVE  IsRound(done, n, ApplyResolution(done[n - 1].account, s, plan.resolutions[n]), s,
                 plan.resolutions[n], planId, acc)
<1> DEFINE rs == plan.resolutions  len == Len(rs)
           old == done[n - 1]  answer == ApplyResolution(old.account, s, rs[n])
<1>1. /\ len \in Nat /\ \A k \in 1..len : Kind(rs[k], planId, s, acc)
      /\ IsLoop(done, acc, rs, s, None) /\ ~done[len].refused
  BY DEF IsRunThrough, IsApplying
<1>2. \A k \in 1..len : done[k] = ApplyNext(s, None, done[k - 1], rs[k])
  BY <1>1 DEF IsLoop
<1>3. \A k \in 0..len : AccountInv(done[k].account)
  BY RoundsKeepInv DEF IsRunThrough
<1>4. n - 1 \in 0..len /\ n \in Nat
  BY <1>1
<1>5. ASSUME NEW k \in 0..len, done[k].refused
      PROVE  FALSE
  <2> DEFINE S == {i \in Nat : done[k + i].refused}
  <2>1. len - k \in Nat /\ 0 \in S
    BY <1>1, <1>5
  <2>2. ASSUME NEW i \in 1..(len - k), i - 1 \in S
        PROVE  i \in S
    <3>1. /\ k + i \in 1..len /\ k + (i - 1) = (k + i) - 1 /\ i \in Nat
      BY <1>1
    <3>2. done[(k + i) - 1].refused
      BY <2>2, <3>1
    <3>3. done[k + i] = ApplyNext(s, None, done[(k + i) - 1], rs[k + i])
      BY <1>2, <3>1
    <3>4. done[k + i] = done[(k + i) - 1]
      BY <3>2, <3>3 DEF ApplyNext
    <3> QED BY <3>1, <3>2, <3>4
  <2> HIDE DEF S
  <2>3. \A i \in 0..(len - k) : i \in S
    BY <2>1, <2>2, CountingUp
  <2>4. len - k \in 0..(len - k) /\ k + (len - k) = len
    BY <1>1
  <2>5. done[len].refused
    <3>1. done[k + (len - k)].refused
      BY <2>3, <2>4 DEF S
    <3> QED BY <2>4, <3>1
  <2> QED BY <1>1, <2>5
<1>6. ~old.refused /\ ~done[n].refused
  BY <1>4, <1>5
<1>7. done[n].account = answer.account /\ (done[n].refused <=> ~IsOk(answer))
  <2>1. done[n] = ApplyNext(s, None, old, rs[n])
    BY <1>2
  <2>2. IsAccepted(None, rs[n])
    BY DEF IsAccepted
  <2> QED BY <1>6, <2>1, <2>2, NextRound
<1>8. IsOk(answer) /\ done[n].account = answer.account
  BY <1>6, <1>7
<1> HIDE DEF answer
<1>9. AccountInv(old.account) /\ Kind(rs[n], planId, s, acc)
  BY <1>1, <1>3, <1>4
<1> QED BY <1>8, <1>9 DEF IsRound, answer

\* From a round to the last one
LEMMA LastIsBeyond ==
  ASSUME NEW s \in Snapshots, NEW done, NEW plan, NEW planId, NEW acc, NEW a,
         IsRunThrough(done, plan, planId, s, acc, a), AccountInv(acc),
         NEW n \in 1..Len(plan.resolutions)
  PROVE  Below(done[n].account, done[Len(plan.resolutions)].account)
<1> DEFINE rs == plan.resolutions  len == Len(rs)
           S == {i \in Nat : Below(done[n].account, done[n + i].account)}
<1>1. len \in Nat
  BY DEF IsRunThrough, IsApplying
<1>2. len - n \in Nat /\ 0 \in S
  <2>1. n + 0 = n /\ Below(done[n].account, done[n].account)
    BY DEF Below
  <2> QED BY <1>1, <2>1
<1>3. ASSUME NEW i \in 1..(len - n), i - 1 \in S
      PROVE  i \in S
  <2> DEFINE k == n + i  answer == ApplyResolution(done[k - 1].account, s, rs[k])
  <2>1. k \in 1..len /\ n + (i - 1) = k - 1 /\ i \in Nat
    BY <1>1
  <2> HIDE DEF k, answer
  <2>2. IsRound(done, k, answer, s, rs[k], planId, acc)
    BY <2>1, RoundIsOk DEF answer
  <2>3. Below(done[k - 1].account, answer.account)
    BY <2>2, ResolutionGrows DEF IsRound
  <2>4. Below(done[n].account, done[k - 1].account)
    BY <1>3, <2>1
  <2>5. Below(done[n].account, done[k].account)
    BY <2>2, <2>3, <2>4, BelowIsTransitive DEF IsRound
  <2> QED BY <2>1, <2>5 DEF k
<1> HIDE DEF S
<1>4. \A i \in 0..(len - n) : i \in S
  BY <1>2, <1>3, CountingUp
<1>5. len - n \in 0..(len - n) /\ n + (len - n) = len
  BY <1>1, <1>2
<1>6. Below(done[n].account, done[n + (len - n)].account)
  BY <1>4, <1>5 DEF S
<1> QED BY <1>5, <1>6

\* A write that was not refused is done.
LEMMA ResolutionIsDone ==
  ASSUME NEW acc, AccountInv(acc), NEW s \in Snapshots, NEW planId, NEW server,
         NEW r, Kind(r, planId, s, server),
         NEW answer, answer = ApplyResolution(acc, s, r), IsOk(answer)
  PROVE  r.action \in Writes => IsDone(answer.account, r)
<1>0. /\ DoesResolution(answer, acc, s, r) /\ answer.status # "rejected"
      /\ HasFields(acc) /\ MemosDone(acc)
  BY ResolutionApplied DEF IsOk, AccountInv, AccountRows
<1>1. ASSUME NEW w, IsNew(s, server, w), r = ImportOf(planId, w)
      PROVE  IsDone(answer.account, r)
  <2> DEFINE word == s.savedWords[w]  next == answer.account
  <2>1. r.action = "import_to_server" /\ r.of = w
    BY <1>1, ResolutionFields DEF ImportOf
  <2>2. answer = RecordSavedWord(acc, word, r.id)
    BY <1>0, <2>1 DEF DoesResolution
  <2>3. w \in Words /\ word # None /\ word.slug = w
    BY <1>1, WordsAssumption DEF IsNew
  <2> HIDE DEF word, next
  <2>4. CASE WordAgain(answer, acc, word, r.id)
    <3>1. acc.savedWords[word.slug] # None
      BY <1>0, <2>4 DEF WordAgain, MemosDone
    <3> QED BY <2>1, <2>3, <2>4, <3>1 DEF WordAgain, IsDone
  <2>5. CASE WordKnown(answer, acc, word, r.id)
    <3> DEFINE fingerprint == WordFingerprint(word)
    <3>1. next = Remember(acc, r.id, fingerprint, "duplicate_saved_word")
      BY <2>5 DEF WordKnown, next
    <3> HIDE DEF fingerprint
    <3>2. Learning(next) = Learning(acc)
      BY <1>0, <3>1, RememberWrites
    <3>3. next.savedWords = acc.savedWords
      BY <3>2 DEF Learning
    <3> QED BY <2>1, <2>3, <2>5, <3>3 DEF WordKnown, IsDone, next
  <2>6. CASE WordTaken(answer, acc, word, r.id)
    <3> DEFINE item == OrNew(acc.reviewState[word.slug], word.savedAt)
    <3>1. next = SaveNewWord(acc, word, r.id, item)
      BY <2>6 DEF WordTaken, next
    <3> HIDE DEF item
    <3>2. SavesWord(next, acc, word, item)
      BY <1>0, <3>1, SaveWrites
    <3>3. next.savedWords = [acc.savedWords EXCEPT ![word.slug] = word]
      BY <3>2 DEF SavesWord
    <3>4. DOMAIN acc.savedWords = Words
      BY DEF AccountInv, AccountRows
    <3> QED BY <2>1, <2>3, <3>3, <3>4 DEF IsDone, next
  <2>7. ~EventRefused(answer, acc)
    BY <1>0 DEF EventRefused
  <2> QED BY <2>2, <2>4, <2>5, <2>6, <2>7, WordOutcomes
<1>2. ASSUME NEW n \in 1..Len(s.reviewEvents),
             r = MergeOf(planId, Sorted(s)[n].eventId)
      PROVE  IsDone(answer.account, r)
  <2> DEFINE event == SnapshotEvent(s, r)  key == MergeKey(r, event)  next == answer.account
  <2>1. r.action = "merge_event_evidence" /\ r.of = Sorted(s)[n].eventId
    BY <1>2, ResolutionFields DEF MergeOf
  <2>2. answer = RecordReviewEvent(acc, event, key)
    BY <1>0, <2>1 DEF DoesResolution
  <2>3. event \in Arriving /\ event.eventId = r.of
    BY <1>2, <2>1, MergedEvent
  <2> HIDE DEF event, key, next
  <2>4. ~EventRefused(answer, acc)
    BY <1>0 DEF EventRefused
  <2>5. CASE EventAgain(answer, acc, event, key)
    <3>1. IsKnownEvent(acc, event)
      BY <1>0, <2>3, <2>5 DEF EventAgain, MemosDone
    <3> QED BY <2>1, <2>3, <2>5, <3>1 DEF EventAgain, IsDone, IsKnownEvent
  <2>6. CASE EventKnown(answer, acc, event, key)
    <3> DEFINE fingerprint == EventFingerprint(event)
    <3>1. next = Remember(acc, key, fingerprint, "duplicate_review_event")
      BY <2>6 DEF EventKnown, next
    <3> HIDE DEF fingerprint
    <3>2. Learning(next) = Learning(acc)
      BY <1>0, <3>1, RememberWrites
    <3>3. next.reviewEvents = acc.reviewEvents
      BY <3>2 DEF Learning
    <3> QED BY <2>1, <2>3, <2>6, <3>3 DEF EventKnown, IsDone, IsKnownEvent, next
  <2>7. CASE EventTaken(answer, acc, event, key)
    <3>1. next = AcceptEvent(acc, event, key)
      BY <2>7 DEF EventTaken, next
    <3>2. AddsEvent(next, acc, event, key)
      BY <1>0, <3>1, AcceptWrites
    <3>3. PICK item, after : next.reviewEvents =
                              Append(acc.reviewEvents, StoredEvent(event, key, item, after))
      BY <3>2 DEF AddsEvent
    <3> DEFINE stored == StoredEvent(event, key, item, after)
    <3>4. stored.eventId = event.eventId
      BY <2>3, EventsAssumption, StoredAnswer DEF SameAnswer
    <3>5. acc.reviewEvents \in Seq(Range(acc.reviewEvents))
      BY DEF AccountInv, AccountRows
    <3> HIDE DEF stored
    <3>6. stored \in Range(next.reviewEvents)
      BY <3>3, <3>5, AppendGrows DEF stored
    <3> QED BY <2>1, <2>3, <3>4, <3>6 DEF IsDone, next
  <2> QED BY <2>2, <2>4, <2>5, <2>6, <2>7, EventOutcomes
<1>3. ASSUME NEW i \in DOMAIN s.upgradeInterest,
             r = AttributionOf(planId, s.upgradeInterest[i].id)
      PROVE  IsDone(answer.account, r)
  <2> DEFINE found == CHOOSE x \in Range(s.upgradeInterest) : x.id = r.of
             next == answer.account
  <2>1. r.action = "attribution_only" /\ r.of = s.upgradeInterest[i].id
    BY <1>3, ResolutionFields DEF AttributionOf
  <2>2. s.upgradeInterest[i] \in Range(s.upgradeInterest)
    BY DEF Range
  <2>3. found.id = r.of
    BY <2>1, <2>2
  <2>4. answer = RecordUpgradeInterest(acc, found)
    BY <1>0, <2>1 DEF DoesResolution
  <2> HIDE DEF found
  <2>5. \/ found.id \in Range(acc.upgradeInterest) /\ next = acc
        \/ next = Advance([acc EXCEPT !.upgradeInterest = Append(@, found.id)])
    BY <1>0, <2>4 DEF RecordUpgradeInterest, Reject, Answer
  <2>6. acc.upgradeInterest \in Seq(Range(acc.upgradeInterest))
    BY DEF AccountInv, AccountRows
  <2>7. ASSUME next = Advance([acc EXCEPT !.upgradeInterest = Append(@, found.id)])
        PROVE  found.id \in Range(next.upgradeInterest)
    <3>1. next.upgradeInterest = Append(acc.upgradeInterest, found.id)
      BY <1>0, <2>7 DEF Advance, HasFields, AccountFields
    <3> QED BY <2>6, <3>1, AppendGrows
  <2>8. found.id \in Range(next.upgradeInterest)
    BY <2>5, <2>7
  <2> QED BY <2>1, <2>3, <2>8 DEF IsDone, next
<1>4. r.action = "reject_blocked" \/ r.action \in Audited \/ r.action = "recompute_from_events"
        => r.action \notin Writes
  BY DEF Audited, Writes
<1> QED BY <1>1, <1>2, <1>3, <1>4 DEF Kind

LEMMA DoneStaysDone ==
  ASSUME NEW acc, NEW later, Below(acc, later), NEW r, IsDone(acc, r),
         r.action = "import_to_server" => r.of \in Words
  PROVE  IsDone(later, r)
BY DEF Below, IsDone

\* All of an accepted run's writes are done at its end.
LEMMA RunIsDone ==
  ASSUME NEW s \in Snapshots, NEW done, NEW plan, NEW planId, NEW acc, NEW a,
         IsRunThrough(done, plan, planId, s, acc, a), AccountInv(acc),
         NEW r \in Effective(plan)
  PROVE  IsDone(done[Len(plan.resolutions)].account, r)
<1> DEFINE rs == plan.resolutions
<1>1. r \in Range(rs) /\ r.action \in Writes
  BY DEF Effective, Writes
<1>2. DOMAIN rs = 1..Len(rs)
  BY DEF IsRunThrough, IsPlan
<1>3. PICK n \in 1..Len(rs) : rs[n] = r
  BY <1>1, <1>2 DEF Range
<1> DEFINE answer == ApplyResolution(done[n - 1].account, s, rs[n])
<1>4. IsRound(done, n, answer, s, rs[n], planId, acc)
  BY RoundIsOk
<1> HIDE DEF answer
<1>5. IsDone(answer.account, r)
  BY <1>1, <1>3, <1>4, ResolutionIsDone DEF IsRound
<1>6. Below(done[n].account, done[Len(rs)].account)
  BY LastIsBeyond
<1>7. r.action = "import_to_server" => r.of \in Words
  <2>1. Kind(r, planId, s, acc)
    BY <1>3, <1>4 DEF IsRound
  <2>2. /\ \A w : ImportOf(planId, w).of = w
        /\ \A id : AttributionOf(planId, id).action = "attribution_only"
        /\ \A id : MergeOf(planId, id).action = "merge_event_evidence"
    BY ResolutionFields DEF ImportOf, AttributionOf, MergeOf
  <2> QED BY <2>1, <2>2 DEF Kind, IsNew, Audited
<1>8. IsDone(done[n].account, r)
  BY <1>4, <1>5 DEF IsRound
<1> QED BY <1>6, <1>7, <1>8, DoneStaysDone

\* The rounds that only write down change nothing that was learned.
LEMMA AuditedKeeps ==
  ASSUME NEW acc, AccountInv(acc), NEW s, NEW r,
         r.action \in Audited \/ r.action = "recompute_from_events",
         NEW answer, answer = ApplyResolution(acc, s, r)
  PROVE  Learning(answer.account) = Learning(acc)
<1>1. DoesResolution(answer, acc, s, r)
  BY ResolutionApplied
<1>2. answer.account = RecordSyncAudit(acc).account
  BY <1>1 DEF DoesResolution, AuditOnly
<1>3. HasFields(acc)
  BY DEF AccountInv, AccountRows
<1> QED BY <1>2, <1>3, AuditWrites

LEMMA NoneIsBlocked ==
  ASSUME NEW acc, NEW s, NEW r, NEW answer, answer = ApplyResolution(acc, s, r), IsOk(answer)
  PROVE  r.action # "reject_blocked"
<1>1. DoesResolution(answer, acc, s, r)
  BY ResolutionApplied
<1> QED BY <1>1 DEF DoesResolution, IsOk

-----------------------------------------------------------------------------
(* The rounds about words                                                    *)

\* No event yet; a saved word may have a new item.
Started(x, y) == x = y \/ (y = None /\ \E t \in Nat : x = NewItem(t))
Begun(now, acc) ==
  /\ now.reviewEvents = acc.reviewEvents
  /\ \A w \in Words : Started(now.reviewState[w], acc.reviewState[w])

LEMMA WordRound ==
  ASSUME NEW s \in Snapshots, NEW acc, NEW old, AccountInv(old), Begun(old, acc),
         NEW planId, NEW r, WordPart(r, planId, s, acc),
         NEW answer, answer = ApplyResolution(old, s, r), IsOk(answer)
  PROVE  Begun(answer.account, acc)
<1>0. r.action # "reject_blocked"
  BY NoneIsBlocked
<1>1. CASE r.action \in Audited
  <2>1. Learning(answer.account) = Learning(old)
    BY <1>1, AuditedKeeps
  <2> QED BY <2>1 DEF Learning, Begun
<1>2. ASSUME NEW w, IsNew(s, acc, w), r = ImportOf(planId, w)
      PROVE  Begun(answer.account, acc)
  <2> DEFINE word == s.savedWords[w]  next == answer.account
  <2>1. r.action = "import_to_server" /\ r.of = w
    BY <1>2, ResolutionFields DEF ImportOf
  <2>2. answer = RecordSavedWord(old, word, r.id)
    <3>1. DoesResolution(answer, old, s, r)
      BY ResolutionApplied
    <3> QED BY <2>1, <3>1 DEF DoesResolution
  <2>3. w \in Words /\ word.slug = w /\ word.savedAt \in Nat
    BY <1>2, WordsAssumption DEF IsNew
  <2>4. HasFields(old) /\ DOMAIN old.reviewState = Words
    BY DEF AccountInv, AccountRows
  <2> HIDE DEF word, next
  <2>5. CASE EventRefused(answer, old) \/ WordAgain(answer, old, word, r.id)
    BY <2>5 DEF EventRefused, WordAgain
  <2>6. CASE WordKnown(answer, old, word, r.id)
    <3> DEFINE fingerprint == WordFingerprint(word)
    <3>1. next = Remember(old, r.id, fingerprint, "duplicate_saved_word")
      BY <2>6 DEF WordKnown, next
    <3> HIDE DEF fingerprint
    <3>2. Learning(next) = Learning(old)
      BY <2>4, <3>1, RememberWrites
    <3> QED BY <3>2 DEF Learning, Begun, next
  <2>7. CASE WordTaken(answer, old, word, r.id)
    <3> DEFINE item == OrNew(old.reviewState[word.slug], word.savedAt)
    <3>1. next = SaveNewWord(old, word, r.id, item)
      BY <2>7 DEF WordTaken, next
    <3>2. Started(item, acc.reviewState[w])
      <4>1. Started(old.reviewState[w], acc.reviewState[w])
        BY <2>3 DEF Begun
      <4>2. \A t \in Nat : NewItem(t) # None
        BY NewItemType, NamesAssumption
      <4> QED BY <2>3, <4>1, <4>2 DEF Started, OrNew
    <3> HIDE DEF item
    <3>3. SavesWord(next, old, word, item)
      BY <2>4, <3>1, SaveWrites
    <3>4. /\ next.reviewEvents = old.reviewEvents
          /\ next.reviewState = [old.reviewState EXCEPT ![w] = item]
      BY <2>3, <3>3 DEF SavesWord
    <3>5. \A x \in Words : Started(next.reviewState[x], acc.reviewState[x])
      <4>1. \A x \in Words : next.reviewState[x] = IF x = w THEN item ELSE old.reviewState[x]
        BY <2>4, <3>4
      <4> QED BY <3>2, <4>1 DEF Begun
    <3> QED BY <3>4, <3>5 DEF Begun, next
  <2> QED BY <2>2, <2>5, <2>6, <2>7, WordOutcomes
<1> QED BY <1>0, <1>1, <1>2, WordKinds

LEMMA WordRounds ==
  ASSUME NEW s \in Snapshots, NEW done, NEW plan, NEW planId, NEW acc, NEW a,
         IsRunThrough(done, plan, planId, s, acc, a), AccountInv(acc)
  PROVE  Begun(done[a].account, acc)
<1> DEFINE rs == plan.resolutions
           S == {n \in Nat : Begun(done[n].account, acc)}
<1>1. /\ a \in Nat /\ \A n \in 1..a : WordPart(rs[n], planId, s, acc)
      /\ \A n \in 1..a : n \in 1..Len(rs)
      /\ done[0] = Start(acc)
  BY DEF IsRunThrough, IsPlan, IsApplying, IsLoop
<1>2. 0 \in S
  BY <1>1 DEF Start, Begun, Started
<1>3. ASSUME NEW n \in 1..a, n - 1 \in S
      PROVE  n \in S
  <2> DEFINE answer == ApplyResolution(done[n - 1].account, s, rs[n])
  <2>1. IsRound(done, n, answer, s, rs[n], planId, acc)
    BY <1>1, RoundIsOk
  <2> HIDE DEF answer
  <2>2. Begun(done[n - 1].account, acc) /\ WordPart(rs[n], planId, s, acc) /\ n \in Nat
    BY <1>1, <1>3
  <2>3. Begun(answer.account, acc)
    BY <2>1, <2>2, WordRound DEF IsRound
  <2> QED BY <2>1, <2>2, <2>3 DEF IsRound
<1> HIDE DEF S
<1>4. \A n \in 0..a : n \in S
  BY <1>1, <1>2, <1>3, CountingUp
<1>5. a \in 0..a
  BY <1>1
<1> QED BY <1>4, <1>5 DEF S

-----------------------------------------------------------------------------
(* The rounds about events                                                   *)

\* The correct answers of a word
CorrectOn(events, w) == Cardinality(CorrectIn(events, EventsOn(events, w)))

\* One event more, as the word sees it
LEMMA AcceptSeen ==
  ASSUME NEW acc, AccountInv(acc), NEW event \in Arriving, event.valid, NEW key,
         NEW next, next = AcceptEvent(acc, event, key), NEW w \in Words
  PROVE  /\ next.reviewState[w] = IF event.slug = w THEN Reviewed(acc.reviewState[w], event)
                                  ELSE acc.reviewState[w]
         /\ \A e \in Range(next.reviewEvents) :
              e \in Range(acc.reviewEvents) \/ e.eventId = event.eventId
         /\ CorrectOn(acc.reviewEvents, w) \in Nat
         /\ CorrectOn(next.reviewEvents, w) =
              IF event.slug = w /\ event.result = "correct"
              THEN CorrectOn(acc.reviewEvents, w) + 1 ELSE CorrectOn(acc.reviewEvents, w)
<1> DEFINE events == acc.reviewEvents  more == next.reviewEvents  len == Len(events)
<1>1. /\ HasFields(acc) /\ DOMAIN acc.reviewState = Words
      /\ events \in Seq(Range(events)) /\ len \in Nat
  BY DEF AccountInv, AccountRows
<1>2. AddsEvent(next, acc, event, key)
  BY <1>1, AcceptWrites
<1>3. PICK item, after :
        /\ next.reviewState = [acc.reviewState EXCEPT ![event.slug] = after]
        /\ after = Reviewed(acc.reviewState[event.slug], event)
        /\ more = Append(events, StoredEvent(event, key, item, after))
  BY <1>2 DEF AddsEvent, Reviewed
<1> DEFINE stored == StoredEvent(event, key, item, after)
<1>4. SameAnswer(stored, event)
  BY EventsAssumption, StoredAnswer
<1>5. event.slug \in Words
  BY EventsAssumption
<1>6. next.reviewState[w] = IF event.slug = w THEN Reviewed(acc.reviewState[w], event)
                            ELSE acc.reviewState[w]
  BY <1>1, <1>3, <1>5
<1> HIDE DEF stored, events, more
<1>7. /\ Grows(more, events, stored)
      /\ \A e \in Range(more) : e \in Range(events) \/ e = stored
  BY <1>1, <1>3, AppendGrows DEF stored
<1>8. \A e \in Range(more) : e \in Range(events) \/ e.eventId = event.eventId
  BY <1>4, <1>7 DEF SameAnswer
<1> DEFINE at == EventsOn(events, w)  at2 == EventsOn(more, w)
           right == CorrectIn(events, at)  right2 == CorrectIn(more, at2)
<1>9. /\ at \subseteq 1..len
      /\ at2 = IF event.slug = w THEN at \cup {len + 1} ELSE at
  BY <1>4, <1>7, PositionsGrow DEF AtMore, SameAnswer
<1>10. /\ more[len + 1].result = event.result
       /\ \A i \in 1..len : more[i] = events[i]
  BY <1>4, <1>7 DEF Grows, SameAnswer
<1> HIDE DEF at, at2, len
<1>11. /\ right \subseteq 1..len
       /\ right2 = IF event.slug = w /\ event.result = "correct"
                   THEN right \cup {len + 1} ELSE right
  BY <1>9, <1>10 DEF CorrectIn
<1> HIDE DEF right, right2
<1>12. Cardinality(right) \in Nat /\ Cardinality(right \cup {len + 1}) = Cardinality(right) + 1
  BY <1>1, <1>11, RanksIn
<1>13. Cardinality(right2) = IF event.slug = w /\ event.result = "correct"
                             THEN Cardinality(right) + 1 ELSE Cardinality(right)
  BY <1>11, <1>12
<1>14. CorrectOn(events, w) = Cardinality(right) /\ CorrectOn(more, w) = Cardinality(right2)
  BY DEF CorrectOn, right, right2, at, at2
<1> QED BY <1>6, <1>8, <1>12, <1>13, <1>14 DEF events, more

\* Two merged events have two ids.
LEMMA MergedDiffer ==
  ASSUME NEW sorted, NEW onServer, NEW j \in Merged(sorted, onServer),
         NEW k \in Merged(sorted, onServer), j < k
  PROVE  sorted[j].eventId # sorted[k].eventId
<1> DEFINE passed == Passed(sorted, onServer)
           earlier == {sorted[i] : i \in {m \in passed : m < k}}
<1>1. j \in passed /\ ~IsDuplicate(sorted[k], earlier, onServer)
  BY DEF Merged
<1>2. sorted[j] \in earlier
  BY <1>1
<1> QED BY <1>1, <1>2 DEF IsDuplicate

\* A word's replay by the plan, over the merged events
IsReckoning(item, s, acc, w) ==
  IsReplay(item, acc.reviewState[w], Sorted(s), NewsOf(s, acc, w))

\* Its correct answers among the first k of them
CorrectNews(s, acc, w, k) == {i \in CorrectIn(Sorted(s), NewsOf(s, acc, w)) : i <= k}

\* After k events the account and the plan's replay agree on a word.
InStep(now, k, item, s, acc, w) ==
  /\ now.reviewState[w] \in Item \cup {None} /\ item[k] \in Item \cup {None}
  /\ Similar(now.reviewState[w], item[k])
  /\ \A j \in NewsOf(s, acc, w) : j <= k => item[k] \in Item
  /\ \A e \in Range(now.reviewEvents) :
       \/ e \in Range(acc.reviewEvents)
       \/ \E j \in MergedOf(s, acc) : j <= k /\ e.eventId = Sorted(s)[j].eventId
  /\ CorrectOn(acc.reviewEvents, w) \in Nat
  /\ CorrectOn(now.reviewEvents, w) =
       CorrectOn(acc.reviewEvents, w) + Cardinality(CorrectNews(s, acc, w, k))

\* The correct news grow with the k-th event if it is one.
LEMMA CorrectNewsGrow ==
  ASSUME NEW s \in Snapshots, NEW acc, NEW w, NEW k \in 1..Len(s.reviewEvents)
  PROVE  /\ Cardinality(CorrectNews(s, acc, w, k - 1)) \in Nat
         /\ Cardinality(CorrectNews(s, acc, w, k)) =
              IF k \in NewsOf(s, acc, w) /\ Sorted(s)[k].result = "correct"
              THEN Cardinality(CorrectNews(s, acc, w, k - 1)) + 1
              ELSE Cardinality(CorrectNews(s, acc, w, k - 1))
<1> DEFINE m == Len(s.reviewEvents)  right == CorrectIn(Sorted(s), NewsOf(s, acc, w))
           before == CorrectNews(s, acc, w, k - 1)  now == CorrectNews(s, acc, w, k)
<1>1. m \in Nat /\ DOMAIN Sorted(s) = 1..m
  BY SnapshotFacts
<1>2. right \subseteq 1..m
  BY <1>1 DEF CorrectIn, NewsOf, EventsOn
<1>3. k - 1 \in Nat /\ (k - 1) + 1 = k
  BY <1>1
<1>4. before = {i \in right : i <= k - 1} /\ now = {i \in right : i <= k}
  BY DEF CorrectNews
<1>5. k \in right <=> k \in NewsOf(s, acc, w) /\ Sorted(s)[k].result = "correct"
  BY DEF CorrectIn
<1> HIDE DEF right, before, now
<1>6. /\ before \subseteq 1..(k - 1)
      /\ now = IF k \in right THEN before \cup {k} ELSE before
  <2>1. \A i \in right : i \in 1..m /\ (i <= k <=> i <= k - 1 \/ i = k)
    BY <1>1, <1>2
  <2>2. before \subseteq 1..(k - 1)
    BY <1>1, <1>4, <2>1
  <2>3. \A i : i \in now <=> (i \in before \/ (i = k /\ k \in right))
    BY <1>1, <1>4, <2>1
  <2> QED BY <2>2, <2>3
<1>7. /\ Cardinality(before) \in Nat
      /\ Cardinality(before \cup {(k - 1) + 1}) = Cardinality(before) + 1
  BY <1>3, <1>6, RanksIn
<1>8. /\ Cardinality(before) \in Nat
      /\ Cardinality(now) = IF k \in right THEN Cardinality(before) + 1 ELSE Cardinality(before)
  BY <1>3, <1>6, <1>7
<1> QED BY <1>5, <1>8 DEF before, now

\* An event the plan merges, and one it does not
LEMMA MergeRound ==
  ASSUME NEW s \in Snapshots, NEW acc, NEW w \in Words, NEW item,
         IsReckoning(item, s, acc, w), NEW k \in 1..Len(s.reviewEvents),
         NEW old, AccountInv(old), InStep(old, k - 1, item, s, acc, w),
         k \in MergedOf(s, acc), NEW planId, NEW r,
         r = MergeOf(planId, Sorted(s)[k].eventId),
         NEW answer, answer = ApplyResolution(old, s, r), IsOk(answer)
  PROVE  InStep(answer.account, k, item, s, acc, w)
<1> DEFINE m == Len(s.reviewEvents)  sorted == Sorted(s)  event == sorted[k]
           key == MergeKey(r, event)  next == answer.account
           onServer == OnServer(acc)
<1>1. /\ m \in Nat /\ k \in Nat /\ k - 1 \in Nat /\ k - 1 < k
      /\ Len(sorted) = m
  BY SnapshotFacts
<1>2. SnapshotEvent(s, r) = event /\ event \in Arriving
  BY MergedEvent
<1>3. event.valid /\ \A e \in onServer : e.eventId # event.eventId
  BY MergedIsNew DEF MergedOf
<1>4. EngineAnswer(event)
  BY <1>2, <1>3, EventsAssumption
<1>5. answer = RecordReviewEvent(old, event, key)
  <2>1. DoesResolution(answer, old, s, r)
    BY ResolutionApplied
  <2>2. r.action = "merge_event_evidence"
    BY ResolutionFields DEF MergeOf
  <2> QED BY <1>2, <2>1, <2>2 DEF DoesResolution
<1> HIDE DEF event, key, next
<1>6. ~IsKnownEvent(old, event)
  <2> SUFFICES ASSUME NEW e \in Range(old.reviewEvents), e.eventId = event.eventId
               PROVE  FALSE
    BY DEF IsKnownEvent
  <2>1. CASE e \in Range(acc.reviewEvents)
    BY <1>3, <2>1 DEF OnServer
  <2>2. ASSUME NEW j \in MergedOf(s, acc), j <= k - 1, e.eventId = sorted[j].eventId
        PROVE  FALSE
    <3>1. j \in 1..m
      BY <2>2, MergedIsNew, SnapshotFacts DEF MergedOf
    <3>2. j < k
      BY <1>1, <2>2, <3>1
    <3>3. sorted[j].eventId # sorted[k].eventId
      BY <2>2, <3>2, MergedDiffer DEF MergedOf
    <3> QED BY <2>2, <3>3 DEF event
  <2> QED BY <2>1, <2>2 DEF InStep
<1>7. next = AcceptEvent(old, event, key)
  <2>1. ~EventRefused(answer, old)
    BY DEF EventRefused, IsOk
  <2>2. ~EventAgain(answer, old, event, key)
    BY <1>2, <1>6 DEF EventAgain, AccountInv, MemosDone
  <2>3. ~EventKnown(answer, old, event, key)
    BY <1>6 DEF EventKnown
  <2>4. EventTaken(answer, old, event, key)
    BY <1>5, <2>1, <2>2, <2>3, EventOutcomes
  <2> QED BY <2>4 DEF EventTaken, next
<1>8. /\ next.reviewState[w] = IF event.slug = w THEN Reviewed(old.reviewState[w], event)
                               ELSE old.reviewState[w]
      /\ \A e \in Range(next.reviewEvents) :
           e \in Range(old.reviewEvents) \/ e.eventId = event.eventId
      /\ CorrectOn(old.reviewEvents, w) \in Nat
      /\ CorrectOn(next.reviewEvents, w) =
           IF event.slug = w /\ event.result = "correct"
           THEN CorrectOn(old.reviewEvents, w) + 1 ELSE CorrectOn(old.reviewEvents, w)
  BY <1>2, <1>3, <1>7, AcceptSeen
<1>9. k \in NewsOf(s, acc, w) <=> event.slug = w
  <2>1. k \in DOMAIN sorted
    BY SnapshotFacts
  <2> QED BY <2>1 DEF NewsOf, EventsOn, event
<1>10. item[k] = IF event.slug = w THEN Reviewed(item[k - 1], event) ELSE item[k - 1]
  BY <1>1, <1>9 DEF IsReckoning, IsReplay, event
<1>11. /\ Similar(old.reviewState[w], item[k - 1])
       /\ old.reviewState[w] \in Item \cup {None} /\ item[k - 1] \in Item \cup {None}
  BY DEF InStep
<1>12. /\ event.slug = w => next.reviewState[w] \in Item /\ item[k] \in Item
       /\ next.reviewState[w] \in Item \cup {None} /\ item[k] \in Item \cup {None}
       /\ Similar(next.reviewState[w], item[k])
  BY <1>4, <1>8, <1>10, <1>11, SimilarReviewed
<1>13. \A j \in NewsOf(s, acc, w) : j <= k => item[k] \in Item
  <2> SUFFICES ASSUME NEW j \in NewsOf(s, acc, w), j <= k
               PROVE  item[k] \in Item
    OBVIOUS
  <2>1. j \in 1..m
    BY SnapshotFacts DEF NewsOf, EventsOn
  <2>2. j = k \/ j <= k - 1
    BY <1>1, <2>1
  <2>3. CASE j = k
    BY <1>9, <1>12, <2>3
  <2>4. CASE j <= k - 1
    <3>1. item[k - 1] \in Item
      BY <2>4 DEF InStep
    <3> QED BY <1>10, <1>12, <3>1
  <2> QED BY <2>2, <2>3, <2>4
<1>14. \A e \in Range(next.reviewEvents) :
         \/ e \in Range(acc.reviewEvents)
         \/ \E j \in MergedOf(s, acc) : j <= k /\ e.eventId = sorted[j].eventId
  <2> SUFFICES ASSUME NEW e \in Range(next.reviewEvents), e \notin Range(acc.reviewEvents)
               PROVE  \E j \in MergedOf(s, acc) : j <= k /\ e.eventId = sorted[j].eventId
    OBVIOUS
  <2>1. CASE e.eventId = event.eventId
    BY <1>1, <2>1 DEF event
  <2>2. CASE e \in Range(old.reviewEvents)
    <3>1. PICK j \in MergedOf(s, acc) : j <= k - 1 /\ e.eventId = sorted[j].eventId
      BY <2>2 DEF InStep
    <3>2. j \in 1..m
      BY MergedIsNew, SnapshotFacts DEF MergedOf
    <3> QED BY <1>1, <3>1, <3>2
  <2> QED BY <1>8, <2>1, <2>2
<1>15. /\ CorrectOn(acc.reviewEvents, w) \in Nat
       /\ CorrectOn(next.reviewEvents, w) =
            CorrectOn(acc.reviewEvents, w) + Cardinality(CorrectNews(s, acc, w, k))
  <2> DEFINE before == Cardinality(CorrectNews(s, acc, w, k - 1))
             now == Cardinality(CorrectNews(s, acc, w, k))
             right == event.slug = w /\ event.result = "correct"
             c == CorrectOn(acc.reviewEvents, w)
             x == CorrectOn(old.reviewEvents, w)  y == CorrectOn(next.reviewEvents, w)
  <2>1. before \in Nat /\ now = IF right THEN before + 1 ELSE before
    BY <1>9, CorrectNewsGrow DEF event
  <2>2. c \in Nat /\ x = c + before
    BY DEF InStep
  <2>3. y = IF right THEN x + 1 ELSE x
    BY <1>8
  <2> HIDE DEF before, now, right, c, x, y
  <2>4. c \in Nat /\ y = c + now
    BY <2>1, <2>2, <2>3
  <2> QED BY <2>4 DEF c, y, now
<1> QED BY <1>12, <1>13, <1>14, <1>15 DEF InStep, next

LEMMA PassedRound ==
  ASSUME NEW s \in Snapshots, NEW acc, NEW w \in Words, NEW item,
         IsReckoning(item, s, acc, w), NEW k \in 1..Len(s.reviewEvents),
         NEW old, InStep(old, k - 1, item, s, acc, w), k \notin MergedOf(s, acc),
         NEW next, Learning(next) = Learning(old)
  PROVE  InStep(next, k, item, s, acc, w)
<1> DEFINE m == Len(s.reviewEvents)  sorted == Sorted(s)
<1>1. /\ m \in Nat /\ k \in Nat /\ k - 1 \in Nat /\ k - 1 < k
      /\ Len(sorted) = m
  BY SnapshotFacts
<1>2. next.reviewState = old.reviewState /\ next.reviewEvents = old.reviewEvents
  BY DEF Learning
<1>3. k \notin NewsOf(s, acc, w)
  BY DEF NewsOf
<1>4. item[k] = item[k - 1]
  BY <1>1, <1>3 DEF IsReckoning, IsReplay
<1>5. \A j \in NewsOf(s, acc, w) : j <= k => item[k] \in Item
  <2> SUFFICES ASSUME NEW j \in NewsOf(s, acc, w), j <= k
               PROVE  item[k] \in Item
    OBVIOUS
  <2>1. j \in 1..m /\ j # k
    BY <1>3, SnapshotFacts DEF NewsOf, EventsOn
  <2>2. j <= k - 1
    BY <1>1, <2>1
  <2> QED BY <1>4, <2>2 DEF InStep
<1>6. \A j \in MergedOf(s, acc) : j <= k - 1 => j <= k
  <2> SUFFICES ASSUME NEW j \in MergedOf(s, acc), j <= k - 1
               PROVE  j <= k
    OBVIOUS
  <2>1. j \in 1..m
    BY MergedIsNew, SnapshotFacts DEF MergedOf
  <2> QED BY <1>1, <2>1
<1>7. Cardinality(CorrectNews(s, acc, w, k)) = Cardinality(CorrectNews(s, acc, w, k - 1))
  BY <1>3, CorrectNewsGrow
<1>8. \A e \in Range(next.reviewEvents) :
        \/ e \in Range(acc.reviewEvents)
        \/ \E j \in MergedOf(s, acc) : j <= k /\ e.eventId = sorted[j].eventId
  BY <1>2, <1>6 DEF InStep
<1> QED BY <1>2, <1>4, <1>5, <1>7, <1>8 DEF InStep

LEMMA EventRounds ==
  ASSUME NEW s \in Snapshots, NEW done, NEW plan, NEW planId, NEW acc, NEW a,
         IsRunThrough(done, plan, planId, s, acc, a), AccountInv(acc),
         NEW w \in Words, NEW item, IsReckoning(item, s, acc, w)
  PROVE  InStep(done[a + Len(s.reviewEvents)].account, Len(s.reviewEvents), item, s, acc, w)
<1> DEFINE rs == plan.resolutions  m == Len(s.reviewEvents)
           S == {k \in Nat : InStep(done[a + k].account, k, item, s, acc, w)}
<1>1. /\ a \in Nat /\ m \in Nat /\ Len(rs) \in Nat /\ a + m <= Len(rs)
      /\ \A k \in 1..m : rs[a + k] = EventResolution(planId, Sorted(s), OnServer(acc), k)
  BY DEF IsRunThrough, IsPlan
<1>2. 0 \in S
  <2> DEFINE now == done[a].account
  <2>1. Begun(now, acc) /\ a + 0 = a
    BY <1>1, WordRounds
  <2>2. item[0] = acc.reviewState[w]
    BY DEF IsReckoning, IsReplay
  <2>3. acc.reviewState[w] \in Item \cup {None}
    BY DEF AccountInv, AccountRows
  <2> HIDE DEF now
  <2>4. Started(now.reviewState[w], item[0]) /\ now.reviewEvents = acc.reviewEvents
    BY <2>1, <2>2 DEF Begun
  <2>5. now.reviewState[w] \in Item \cup {None} /\ Similar(now.reviewState[w], item[0])
    BY <2>2, <2>3, <2>4, NewItemType DEF Started, Similar
  <2>6. \A j \in NewsOf(s, acc, w) : j \in 1..m
    BY SnapshotFacts DEF NewsOf, EventsOn
  <2>7. CorrectNews(s, acc, w, 0) = {}
    BY <1>1, <2>6 DEF CorrectNews, CorrectIn
  <2>8. CorrectOn(acc.reviewEvents, w) \in Nat
    <3> DEFINE at == CorrectIn(acc.reviewEvents, EventsOn(acc.reviewEvents, w))
               n == Len(acc.reviewEvents)
    <3>1. n \in Nat /\ DOMAIN acc.reviewEvents = 1..n
      BY DEF AccountInv, AccountRows
    <3>2. at \subseteq 1..n
      BY <3>1 DEF CorrectIn, EventsOn
    <3> HIDE DEF at, n
    <3>3. Cardinality(at) \in Nat
      BY <3>1, <3>2, RanksIn
    <3> QED BY <3>3 DEF CorrectOn, at
  <2>9. Cardinality(CorrectNews(s, acc, w, 0)) = 0
    BY <2>7, FS_EmptySet
  <2>10. InStep(now, 0, item, s, acc, w)
    <3>1. \A j \in NewsOf(s, acc, w) : ~(j <= 0)
      BY <1>1, <2>6
    <3> QED BY <2>2, <2>3, <2>4, <2>5, <2>8, <2>9, <3>1 DEF InStep
  <2> QED BY <2>1, <2>10 DEF now
<1>3. ASSUME NEW k \in 1..m, k - 1 \in S
      PROVE  k \in S
  <2> DEFINE n == a + k  old == done[n - 1].account  r == rs[n]
             answer == ApplyResolution(old, s, r)
  <2>1. n \in 1..Len(rs) /\ a + (k - 1) = n - 1 /\ k \in Nat
    BY <1>1
  <2>2. InStep(old, k - 1, item, s, acc, w)
    BY <1>3, <2>1
  <2>3. r = EventResolution(planId, Sorted(s), OnServer(acc), k)
    BY <1>1
  <2>4. IsRound(done, n, answer, s, r, planId, acc)
    BY <2>1, RoundIsOk
  <2> HIDE DEF n, old, r
  <2>5. AccountInv(old) /\ IsOk(answer) /\ done[n].account = answer.account
    BY <2>4 DEF IsRound, old
  <2>6. /\ k \in MergedOf(s, acc) => r = MergeOf(planId, Sorted(s)[k].eventId)
        /\ k \notin MergedOf(s, acc) => r.action = "reject_blocked" \/ r.action \in Audited
    BY <2>3, SnapshotFacts, EventKinds
  <2>7. CASE k \in MergedOf(s, acc)
    <3>1. InStep(answer.account, k, item, s, acc, w)
      BY <2>2, <2>5, <2>6, <2>7, MergeRound
    <3> QED BY <2>1, <2>5, <3>1 DEF n
  <2>8. CASE k \notin MergedOf(s, acc)
    <3>1. r.action \in Audited
      BY <2>5, <2>6, <2>8, NoneIsBlocked
    <3>2. Learning(answer.account) = Learning(old)
      BY <2>5, <3>1, AuditedKeeps
    <3> HIDE DEF answer
    <3>3. InStep(answer.account, k, item, s, acc, w)
      BY <2>2, <2>8, <3>2, PassedRound
    <3> QED BY <2>1, <2>5, <3>3 DEF n
  <2> QED BY <2>7, <2>8
<1> HIDE DEF S
<1>4. \A k \in 0..m : k \in S
  BY <1>1, <1>2, <1>3, CountingUp
<1>5. m \in 0..m
  BY <1>1
<1> QED BY <1>4, <1>5 DEF S

-----------------------------------------------------------------------------
(* The rounds that are left, and the whole run                               *)

LEMMA RestRound ==
  ASSUME NEW s, NEW old, AccountInv(old), NEW planId, NEW acc, NEW r,
         RestPart(r, planId, s, acc),
         NEW answer, answer = ApplyResolution(old, s, r), IsOk(answer)
  PROVE  /\ answer.account.reviewState = old.reviewState
         /\ answer.account.reviewEvents = old.reviewEvents
<1>0. r.action # "reject_blocked"
  BY NoneIsBlocked
<1>1. CASE r.action \in Audited \/ r.action = "recompute_from_events"
  <2>1. Learning(answer.account) = Learning(old)
    BY <1>1, AuditedKeeps
  <2> QED BY <2>1 DEF Learning
<1>2. ASSUME NEW id, r = AttributionOf(planId, id)
      PROVE  /\ answer.account.reviewState = old.reviewState
             /\ answer.account.reviewEvents = old.reviewEvents
  <2>1. r.action = "attribution_only"
    BY <1>2, ResolutionFields DEF AttributionOf
  <2>2. DoesResolution(answer, old, s, r)
    BY ResolutionApplied
  <2>3. PICK i : answer = RecordUpgradeInterest(old, i)
    BY <2>1, <2>2 DEF DoesResolution
  <2>4. HasFields(old)
    BY DEF AccountInv, AccountRows
  <2>5. KeepsEvidence(answer.account, old)
    BY <2>3, <2>4, InterestAdds
  <2> QED BY <2>5 DEF KeepsEvidence
<1> QED BY <1>0, <1>1, <1>2, RestKinds

LEMMA RestRounds ==
  ASSUME NEW s \in Snapshots, NEW done, NEW plan, NEW planId, NEW acc, NEW a,
         IsRunThrough(done, plan, planId, s, acc, a), AccountInv(acc)
  PROVE  LET last == done[Len(plan.resolutions)].account
             then == done[a + Len(s.reviewEvents)].account IN
         last.reviewState = then.reviewState /\ last.reviewEvents = then.reviewEvents
<1> DEFINE rs == plan.resolutions  m == Len(s.reviewEvents)  b == a + m  len == Len(rs)
           then == done[b].account
           S == {i \in Nat : /\ done[b + i].account.reviewState = then.reviewState
                             /\ done[b + i].account.reviewEvents = then.reviewEvents}
<1>1. /\ b \in Nat /\ len \in Nat /\ b <= len
      /\ \A n \in (b + 1)..len : RestPart(rs[n], planId, s, acc)
  BY DEF IsRunThrough, IsPlan
<1> HIDE DEF b, len
<1>2. 0 \in S /\ len - b \in Nat
  <2>1. b + 0 = b /\ len - b \in Nat
    BY <1>1
  <2> QED BY <2>1
<1>3. ASSUME NEW i \in 1..(len - b), i - 1 \in S
      PROVE  i \in S
  <2> DEFINE n == b + i  old == done[n - 1].account  r == rs[n]
             answer == ApplyResolution(old, s, r)
  <2>1. /\ n \in 1..len /\ n \in (b + 1)..len /\ b + (i - 1) = n - 1 /\ i \in Nat
    BY <1>1
  <2>2. IsRound(done, n, answer, s, r, planId, acc)
    BY <2>1, RoundIsOk DEF len
  <2>3. RestPart(r, planId, s, acc)
    BY <1>1, <2>1
  <2>4. old.reviewState = then.reviewState /\ old.reviewEvents = then.reviewEvents
    BY <1>3, <2>1
  <2> HIDE DEF n, old, r, then
  <2>5. AccountInv(old) /\ IsOk(answer) /\ done[n].account = answer.account
    BY <2>2 DEF IsRound, old
  <2>6. /\ answer.account.reviewState = old.reviewState
        /\ answer.account.reviewEvents = old.reviewEvents
    BY <2>3, <2>5, RestRound
  <2> QED BY <2>1, <2>4, <2>5, <2>6 DEF n
<1> HIDE DEF S
<1>4. \A i \in 0..(len - b) : i \in S
  BY <1>2, <1>3, CountingUp
<1>5. len - b \in 0..(len - b) /\ b + (len - b) = len
  BY <1>1, <1>2
<1>6. /\ done[b + (len - b)].account.reviewState = then.reviewState
      /\ done[b + (len - b)].account.reviewEvents = then.reviewEvents
  BY <1>4, <1>5 DEF S
<1> QED BY <1>5, <1>6 DEF b, len

\* At the end the account has, of a word, what the plan reckoned with.
EndsAs(now, s, acc, w) ==
  LET news == NewsOf(s, acc, w)
      reckoned == Recompute(acc.reviewState[w], Sorted(s), news) IN
  /\ now.reviewState[w] \in Item \cup {None} /\ reckoned \in Item \cup {None}
  /\ Similar(now.reviewState[w], reckoned)
  /\ news # {} => reckoned \in Item
  /\ CorrectOn(acc.reviewEvents, w) \in Nat
  /\ CorrectOn(now.reviewEvents, w) =
       CorrectOn(acc.reviewEvents, w) + Cardinality(CorrectIn(Sorted(s), news))

LEMMA RunEndsAs ==
  ASSUME NEW s \in Snapshots, NEW done, NEW plan, NEW planId, NEW acc, NEW a,
         IsRunThrough(done, plan, planId, s, acc, a), AccountInv(acc), NEW w \in Words
  PROVE  EndsAs(done[Len(plan.resolutions)].account, s, acc, w)
<1> DEFINE m == Len(s.reviewEvents)  then == done[a + m].account
           last == done[Len(plan.resolutions)].account
           news == NewsOf(s, acc, w)  base == acc.reviewState[w]
           reckoned == Recompute(base, Sorted(s), news)
<1>1. Len(Sorted(s)) = m /\ m \in Nat /\ \A j \in news : j \in 1..m
  BY SnapshotFacts DEF NewsOf, EventsOn
<1>2. PICK item : IsReplay(item, base, Sorted(s), news)
  <2> HIDE DEF base, news
  <2> QED BY <1>1, RecomputeReplays
<1>3. IsReckoning(item, s, acc, w)
  BY <1>2 DEF IsReckoning
<1>4. InStep(then, m, item, s, acc, w)
  BY <1>3, EventRounds
<1>5. last.reviewState = then.reviewState /\ last.reviewEvents = then.reviewEvents
  BY RestRounds
<1>6. reckoned = item[m]
  BY <1>1, <1>2 DEF IsReplay
<1>7. CorrectNews(s, acc, w, m) = CorrectIn(Sorted(s), news)
  BY <1>1 DEF CorrectNews, CorrectIn
<1>8. news # {} => reckoned \in Item
  BY <1>1, <1>4, <1>6 DEF InStep
<1> HIDE DEF then, last, reckoned
<1>9. EndsAs(last, s, acc, w)
  BY <1>4, <1>5, <1>6, <1>7, <1>8 DEF InStep, EndsAs, reckoned
<1> QED BY <1>9 DEF last

\* The run of a snapshot leaves the account alone or goes through its plan.
LEMMA RunGoesThrough ==
  ASSUME NEW s \in Snapshots, Run(s)
  PROVE  \/ account' = account /\ reply'.status # "accepted"
         \/ /\ reply'.status = "accepted" /\ RunPlan(s).status # "blocked"
            /\ \E done, a :
                 /\ IsRunThrough(done, RunPlan(s), <<"run", s.id>>, s, account, a)
                 /\ account' = done[Len(RunPlan(s).resolutions)].account
<1> DEFINE plan == RunPlan(s)  planId == <<"run", s.id>>
           result == ApplyPlan(account, plan, s, None)
<1>1. plan = Resolve(planId, s, account)
  BY DEF RunPlan
<1>2. CASE ~CanApply(plan, None)
  <2>1. Harness(plan, s, None).account = account /\ Harness(plan, s, None).status = "skipped"
    BY <1>2 DEF Harness
  <2> QED BY <2>1 DEF Run, Say
<1>3. CASE CanApply(plan, None)
  <2>1. account' = result.account /\ reply'.status = result.status
    BY <1>3 DEF Run, Say, Harness
  <2>2. plan.status # "blocked"
    BY <1>3 DEF CanApply
  <2> HIDE DEF plan, planId, result
  <2>3. PICK done : IsApplying(done, plan.resolutions, planId, s, account, None)
    BY <1>1, PlanIsApplied
  <2>4. Leaves(result, done, plan.resolutions, account)
    BY <2>3, AppliedAccount DEF result
  <2>5. PICK a : IsPlan(plan, planId, s, account, a)
    BY <1>1, SnapshotFacts, ResolvePlan
  <2>6. CASE result.status # "accepted"
    BY <2>1, <2>4, <2>6 DEF Leaves
  <2>7. CASE result.status = "accepted"
    <3>1. ~done[Len(plan.resolutions)].refused
          /\ result.account = done[Len(plan.resolutions)].account
      BY <2>4, <2>7 DEF Leaves
    <3>2. IsRunThrough(done, plan, planId, s, account, a)
      BY <2>3, <2>5, <3>1 DEF IsRunThrough
    <3> QED BY <2>1, <2>2, <2>7, <3>1, <3>2 DEF plan, planId
  <2> QED BY <2>6, <2>7
<1> QED BY <1>2, <1>3

\* What a plan proposes for a word is what its replay makes of it.
LEMMA ProposalsOfPlan ==
  ASSUME NEW s \in Snapshots, NEW plan, NEW planId, NEW acc, NEW a,
         IsPlan(plan, planId, s, acc, a), NEW r \in Range(plan.resolutions), r.proposed # None
  PROVE  Proposal(r, s, acc, r.of)
<1> DEFINE rs == plan.resolutions  m == Len(s.reviewEvents)
<1>1. /\ a \in Nat /\ m \in Nat /\ Len(rs) \in Nat /\ DOMAIN rs = 1..Len(rs)
      /\ \A n \in 1..a : WordPart(rs[n], planId, s, acc)
      /\ \A n \in 1..m : rs[a + n] = EventResolution(planId, Sorted(s), OnServer(acc), n)
      /\ \A n \in (a + m + 1)..Len(rs) : RestPart(rs[n], planId, s, acc)
  BY DEF IsPlan
<1>2. PICK n \in 1..Len(rs) : r = rs[n]
  BY <1>1 DEF Range
<1> HIDE DEF rs, m
<1>3. n \in 1..a \/ (n - a \in 1..m /\ a + (n - a) = n) \/ n \in (a + m + 1)..Len(rs)
  BY <1>1
<1>4. n \notin 1..a
  BY <1>1, <1>2, WordKinds
<1>5. n - a \in 1..m /\ a + (n - a) = n => FALSE
  <2> SUFFICES ASSUME n - a \in 1..m, a + (n - a) = n PROVE FALSE
    OBVIOUS
  <2> DEFINE k == n - a
  <2>1. r = EventResolution(planId, Sorted(s), OnServer(acc), k)
    BY <1>1, <1>2
  <2> HIDE DEF k
  <2>2. r.proposed = None
    BY <2>1, SnapshotFacts, EventKinds DEF k, m
  <2> QED BY <2>2
<1>6. RestPart(r, planId, s, acc)
  BY <1>1, <1>2, <1>3, <1>4, <1>5
<1>7. \E w : Proposal(r, s, acc, w)
  BY <1>6, RestKinds
<1> QED BY <1>7 DEF Proposal

\* A run writes all of its plan or nothing, and the states it writes are those
\* the plan proposed, for any snapshots and however the account came about.
THEOREM RunsAreAllOrNothing == Spec => RunIsAllOrNothing
<1> DEFINE Inv == AccountInv(account)
<1>1. Init => Inv
  BY EmptyInv DEF Init
<1>2. Inv /\ [Next]_vars => Inv'
  BY StepKeepsInv
<1>3. ASSUME Inv, [Next]_vars
      PROVE  [\A s \in Snapshots : Ran(s) =>
                \/ account' = account
                \/ /\ reply'.status = "accepted"
                   /\ \A r \in Effective(RunPlan(s)) : IsDone(account', r)
                   /\ \A r \in Range(RunPlan(s).resolutions) :
                        r.proposed # None =>
                          Untimed(account'.reviewState[r.of]) = Untimed(r.proposed)]_vars
  <2> SUFFICES ASSUME NEW s \in Snapshots, Ran(s), ~UNCHANGED vars, account' # account
               PROVE  /\ reply'.status = "accepted"
                      /\ \A r \in Effective(RunPlan(s)) : IsDone(account', r)
                      /\ \A r \in Range(RunPlan(s).resolutions) :
                           r.proposed # None =>
                             Untimed(account'.reviewState[r.of]) = Untimed(r.proposed)
    OBVIOUS
  <2> DEFINE plan == RunPlan(s)  planId == <<"run", s.id>>  rs == plan.resolutions
  <2>1. Run(s)
    BY <1>3, RanIsRun
  <2>2. /\ reply'.status = "accepted"
        /\ \E done, a : IsRunThrough(done, plan, planId, s, account, a)
                        /\ account' = done[Len(rs)].account
    BY <2>1, RunGoesThrough
  <2>3. PICK done, a : IsRunThrough(done, plan, planId, s, account, a)
                       /\ account' = done[Len(rs)].account
    BY <2>2
  <2> HIDE DEF plan, planId
  <2>4. \A r \in Effective(plan) : IsDone(account', r)
    BY <1>3, <2>3, RunIsDone
  <2>5. ASSUME NEW r \in Range(rs), r.proposed # None
        PROVE  Untimed(account'.reviewState[r.of]) = Untimed(r.proposed)
    <3> DEFINE w == r.of
    <3>1. Proposal(r, s, account, w)
      BY <2>3, <2>5, ProposalsOfPlan DEF IsRunThrough
    <3>2. w \in Words /\ NewsOf(s, account, w) # {}
          /\ r.proposed = Recompute(account.reviewState[w], Sorted(s), NewsOf(s, account, w))
      BY <3>1 DEF Proposal
    <3> HIDE DEF w
    <3>3. EndsAs(account', s, account, w)
      BY <1>3, <2>3, <3>2, RunEndsAs
    <3>4. /\ account'.reviewState[w] \in Item \cup {None} /\ r.proposed \in Item
          /\ Similar(account'.reviewState[w], r.proposed)
      BY <3>2, <3>3 DEF EndsAs
    <3> QED BY <3>4, SimilarItems DEF w
  <2> QED BY <2>2, <2>4, <2>5 DEF plan
<1> HIDE DEF Inv
<1> QED BY <1>1, <1>2, <1>3, PTL DEF Spec, RunIsAllOrNothing

\* A plan that is not blocked has no false claim of mastery in it: behind what the
\* snapshot calls mastered is what the plan reckons with, and five correct answers.
LEMMA MasteryHasEvidence ==
  ASSUME NEW s \in Snapshots, NEW plan, plan.status # "blocked", NEW planId, NEW acc, NEW a,
         IsPlan(plan, planId, s, acc, a), NEW w \in Words,
         NEW now, EndsAs(now, s, acc, w),
         s.reviewState[w] # None, s.reviewState[w] # Malformed, s.reviewState[w].box = 5
  PROVE  LET news == NewsOf(s, acc, w)
             reckoned == Recompute(acc.reviewState[w], Sorted(s), news) IN
         /\ reckoned # None /\ reckoned.mastery = "Mastered"
         /\ CorrectOn(acc.reviewEvents, w) + Cardinality(CorrectIn(Sorted(s), news)) >= 5
<1> DEFINE own == s.reviewState[w]  kept == acc.reviewState[w]
           news == NewsOf(s, acc, w)
           correct == CorrectOn(acc.reviewEvents, w) + Cardinality(CorrectIn(Sorted(s), news))
           reckoned == Recompute(kept, Sorted(s), news)
           proposed == IF news = {} THEN None ELSE reckoned
           plain == Resolution(planId, "review_state", RecomputedAs(proposed, own, kept),
                               "recompute_from_events", w)
           recompute == [plain EXCEPT !.proposed = proposed]
           say(category, action) ==
             <<Resolution(planId, "review_state", category, action, w)>>
           false == ClaimsMasteryFalsely(own, proposed, kept, correct)
           ss == StateResolution(planId, s, acc, Sorted(s), MergedOf(s, acc), w)
           risk == Resolution(planId, "review_state", "fake_mastery_risk", "reject_blocked", w)
<1>1. ss = CASE own = Malformed -> <<Unsupported(planId, w)>>
             [] own # Malformed /\ false -> <<risk>>
             [] OTHER ->
                  IF proposed # None THEN <<recompute>>
                  ELSE IF own # None /\ kept # None THEN say(KeptAs(own, kept), "keep_server")
                  ELSE IF own # None THEN say("stale_review_state", "skip_audit_only")
                  ELSE << >>
  BY DEF StateResolution, NewsOf, CorrectOn
<1>2. ASSUME false PROVE FALSE
  <2> HIDE DEF own, kept, proposed, correct, false, recompute, ss, risk
  <2>1. own # Malformed
    BY DEF own
  <2>2. ss = <<risk>>
    BY <1>1, <1>2, <2>1
  <2>3. risk \in Range(ss)
    BY <2>2, SingleIsSeq DEF Single
  <2>4. RestPart(risk, planId, s, acc)
    BY <2>3 DEF RestPart, ss
  <2>5. risk \in Range(plan.resolutions)
    BY <2>4 DEF IsPlan
  <2>6. risk.action = "reject_blocked"
    BY ResolutionFields DEF risk
  <2> QED BY <2>5, <2>6 DEF IsPlan
<1>3. HasMasteryEvidence(IF proposed = None THEN kept ELSE proposed, correct)
  BY <1>2 DEF ClaimsMasteryFalsely
<1>4. Len(Sorted(s)) \in Nat
  BY SnapshotFacts
<1>5. news = {} => reckoned = kept
  BY <1>4, RecomputeNothing
<1> HIDE DEF reckoned, news, kept, correct
<1>6. (IF proposed = None THEN kept ELSE proposed) = reckoned
      \/ (news # {} /\ reckoned = None)
  BY <1>5
<1>7. news # {} => reckoned # None
  BY NamesAssumption DEF EndsAs, news, reckoned, kept
<1>8. HasMasteryEvidence(reckoned, correct)
  BY <1>3, <1>6, <1>7
<1> QED BY <1>8 DEF HasMasteryEvidence, reckoned, news, kept, correct

\* What a device's accepted snapshot calls mastered, the account has mastered too, by
\* five correct answers it holds: for any snapshots and however the account came about.
THEOREM MasteryIsEarned == Spec => MasteryAgrees
<1> DEFINE Inv == AccountInv(account)
           Earned(s) ==
             \A w \in Words :
               (s.reviewState[w] \notin {None, Malformed} /\ s.reviewState[w].box = 5) =>
                 /\ account'.reviewState[w] # None
                 /\ account'.reviewState[w].mastery = "Mastered"
                 /\ Cardinality(CorrectIn(account'.reviewEvents,
                                          EventsOn(account'.reviewEvents, w))) >= 5
<1>1. Init => Inv
  BY EmptyInv DEF Init
<1>2. Inv /\ [Next]_vars => Inv'
  BY StepKeepsInv
<1>3. ASSUME Inv, [Next]_vars
      PROVE  [\A s \in Snapshots : (Ran(s) /\ reply'.status = "accepted") => Earned(s)]_vars
  <2> SUFFICES ASSUME NEW s \in Snapshots, Ran(s), reply'.status = "accepted", ~UNCHANGED vars,
                      NEW w \in Words, s.reviewState[w] \notin {None, Malformed},
                      s.reviewState[w].box = 5
               PROVE  /\ account'.reviewState[w] # None
                      /\ account'.reviewState[w].mastery = "Mastered"
                      /\ CorrectOn(account'.reviewEvents, w) >= 5
    BY DEF CorrectOn
  <2> DEFINE plan == RunPlan(s)  planId == <<"run", s.id>>  rs == plan.resolutions
             news == NewsOf(s, account, w)
             reckoned == Recompute(account.reviewState[w], Sorted(s), news)
  <2>1. Run(s)
    BY <1>3, RanIsRun
  <2>2. /\ plan.status # "blocked"
        /\ \E done, a : IsRunThrough(done, plan, planId, s, account, a)
                        /\ account' = done[Len(rs)].account
    BY <2>1, RunGoesThrough
  <2>3. PICK done, a : IsRunThrough(done, plan, planId, s, account, a)
                       /\ account' = done[Len(rs)].account
    BY <2>2
  <2> HIDE DEF plan, planId
  <2>4. EndsAs(account', s, account, w)
    BY <1>3, <2>3, RunEndsAs
  <2>5. IsPlan(plan, planId, s, account, a)
    BY <2>3 DEF IsRunThrough
  <2>6. /\ reckoned # None /\ reckoned.mastery = "Mastered"
        /\ CorrectOn(account.reviewEvents, w) + Cardinality(CorrectIn(Sorted(s), news)) >= 5
    BY <2>2, <2>4, <2>5, MasteryHasEvidence
  <2> HIDE DEF reckoned, news
  <2>7. /\ account'.reviewState[w] \in Item \cup {None} /\ reckoned \in Item
        /\ Similar(account'.reviewState[w], reckoned)
        /\ CorrectOn(account'.reviewEvents, w) =
             CorrectOn(account.reviewEvents, w) + Cardinality(CorrectIn(Sorted(s), news))
    BY <2>4, <2>6 DEF EndsAs, reckoned, news
  <2>8. account'.reviewState[w] \in Item /\ account'.reviewState[w].mastery = "Mastered"
    BY <2>6, <2>7, SimilarItems
  <2>9. None \notin Item
    BY NamesAssumption
  <2> QED BY <2>6, <2>7, <2>8, <2>9
<1> HIDE DEF Inv
<1> QED BY <1>1, <1>2, <1>3, PTL DEF Spec, MasteryAgrees
=============================================================================
