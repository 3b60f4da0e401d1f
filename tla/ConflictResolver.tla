-------------------------- MODULE ConflictResolver ---------------------------
(***************************************************************************)
(* src/src/lib/account-persistence/sync-conflicts/conflict-resolver.ts: the *)
(* plan that brings a device's snapshot to an account, a sequence of        *)
(* resolutions, one for each entry of the snapshot and of the account.      *)
(*                                                                          *)
(* A snapshot holds the device's stores: saved words, review state, review  *)
(* events, pack progress and upgrade interest.  An entry its validator      *)
(* refuses has valid = FALSE, or is Malformed where the entry has no        *)
(* record.                                                                  *)
(***************************************************************************)
EXTENDS ServerAdapter

CONSTANT Malformed

\* createResolution: the id is made of the plan, the target, the category and
\* the entry's own id
Resolution(planId, target, category, action, of) ==
  [id |-> <<planId, target, category, of>>, target |-> target,
   category |-> category, action |-> action, of |-> of, proposed |-> None]

\* createUnsupportedPayloadResolution
Unsupported(planId, of) ==
  Resolution(planId, "payload", "unsupported_payload", "reject_blocked", of)

-----------------------------------------------------------------------------
(* Saved words *)

WordResolution(planId, local, server, w) ==
  LET word == local.savedWords[w] IN
  CASE word = None -> << >>
    [] word # None /\ ~word.valid -> <<Unsupported(planId, w)>>
    [] word # None /\ word.valid /\ server.savedWords[w] # None ->
         <<Resolution(planId, "saved_word", "duplicate_saved_word",
                      "no_op_duplicate", w)>>
    [] OTHER -> <<Resolution(planId, "saved_word", "local_only_saved_word",
                             "import_to_server", w)>>

ServerOnlyWord(planId, local, server, w) ==
  IF server.savedWords[w] # None /\ local.savedWords[w] = None
  THEN <<Resolution(planId, "saved_word", "server_only_saved_word",
                    "keep_server", w)>>
  ELSE << >>

-----------------------------------------------------------------------------
(* Review events *)

\* toSortedEvents: by creation, then by eventId; sort() leaves equals in place
Precedes(events, i, j) ==
  LET a == events[i]  b == events[j] IN
  \/ a.createdAt < b.createdAt
  \/ a.createdAt = b.createdAt /\ a.order < b.order
  \/ a.createdAt = b.createdAt /\ a.order = b.order /\ i < j

SortedEvents(events) ==
  [n \in DOMAIN events |->
     events[CHOOSE i \in DOMAIN events :
              Cardinality({j \in DOMAIN events : Precedes(events, j, i)}) = n - 1]]

\* createReviewEventFingerprint: the payload, boxes and scores included
Payload(event) == [event EXCEPT !.key = None]

\* The key is on the server, or earlier in the snapshot, with another payload
KeyConflicts(event, events) ==
  event.key # None /\ \E e \in events : e.key = event.key /\ Payload(e) # Payload(event)

IsDuplicate(event, earlier, onServer) ==
  \/ \E e \in earlier \cup onServer : e.eventId = event.eventId
  \/ event.key # None /\ \E e \in onServer : e.key = event.key

\* The event loop over the sorted events.  Those pass whose shape is valid and
\* whose key is not in conflict with the server or with one that passed before.
Passed(sorted, onServer) ==
  LET isClear[n \in DOMAIN sorted] ==
        ~KeyConflicts(sorted[n], onServer \cup
           {sorted[i] : i \in {m \in 1..(n - 1) : sorted[m].valid /\ isClear[m]}})
  IN {n \in DOMAIN sorted : sorted[n].valid /\ isClear[n]}

\* Those merged, which the account does not have
Merged(sorted, onServer) ==
  LET passed == Passed(sorted, onServer) IN
  {n \in passed :
     ~IsDuplicate(sorted[n], {sorted[i] : i \in {m \in passed : m < n}}, onServer)}

EventResolution(planId, sorted, onServer, n) ==
  LET say(category, action) ==
        Resolution(planId, "review_event", category, action, sorted[n].eventId) IN
  IF ~sorted[n].valid THEN Unsupported(planId, sorted[n].eventId)
  ELSE IF n \notin Passed(sorted, onServer)
  THEN say("idempotency_key_payload_conflict", "reject_blocked")
  ELSE IF n \notin Merged(sorted, onServer)
  THEN say("duplicate_review_event", "no_op_duplicate")
  ELSE say("local_review_event_not_on_server", "merge_event_evidence")

-----------------------------------------------------------------------------
(* Review state *)

\* groupEventsBySlug: the positions of a word's events
EventsOn(events, w) == {i \in DOMAIN events : events[i].slug = w}

CorrectIn(events, at) == {i \in at : events[i].result = "correct"}

\* recomputeReviewStateFromEvents, of the events at some positions
Recompute(base, events, at) ==
  LET item[n \in 0..Len(events)] ==
        IF n = 0 THEN base
        ELSE IF n \in at
        THEN ItemAfter(OrNew(item[n - 1], events[n].createdAt), events[n])
        ELSE item[n - 1]
  IN item[Len(events)]

Weight == [New |-> 0, Learning |-> 1, Weak |-> -1, Strong |-> 3, Mastered |-> 5]

\* stateStrengthScore, in tenths
Strength(item) ==
    1000 * item.box + 200 * Weight[item.mastery] + 40 * item.correct
  + 20 * item.streakCorrect - 80 * item.wrong - 7 * item.weakScore

\* hasSufficientMasteryEvidence: correct counts the correct answers
HasMasteryEvidence(proposed, correct) ==
  proposed # None /\ proposed.mastery = "Mastered" /\ correct >= 5

\* mutant of ClaimsMasteryFalsely: the label is believed
NeverClaims(own, proposed, server, correct) == FALSE

ClaimsMasteryFalsely(own, proposed, server, correct) ==
  /\ own # None
  /\ own.mastery = "Mastered" \/ own.box = 5
  /\ ~HasMasteryEvidence(IF proposed = None THEN server ELSE proposed, correct)

\* The category a recomputed state is filed under
RecomputedAs(proposed, own, server) ==
  CASE server # None /\ Strength(proposed) < Strength(server) ->
         "local_weaker_than_server"
    [] server # None /\ Strength(proposed) > Strength(server) ->
         "server_weaker_than_local"
    [] server = None /\ own # None /\ Strength(proposed) >= Strength(own) ->
         "local_stronger_than_server"
    [] OTHER -> "stale_review_state"

KeptAs(own, server) ==
  CASE Strength(own) > Strength(server) -> "local_stronger_than_server"
    [] Strength(own) < Strength(server) -> "server_stronger_than_local"
    [] OTHER -> "stale_review_state"

StateResolution(planId, local, server, sorted, merged, w) ==
  LET own      == local.reviewState[w]
      kept     == server.reviewState[w]
      news     == EventsOn(sorted, w) \cap merged
      correct  == Cardinality(CorrectIn(server.reviewEvents,
                                        EventsOn(server.reviewEvents, w)))
                + Cardinality(CorrectIn(sorted, news))
      proposed == IF news = {} THEN None ELSE Recompute(kept, sorted, news)
      say(category, action) ==
        <<Resolution(planId, "review_state", category, action, w)>> IN
  CASE own = Malformed -> <<Unsupported(planId, w)>>
    [] own # Malformed /\ ClaimsMasteryFalsely(own, proposed, kept, correct) ->
         say("fake_mastery_risk", "reject_blocked")
    [] OTHER ->
         IF proposed # None
         THEN <<[Resolution(planId, "review_state",
                            RecomputedAs(proposed, own, kept),
                            "recompute_from_events", w)
                 EXCEPT !.proposed = proposed]>>
         ELSE IF own # None /\ kept # None
         THEN say(KeptAs(own, kept), "keep_server")
         ELSE IF own # None
         THEN say("stale_review_state", "skip_audit_only")
         ELSE << >>

-----------------------------------------------------------------------------
(* Pack progress and upgrade interest *)

PackResolution(planId, local, server, sorted, merged, p) ==
  LET say(action) == <<Resolution(planId, "pack_progress",
                         "pack_progress_without_event_evidence", action, p)>> IN
  CASE local.packProgress[p] = None -> << >>
    [] local.packProgress[p] = Malformed -> <<Unsupported(planId, p)>>
    [] OTHER ->
         IF \E e \in Range(server.reviewEvents) \cup {sorted[i] : i \in merged} : e.pack = p
         THEN say("recompute_from_events")
         ELSE say("skip_audit_only")

InterestResolution(planId, interest) ==
  IF ~interest.valid THEN Unsupported(planId, interest.id)
  ELSE Resolution(planId, "upgrade_interest", "upgrade_interest_attribution_only",
                  "attribution_only", interest.id)

-----------------------------------------------------------------------------
\* resolveAccountSyncConflicts
Resolve(planId, local, server) ==
  LET sorted   == SortedEvents(local.reviewEvents)
      onServer == Range(server.reviewEvents)
      merged   == Merged(sorted, onServer)
      words    == [i \in DOMAIN Slugs |->
                     WordResolution(planId, local, server, Slugs[i])]
      others   == [i \in DOMAIN Slugs |->
                     ServerOnlyWord(planId, local, server, Slugs[i])]
      events   == [n \in DOMAIN sorted |->
                     EventResolution(planId, sorted, onServer, n)]
      states   == [i \in DOMAIN Slugs |->
                     StateResolution(planId, local, server, sorted, merged, Slugs[i])]
      packs    == [i \in DOMAIN PackIds |->
                     PackResolution(planId, local, server, sorted, merged, PackIds[i])]
      interest == [i \in DOMAIN local.upgradeInterest |->
                     InterestResolution(planId, local.upgradeInterest[i])]
      all      == FlattenSeq(words) \o FlattenSeq(others) \o events
                  \o (FlattenSeq(states) \o FlattenSeq(packs) \o interest)
  IN [planId |-> planId, resolutions |-> all,
      status |-> IF \E r \in Range(all) : r.action = "reject_blocked"
                 THEN "blocked" ELSE "preview_only"]
==============================================================================
