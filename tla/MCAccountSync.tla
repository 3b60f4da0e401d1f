---------------------------- MODULE MCAccountSync ----------------------------
(* Small instances of AccountSync *)
EXTENDS AccountSync

Slugs_ == <<"w1", "w2">>
PackIds_ == <<"p1">>

Word(w, at, valid) == [slug |-> w, savedAt |-> at, valid |-> valid]

\* An event as a device made it: the boxes are those of the device.  Clients'
\* keys are tuples, for TLC to compare them with the ids of resolutions.
Ev(id, n, w, result, at, pack, key, item) ==
  LET answer == [eventId |-> id, order |-> n, slug |-> w, result |-> result,
                 speed |-> "fast", confidence |-> "knew", usedHint |-> FALSE,
                 createdAt |-> at, pack |-> pack, key |-> key, valid |-> TRUE,
                 boxBefore |-> 0, boxAfter |-> 0, weakScoreBefore |-> 0,
                 weakScoreAfter |-> 0]
  IN StoredEvent(answer, key, item, ItemAfter(item, answer))

new1 == NewItem(3)
e1 == Ev("e1", 1, "w1", "correct", 4, "p1", <<"k1">>, new1)
\* e2 bears the key of a saved word, which no stored event shows
e2 == Ev("e2", 2, "w1", "wrong", 5, "p1", <<"k2">>, ItemAfter(new1, e1))
e3 == Ev("e3", 3, "w1", "wrong", 6, None, <<"k1">>, new1)   \* e1's key again
e4 == Ev("e4", 4, "w1", "wrong", 2, None, <<"k4">>, NewItem(2))

\* Five correct answers, each when the word was due
Step(done, n) ==
  LET at == done.item.nextDueAt
      e == Ev(n[2], 10 + n[1], "w2", "correct", at, None, None, done.item)
  IN [item |-> ItemAfter(done.item, e), events |-> Append(done.events, e)]
Mastering == FoldLeft(Step, [item |-> NewItem(8), events |-> << >>],
                      << <<1, "m1">>, <<2, "m2">>, <<3, "m3">>,
                         <<4, "m4">>, <<5, "m5">> >>)
Mastered_ == [NewItem(8) EXCEPT !.box = 5, !.mastery = "Mastered"]

Blank(id) ==
  [id |-> id, savedWords |-> [w \in Words |-> None],
   reviewState |-> [w \in Words |-> None], reviewEvents |-> << >>,
   packProgress |-> [p \in Packs |-> None], upgradeInterest |-> << >>]

\* A device that reviewed a word twice
Device == [Blank("device") EXCEPT
  !.savedWords["w1"] = Word("w1", 3, TRUE),
  !.reviewState["w1"] = ItemAfter(ItemAfter(new1, e1), e2),
  !.reviewEvents = <<e2, e1, e1>>, !.packProgress["p1"] = "valid",
  !.upgradeInterest = <<[id |-> "i1", valid |-> TRUE]>>]
\* One that mastered the other word, one that only says so
Master == [Blank("master") EXCEPT
  !.reviewState["w2"] = Mastering.item, !.reviewEvents = Mastering.events]
Boaster == [Blank("boaster") EXCEPT
  !.savedWords["w1"] = Word("w1", 9, TRUE), !.reviewState["w2"] = Mastered_]
\* One that used a key twice, and one with malformed entries
Reuser == [Blank("reuser") EXCEPT
  !.reviewEvents = <<e3>>, !.reviewState["w1"] = ItemAfter(new1, e3),
  !.packProgress["p1"] = "valid"]
Broken == [Blank("broken") EXCEPT
  !.savedWords["w2"] = Word("w2", 3, FALSE), !.reviewState["w1"] = Malformed,
  !.reviewEvents = <<[e4 EXCEPT !.valid = FALSE]>>,
  !.packProgress["p1"] = Malformed,
  !.upgradeInterest = <<[id |-> "i2", valid |-> FALSE]>>]

Snapshots_ == {Device, Master, Boaster, Reuser, Broken}
Previewed_ == {Device, Boaster}
WordWrites_ == {[word |-> Word("w1", 1, TRUE), key |-> <<"k2">>],
                [word |-> Word("w2", 1, FALSE), key |-> <<"k2">>],
                [word |-> Word("w2", 1, TRUE), key |-> None]}
EventWrites_ == {[event |-> e4, key |-> <<"k4">>], [event |-> e1, key |-> <<"k5">>],
                 [event |-> e2, key |-> <<"k4">>], [event |-> e2, key |-> None],
                 [event |-> [e4 EXCEPT !.valid = FALSE], key |-> <<"k6">>]}
InterestWrites_ == {[id |-> "i1", valid |-> TRUE], [id |-> "i3", valid |-> FALSE]}
Dates_ == {DateOf(e.createdAt) : e \in {e1, e2, e3, e4} \cup Range(Mastering.events)}
==============================================================================
