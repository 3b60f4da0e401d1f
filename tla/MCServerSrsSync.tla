--------------------------- MODULE MCServerSrsSync ---------------------------
(* A small instance of the service, with the guest migration that uses it *)
EXTENDS GuestMigration

CONSTANTS u1, u2, w1, p1

Ans(id, session, result, at) ==
  [eventId |-> id, sessionId |-> session, slug |-> w1, result |-> result,
   speed |-> "fast", confidence |-> "knew", usedHint |-> FALSE, createdAt |-> at]

Key(k) == IF k = None THEN None ELSE <<k>>

Save(k, u, at, valid) ==
  [key |-> Key(k), user |-> u, operation |-> "save_word", valid |-> valid,
   slug |-> w1, savedAt |-> at]
Archive(k, u) ==
  [key |-> Key(k), user |-> u, operation |-> "archive_word", valid |-> TRUE,
   slug |-> w1, archivedAt |-> 7]
Submit(k, u, a, pack, valid) ==
  [key |-> Key(k), user |-> u, operation |-> "submit_review_event", valid |-> valid,
   answer |-> a, pack |-> pack]

e1  == Ans("e1", "s1", "correct", 4)
e1b == Ans("e1", "s1", "wrong", 4)
e2  == Ans("e2", "s1", "wrong", 5)

\* A save and an archive of a word, an event of each user, and what the service
\* refuses: an archive that comes too early, a key used by another user
SingleWrites ==
  {Save("k1", u1, 3, TRUE), Archive("k3", u1), Submit("k4", u1, e1, p1, TRUE),
   Submit("k6", u2, e2, None, TRUE)}

Item_(write, retryable) == [write |-> write, retryable |-> retryable]

\* A queue with an event of the sender (under the other user's key), an item that waits for its retry, an
\* archive, and an operation the service does not know
QueueBatches ==
  {[key |-> Key("kb"), user |-> u1, operation |-> "sync_pending_local_queue",
    items |-> <<Item_(Submit("k6", None, e2, p1, TRUE), FALSE),
                Item_(Save("k2", u1, 8, TRUE), TRUE),
                Item_([Archive("k9", u1) EXCEPT !.operation = "unsupported"], FALSE),
                Item_(Archive("k3", u1), FALSE)>>],
   [key |-> None, user |-> u1, operation |-> "sync_pending_local_queue",
    items |-> << >>]}

Row(slug, valid) == [slug |-> slug, valid |-> valid]

\* The browser the account's device was before: the same two events, the
\* first with another result and stored twice, and the saved word
Practised ==
  [id |-> "g1",
   reviewEvents |-> <<[answer |-> e2, valid |-> TRUE], [answer |-> e1b, valid |-> TRUE],
                      [answer |-> e1b, valid |-> TRUE]>>,
   savedWords |-> <<[slug |-> w1, savedAt |-> 1, valid |-> TRUE]>>,
   reviewState |-> <<[slug |-> w1, mastered |-> FALSE, valid |-> TRUE]>>,
   dailyStats |-> << >>, packProgress |-> <<Row(p1, TRUE)>>,
   upgradeInterest |-> << >>]

\* A later snapshot without events: mastery nothing earned, a malformed row
Claimed ==
  [id |-> "g2", reviewEvents |-> << >>,
   savedWords |-> <<[slug |-> w1, savedAt |-> 9, valid |-> TRUE]>>,
   reviewState |-> <<[slug |-> w1, mastered |-> TRUE, valid |-> TRUE]>>,
   dailyStats |-> <<[slug |-> 0, valid |-> FALSE]>>, packProgress |-> << >>,
   upgradeInterest |-> <<Row("i1", TRUE), Row("i1", TRUE), Row("i2", TRUE)>>]

GuestSnapshots == {Practised, Claimed}
KnownInterest == [u \in Users |-> IF u = u1 THEN {"i2"} ELSE {}]
GuestMigrations == {<<Practised, u1>>, <<Claimed, u1>>}

AllWrites == SingleWrites \cup MigrationWrites
==============================================================================
