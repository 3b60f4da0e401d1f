--------------------------- MODULE MCReviewStorage ---------------------------
(* Small instances of ReviewStorage *)
EXTENDS ReviewStorage

CONSTANTS w1, w2, t1

Ans(id, session, w, result, speed, confidence, at) ==
  [eventId |-> id, sessionId |-> session, slug |-> w, result |-> result,
   speed |-> speed, confidence |-> confidence, usedHint |-> FALSE,
   createdAt |-> at]

\* Three answers of one session around midnight, the second on the first's
\* word, and a conflicting reuse of the first eventId.
OneTabAnswers ==
  {Ans("e1", "s1", w1, "correct", "fast", "knew", 140),
   Ans("e1", "s1", w1, "correct", "fast", "guessed", 140),
   Ans("e2", "s1", w1, "wrong", "fast", "forgot", 141),
   Ans("e3", "s1", w2, "wrong", "slow", "knew", 144)}
==============================================================================
