---------------------------- MODULE MCReviewQueues ----------------------------
(* Small instances of ReviewQueues *)
EXTENDS ReviewQueues

CONSTANTS w1, w2

Missed == [result |-> "wrong", speed |-> "slow", confidence |-> "forgot",
           usedHint |-> FALSE]
Guessed == [Recalled EXCEPT !.confidence = "guessed", !.speed = "slow"]
Hinted == [Recalled EXCEPT !.usedHint = TRUE]
Thought == [Recalled EXCEPT !.speed = "medium"]
Slip == [Missed EXCEPT !.speed = "fast", !.confidence = "knew"]

AllKinds == {Recalled, Missed, Guessed, Hinted, Thought, Slip}

\* Ten minutes later, the next day, and after the wait for delayed recall
FewInstants == {0, 1, 150, 14 * 144 + 1}
==============================================================================
