--------------------------- MODULE MCReviewSession ---------------------------
(* Small instances of ReviewSession *)
EXTENDS ReviewSession

CONSTANTS w1, w2, w3

\* An empty route, one card, and a hub pack with a repeated word and one word
\* too many
SmallQueues == {<< >>, <<w1>>, <<w1, w2, w1, w3>>}

TwoCards == {<<w1, w2, w1, w3>>}
OneCard == {<<w1>>}
==============================================================================
