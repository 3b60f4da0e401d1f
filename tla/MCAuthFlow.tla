----------------------------- MODULE MCAuthFlow ------------------------------
(* Small instances of AuthFlow: the learner's browser with two tabs, and a   *)
(* browser of somebody else, or a mail scanner, with one.                    *)
EXTENDS AuthFlow

Browsers_ == {"own", "other"}
Tabs_ == {"t1", "t2", "scanner"}
OwnerOf_ == [t \in Tabs_ |-> IF t = "scanner" THEN "other" ELSE "own"]
Uses_ == [t1 |-> Kinds, t2 |-> {"login", "continue"},
          scanner |-> {"login", "confirm"}]
==============================================================================
