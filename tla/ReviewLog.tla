------------------------------ MODULE ReviewLog ------------------------------
(***************************************************************************)
(* What storage.ts promises the pages of one browser tab: "Review answer    *)
(* persistence is treated as one logical commit" (the failure model of      *)
(* docs/TRACK_B_REVIEW_RELIABILITY_GATE.md).  An answer is applied to the   *)
(* three stores in one step or not at all, an eventId is applied once, and  *)
(* only a reported fatal error or a tab that dies leaves a mixture of the   *)
(* stores before and after.                                                 *)
(***************************************************************************)
EXTENDS ReviewStores

CONSTANT SaveTimes   \* when the save page may save a word

VARIABLES stores,     \* the committed review stores
          malformed,  \* the stores no commit can be based on
          acked,      \* the answers reported as saved
          fatal,      \* an inconsistency was reported to the learner
          crashes     \* calls cut short so far

logVars == <<stores, malformed, acked, fatal, crashes>>

LogInit ==
  /\ stores = EmptyStores
  /\ malformed \in {{}} \cup {{k} : k \in Keys}
  /\ acked = {}
  /\ fatal = FALSE
  /\ crashes = 0

\* An answer can be based on the stores, and its eventId is new to them
IsNew(a) ==
  /\ malformed = {}
  /\ a.eventId \notin EventIds(stores.reviewEvents)

Answer(a) ==
  /\ IsNew(a)
  /\ stores' = StoresAfter(stores, a)
  /\ acked' = acked \cup {a}
  /\ UNCHANGED <<malformed, fatal, crashes>>

Replay(a) ==
  /\ malformed = {}
  /\ ReplaysCleanly(stores, a)
  /\ acked' = acked \cup {a}
  /\ UNCHANGED <<stores, malformed, fatal, crashes>>

Save(w, savedAt) ==
  /\ stores' = [stores EXCEPT !.reviewState = SavedState(@, w, savedAt)]
  /\ malformed' = malformed \ {"reviewState"}
  /\ UNCHANGED <<acked, fatal, crashes>>

\* Each of the three stores is the one before or the one after the answer
Torn(a) == \A k \in Keys : stores'[k] \in {stores[k], StoresAfter(stores, a)[k]}

FatalError(a) ==
  /\ IsNew(a)
  /\ Torn(a)
  /\ DOMAIN stores' = Keys
  /\ fatal' = TRUE
  /\ UNCHANGED <<malformed, acked, crashes>>

\* A call that dies may have been any, also one that writes nothing
Die ==
  /\ crashes' = crashes + 1
  /\ \/ \E a \in Answers : IsNew(a) /\ Torn(a) /\ DOMAIN stores' = Keys
     \/ UNCHANGED stores
  /\ UNCHANGED <<malformed, acked, fatal>>

LogNext ==
  \/ \E a \in Answers :
       Answer(a) \/ Replay(a) \/ FatalError(a)
  \/ Die
  \/ \E w \in Words, at \in SaveTimes : Save(w, at)

LogSpec == LogInit /\ [][LogNext]_logVars
==============================================================================
