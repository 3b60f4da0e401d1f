SPECIFICATION Spec
CONSTANTS
  None = None
  Malformed = Malformed
  Slugs <- Slugs_
  PackIds <- PackIds_
  Dates <- Dates_
  Snapshots <- Snapshots_
  Previewed <- Previewed_
  WordWrites <- WordWrites_
  EventWrites <- EventWrites_
  InterestWrites <- InterestWrites_
  ApplyKeys = {"a1"}
  Flaws = {"missing_idempotency_key"}
  MaxCalls = 4
INVARIANTS AccountFollowsEvents AppliedWasPreviewed
PROPERTIES RunIsAllOrNothing RerunAddsNothing MasteryAgrees
CHECK_DEADLOCK FALSE
