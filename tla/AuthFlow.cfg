SPECIFICATION FairSpec
CONSTANTS
  None = None
  Keep = Keep
  Browsers <- Browsers_
  Tabs <- Tabs_
  Uses <- Uses_
  Learners = {"own"}
  OwnerOf <- OwnerOf_
  Forms = {"known", "other_host"}
  MaxRequests = 2
  MaxFaults = 1
INVARIANTS OwnRequestOnly ConsumedStaysConsumed SignOutIsHonest
PROPERTY SignInCompletes
