SPECIFICATION GuestSpec
CONSTANTS
  u1 = u1
  u2 = u2
  w1 = w1
  p1 = p1
  Users = {u1, u2}
  Words = {w1}
  Packs = {p1}
  Envelopes <- AllWrites
  Snapshots <- GuestSnapshots
  Migrations <- GuestMigrations
  AccountInterest <- KnownInterest
  Batches <- QueueBatches
  None = None
INVARIANTS OnceEach StateIsReplay RollupsFollowEvents AcceptedIsCarried PreviewIsTrue
PROPERTIES RetryReturnsOriginal ArchivedUntilSavedAgain CursorTracksAccount
