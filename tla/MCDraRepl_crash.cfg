\* Both ways, for ever, with a crash that loses lazy commits.
CONSTANTS
  N = 2
  Links <- TwoWay
  NCHead = "nc"
  Leaves = {"p"}
  Ancestors <- MCAncestors
  PersistEvery = 1
  Writers = {1, 2}
  Backups = {}
  MaxWrites = 2
  MaxOpen = 1
  MaxSyncs = 0
  MaxActive = 1
  CutPackets = TRUE
  MaxAborts = 0
  MaxCrashes = 1
  MaxExpired = 0
  MaxIds = 2
SPECIFICATION FairSpec
CHECK_DEADLOCK FALSE
INVARIANT NothingLost
PROPERTY Converges
