\* Both ways, backup, restore, a crash and a change of invocation id.
CONSTANTS
  N = 2
  Links <- TwoWay
  NCHead = "nc"
  Leaves = {}
  Ancestors <- MCAncestors
  PersistEvery = 2
  Writers = {1}
  Backups = {1, 2}
  MaxWrites = 2
  MaxOpen = 1
  MaxSyncs = 3
  MaxActive = 1
  CutPackets = FALSE
  MaxAborts = 0
  MaxCrashes = 1
  MaxExpired = 0
  MaxIds = 3
SPECIFICATION Spec
CHECK_DEADLOCK FALSE
VIEW View
INVARIANT NothingLost
