\* One way, packets cut anywhere, and the source is restored from a backup.
CONSTANTS
  N = 2
  Links <- OneWay
  NCHead = "nc"
  Leaves = {"p", "c"}
  Ancestors <- Siblings
  PersistEvery = 1
  Writers = {1}
  Backups = {1}
  MaxWrites = 3
  MaxOpen = 1
  MaxSyncs = 1
  MaxActive = 1
  CutPackets = TRUE
  MaxAborts = 0
  MaxCrashes = 0
  MaxExpired = 0
  MaxIds = 3
SPECIFICATION Spec
CHECK_DEADLOCK FALSE
VIEW View
INVARIANT SeenBeforeRestore
