\* One way, packets cut anywhere, out of order commits, failed calls, expiry.
CONSTANTS
  N = 2
  Links <- OneWay
  NCHead = "nc"
  Leaves = {"p", "c"}
  Ancestors <- MCAncestors
  PersistEvery = 1
  Writers = {1}
  Backups = {}
  MaxWrites = 4
  MaxOpen = 2
  MaxSyncs = 2
  MaxActive = 1
  CutPackets = TRUE
  MaxAborts = 1
  MaxCrashes = 0
  MaxExpired = 1
  MaxIds = 2
SPECIFICATION Spec
CHECK_DEADLOCK FALSE
CONSTRAINT FewAtOnce
VIEW View
INVARIANTS
  TypeOK
  UTDSound
  SkippedIsThere
  FullPacketSuffices
  ParentPresent
PROPERTY WatermarkKept
