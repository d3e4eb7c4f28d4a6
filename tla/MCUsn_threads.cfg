\* Three concurrent writers and readers, lazy commits, crashes.
CONSTANTS
  Threads = {t1, t2, t3}
  gcMaxJetSessions = 3
  MaxTransLevel = 1
  USN_DELTA_INIT = 1
  USN_MAX = 5
  MaxInvocations = 1
  Backups = FALSE
SPECIFICATION Spec
SYMMETRY ThreadSymmetry
INVARIANTS
  TypeOK
  SnapshotComplete
  UncommittedTracked
PROPERTY HighestCommittedMonotone
