\* Two threads with nested transactions, crashes, backups, restores and changes of invocation id.
CONSTANTS
  Threads = {t1, t2}
  gcMaxJetSessions = 2
  MaxTransLevel = 2
  USN_DELTA_INIT = 1
  USN_MAX = 4
  MaxInvocations = 2
  Backups = TRUE
SPECIFICATION Spec
SYMMETRY ThreadSymmetry
INVARIANTS
  NothingCommitsBelow
  OwnClaimSound
PROPERTY UsnNeverReissued
