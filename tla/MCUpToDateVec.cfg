\* Two servers, one of which only speaks version 1, and a running clock, against
\* claims without vectors.
CONSTANTS
  Servers = {1, 2}
  Ids = {1, 2, 3}
  FirstId <- TwoFirstIds
  Gcs = {2}
  W2k = {1}
  New = {2}
  MaxUsn = 2
  MaxTime = 3
  MaxCycles = 1
SPECIFICATION Spec
CHECK_DEADLOCK FALSE
INVARIANTS
  TypeOK
  WellFormed
  NoClaimAhead
  MergeIsCommon
  SynchronizedMeansSynced
PROPERTIES
  ImplementsClaims
