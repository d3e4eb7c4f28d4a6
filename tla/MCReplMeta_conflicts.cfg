\* Two writable servers and a global catalog, one of which falls once; versions
\* around the middle and the end of their range.
CONSTANTS
  Half = 8
  Writable = {1, 2}
  ReadOnly = {3}
  Times = {1, 2}
  Bumps = {2}
  MaxStamps = 2
  MaxFalls = 1
  InitVersions <- NearTheLimits
SPECIFICATION FairSpec
CONSTRAINT FirstOfOne
CHECK_DEADLOCK FALSE
INVARIANTS
  TypeOK
  VersionsSerial
  ProcessedBelow
  EqualMeansSame
  UnderriddenLoses
PROPERTY Converges
