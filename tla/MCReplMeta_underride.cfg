\* One writer and a global catalog, after more than half a range of versions.
CONSTANTS
  Half = 8
  Writable = {1}
  ReadOnly = {3}
  Times = {1}
  Bumps = {}
  MaxStamps = 3
  MaxFalls = 1
  InitVersions = {8}
SPECIFICATION Spec
CHECK_DEADLOCK FALSE
INVARIANT UnderriddenAlwaysLoses
