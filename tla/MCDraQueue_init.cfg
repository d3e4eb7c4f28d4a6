\* The initial synchronisations end and the queue drains, whatever fails.
CONSTANTS
  NCs = {"schema", "domain", "ro"}
  Sources = {"a", "b"}
  DomainNC = "domain"
  SchemaNC = "schema"
  SystemNCs = {"schema"}
  MasterNCs = {"schema", "domain"}
  Reps0 <- InitLinks
  WasPromotedGC = FALSE
  Clients = {"c1"}
  Requests <- InitCalls
  MaxRequests = 1
  MismatchNCs = {}
  MaxAbandons = 1
  MaxRescans = 0
  MayShutdown = TRUE
SPECIFICATION FairSpec
CHECK_DEADLOCK FALSE
INVARIANTS
  CountsMatch
  DoneMeansTried
PROPERTIES
  InitSyncsFinish
  EventuallySynchronized
  CallersAnswered
  Quiesces
