\* Two callers, links that come and go, periodic syncs and their purge.
CONSTANTS
  NCs = {"schema", "domain", "ro"}
  Sources = {"a", "b"}
  DomainNC = "domain"
  SchemaNC = "schema"
  SystemNCs = {"schema"}
  MasterNCs = {"schema", "domain"}
  Reps0 <- ReadOnlyLinks
  WasPromotedGC = FALSE
  Clients = {"c1", "c2"}
  Requests <- QueueCalls
  MaxRequests = 2
  MismatchNCs = {"ro"}
  MaxAbandons = 0
  MaxRescans = 1
  MayShutdown = FALSE
SPECIFICATION Spec
INVARIANTS
  TypeOK
  CountExact
  WorkSignalled
  NoRequestLost
