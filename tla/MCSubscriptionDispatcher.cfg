\* Every kind of fault. The process dies where a call reaches a null API object: that is the deadlock allowed here.
SPECIFICATION MCSpec
CONSTANTS
  c1 = c1
  c2 = c2
  i1 = i1
  s1 = s1
  s2 = s2
  NoConnection = NoConnection
  Maintenance = Maintenance
  Health = Health
  Connections = {c1, c2}
  Instruments = {i1}
  Sessions = {s1, s2}
  MaxSubscriptions = 1
  MaxRetry = 2
  CallsMayFail = FALSE
  MaxRequests = 2
  MaxFaults = 2
  FaultKinds = {"restart", "disconnect", "login", "errors", "heartbeat", "reject", "keep"}
SYMMETRY Symmetry
INVARIANTS
  TypeOK
  TablesAgree
  MigrationListIsFresh
PROPERTIES
  OnlyTheLastUnsubscribes
  LiveClaimsEndByLeaving
  ServiceSpec
CHECK_DEADLOCK FALSE
