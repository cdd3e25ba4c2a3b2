\* Two connections, every kind of fault, two instruments for one place.
SPECIFICATION MCSpec
CONSTANTS
  c1 = c1
  c2 = c2
  i1 = i1
  i2 = i2
  Connections = {c1, c2}
  Instruments = {i1, i2}
  MaxSubscriptions = 1
  CallsMayFail = TRUE
  MaxRequests = 3
  MaxFaults = 3
  FaultKinds = {"restart", "disconnect", "login", "errors", "reject", "keep"}
SYMMETRY Symmetry
INVARIANTS
  TypeOK
  CapacityRespected
  RequestsAlternate
  RecordFollowsRequests
PROPERTY StreamsStayStoppable
