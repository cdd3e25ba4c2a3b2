\* Failures, silent connections and rejections, with fairness.
SPECIFICATION FairSpec
CONSTANTS
  c1 = c1
  c2 = c2
  i1 = i1
  s1 = s1
  NoConnection = NoConnection
  Maintenance = Maintenance
  Health = Health
  Connections = {c1, c2}
  Instruments = {i1}
  Sessions = {s1}
  MaxSubscriptions = 1
  MaxRetry = 2
  CallsMayFail = TRUE
  MaxRequests = 2
  MaxFaults = 2
  FaultKinds = {"disconnect", "heartbeat", "reject"}
PROPERTIES
  HandlersReturn
  HandlersAdvance
