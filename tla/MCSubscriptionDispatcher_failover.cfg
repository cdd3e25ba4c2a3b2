\* One lost session.
SPECIFICATION MCSpec
CONSTANTS
  c1 = c1
  c2 = c2
  i1 = i1
  s1 = s1
  NoConnection = NoConnection
  Maintenance = Maintenance
  Health = Health
  Connections = {c1, c2}
  Instruments = {i1}
  Sessions = {s1}
  MaxSubscriptions = 1
  MaxRetry = 2
  CallsMayFail = FALSE
  MaxRequests = 2
  MaxFaults = 1
  FaultKinds = {"disconnect"}
INVARIANT FailoverLeavesNothing
