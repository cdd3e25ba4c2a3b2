\* Rejected logins and the health check, with fairness.
SPECIFICATION FairSpec
CONSTANTS
  c1 = c1
  c2 = c2
  i1 = i1
  Connections = {c1, c2}
  Instruments = {i1}
  MaxSubscriptions = 1
  CallsMayFail = FALSE
  MaxRequests = 1
  MaxFaults = 3
  FaultKinds = {"restart", "login"}
PROPERTY Recovers
