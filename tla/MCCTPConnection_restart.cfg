\* A restart of a connection that is coming back by itself.
SPECIFICATION MCSpec
CONSTANTS
  c1 = c1
  i1 = i1
  Connections = {c1}
  Instruments = {i1}
  MaxSubscriptions = 1
  CallsMayFail = FALSE
  MaxRequests = 1
  MaxFaults = 2
  FaultKinds = {"restart", "disconnect"}
INVARIANT LoggedInHasApi
CHECK_DEADLOCK FALSE
