\* A connection that loses its session and logs in again.
SPECIFICATION MCSpec
CONSTANTS
  c1 = c1
  i1 = i1
  Connections = {c1}
  Instruments = {i1}
  MaxSubscriptions = 1
  CallsMayFail = FALSE
  MaxRequests = 1
  MaxFaults = 1
  FaultKinds = {"disconnect"}
INVARIANT RecordedIsRequested
CHECK_DEADLOCK FALSE
