\* Nothing fails that carries something: requests, late answers, leaving sessions,
\* restarts and other troubles in every order.
SPECIFICATION UndisturbedSpec
CONSTANTS
  c1 = c1
  c2 = c2
  i1 = i1
  i2 = i2
  s1 = s1
  s2 = s2
  NoConnection = NoConnection
  Maintenance = Maintenance
  Health = Health
  Connections = {c1, c2}
  Instruments = {i1, i2}
  Sessions = {s1, s2}
  MaxSubscriptions = 1
  MaxRetry = 2
  CallsMayFail = FALSE
  MaxRequests = 2
  MaxFaults = 1
  FaultKinds = {"restart", "disconnect", "login", "errors", "heartbeat", "reject", "keep"}
SYMMETRY Symmetry
INVARIANTS
  RecordsMatchAssignments
  SubscribingIsRequested
  StreamsFollowAssignments
PROPERTY LeftForGood
