\* Two sessions, two instruments, a front that is connected three times.
SPECIFICATION MCSpec
CONSTANTS
  i1 = i1
  i2 = i2
  s1 = s1
  s2 = s2
  Instruments = {i1, i2}
  Sessions = {s1, s2}
  MaxRequests = 4
  MaxConnects = 3
SYMMETRY Symmetry
INVARIANTS
  TypeOK
  LoginGoesFirst
  StreamsFollowWishes
PROPERTY ServiceSpec
