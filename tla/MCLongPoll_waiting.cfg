\* Two patient clients of one instrument, two threads, with fairness.
SPECIFICATION FairSpec
CONSTANTS
  i1 = i1
  s1 = s1
  s2 = s2
  t1 = t1
  t2 = t2
  Plain = Plain
  Sessions = {s1, s2}
  Instruments = {i1}
  Names = {Plain}
  Fields = {"price"}
  Values = {"number", "null"}
  Threads = {t1, t2}
  Patient = TRUE
INVARIANTS
  NoLostWakeup
  PeekIsRemembered
PROPERTY NewsIsDelivered
