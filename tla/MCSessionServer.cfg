\* Two sessions, a callback thread, a server that may be stopped, with fairness.
\* The server really may stop, and stop() may get stuck.
SPECIFICATION FairSpec
CONSTANTS
  s1 = s1
  s2 = s2
  t1 = t1
  NoSession = NoSession
  Sessions = {s1, s2}
  Threads = {t1}
  MaxMessages = 3
INVARIANTS
  TypeOK
  InOrder
  WriterIsWriting
  OpenSessionReads
  GoneForGood
PROPERTY Delivered
CHECK_DEADLOCK FALSE
