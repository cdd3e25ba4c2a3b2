\* One client, one instrument with two names, quotes with two fields that come on two threads.
SPECIFICATION Spec
CONSTANTS
  i1 = i1
  s1 = s1
  t1 = t1
  t2 = t2
  Plain = Plain
  Prefixed = Prefixed
  Sessions = {s1}
  Instruments = {i1}
  Names = {Plain, Prefixed}
  Fields = {"price", "volume"}
  Values = {"number", "null"}
  Threads = {t1, t2}
  Patient = FALSE
SYMMETRY Symmetry
INVARIANTS
  TypeOK
  PictureIsLastSent
PROPERTY MirrorSpec
