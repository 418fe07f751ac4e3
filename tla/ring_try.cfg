SPECIFICATION Spec
CONSTANTS
  t1 = t1 t2 = t2 t3 = t3 v1 = v1 v2 = v2
  Thread <- Threads3
  Value = {v1}
  Blank = Blank
  Usages <- UnsafeUsages
  Capacity = 2
  Word = 8
INVARIANTS RingConsistent
