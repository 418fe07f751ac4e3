SPECIFICATION QueuesSpec
CONSTANTS
  t1 = t1 t2 = t2 t3 = t3 t4 = t4 v1 = v1 v2 = v2
  Thread <- Threads3
  Value = {v1, v2}
  Blank = Blank
  Usages <- SafeUsages
  Capacity = 2
  Word = 8
  NoThread = NoThread
  NoValue = NoValue
INVARIANTS RingConsistent ElementsAnnounced
PROPERTIES ImplementsDeque ReadsAnElement PoppersServed CallersServed
