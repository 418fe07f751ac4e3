SPECIFICATION Spec
CONSTANTS
  t1 = t1 t2 = t2 t3 = t3 v1 = v1 v2 = v2
  Thread <- Threads3
  Value = {v1, v2}
  NoThread = NoThread
  NoValue = NoValue
  Calls <- AnyCall
  BoundedCaps = {0, 1}
  StdQueues <- SomeQueues
  NewCaps = {1, 2}
  MaxLen = 2
INVARIANTS CountAgrees ElementsAnnounced WithinCapacity SlotsAnnounced
PROPERTIES ImplementsFifo
SYMMETRY ValueSymmetry
