SPECIFICATION CircFairSpec
CONSTANTS
  t1 = t1 t2 = t2 v1 = v1 v2 = v2
  Thread <- Threads2
  NoThread = NoThread
  Value = {v1, v2}
  Blank = Blank
  Usages <- QueueUsages
  QueueCalls <- OneToOne
  Capacity = 2
  Word = 8
  Policies = {"BLOCK", "ERROR", "OVERWRITE_OLDEST"}
INVARIANT TriesNeverSleep
PROPERTY ImplementsFifo
