SPECIFICATION CircFairSpec
CONSTANTS
  t1 = t1 t2 = t2 v1 = v1 v2 = v2
  Thread <- Threads2
  NoThread = NoThread
  Value = {v1}
  Blank = Blank
  Usages <- QueueUsages
  QueueCalls <- OneToOneBlocking
  Capacity = 1
  Word = 8
  Policies = {"BLOCK"}
PROPERTIES QueuePushersServed
