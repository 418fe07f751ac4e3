SPECIFICATION FairSpec
CONSTANTS
  a = a nl = nl Zero = zero Garbage = garbage
  Byte = {a, nl}
  NewLine = nl
  Word = 16
  MaxSize = 4
  MaxFaults = 1
  Modes <- OpenModes
  Disks <- SmallDisks
  Seeks <- SomeSeeks
  Writes <- SmallWrites
  Capacities = {1, 2}
  Factors = {1, 2}
  MaxCalls = 6
CHECK_DEADLOCK FALSE
INVARIANTS ReadsTheFile StaysInMap
PROPERTIES CallsReturn ImplementsFile
