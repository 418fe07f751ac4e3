SPECIFICATION Spec
CONSTANTS
  Tid = {"t", "u"}
  MaxCollectors <- TwoAndOne
  MaxReading = 1
  MaxCollects = 1
INVARIANTS ParentIsTheCaller
CHECK_DEADLOCK FALSE
