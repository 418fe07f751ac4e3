SPECIFICATION Spec
CONSTANTS
  t1 = t1 t2 = t2 s1 = s1 s2 = s2
  Thread = {t1, t2}
  Subscriber = {s1, s2}
  Type = {y1}
  Owner <- OneOwner
  BrokerOwner = Nobody
  Nobody = Nobody
  Null = Null
  OnceEach = TRUE
  QuietRelease = FALSE
  StopFirst = TRUE
  MaxEvents = 2
  MaxTokens = 2
  MaxCancels = 1
CHECK_DEADLOCK FALSE
INVARIANTS SameOrder DrainedOnStop
