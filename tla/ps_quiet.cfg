SPECIFICATION FairSpec
CONSTANTS
  t1 = t1 t2 = t2 s1 = s1 s2 = s2
  Thread = {t1, t2}
  Subscriber = {s1, s2}
  Type = {y1, y2}
  Owner <- TwoOwners
  BrokerOwner = Nobody
  Nobody = Nobody
  Null = Null
  OnceEach = TRUE
  QuietRelease = TRUE
  StopFirst = TRUE
  MaxEvents = 1
  MaxTokens = 2
  MaxCancels = 1
CHECK_DEADLOCK FALSE
PROPERTIES OnlySubscribed UnsubscribeCleans CallsReturn
