CONSTANTS
  Calls = {c1, c2}
  Tools = {t1}
  Limits = {1, 2}
  MaxVersion = 2
  MaxRotations = 1
  rate_limit = 1
  threshold = 2
SPECIFICATION FairSpec
INVARIANTS
  ConcurrencyRespected
  CallIsAllowed
PROPERTIES
  EveryCallEnds
CHECK_DEADLOCK FALSE
