SPECIFICATION Spec
CONSTANTS
  a = a
  b = b
  Detections = {2, 3}
  Critical = {2}
  KeyOf <- MCKeyOf
  RankOf <- MCRankOf
  Transports = {TRUE}
  FlushAt = 4
  MaxDeliveries = 2
  MaxFaults = 0
INVARIANT CriticalOpensIncident
CHECK_DEADLOCK FALSE
