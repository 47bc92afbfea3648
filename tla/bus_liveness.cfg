SPECIFICATION FairSpec
CONSTANTS
  c1 = c1
  c2 = c2
  Consumers = {c1, c2}
  Closers = {c2}
  MaxEvents = 1
  MaxLen = 1
  BatchSize = 1
  MaxDeliveries = 1
  MaxFaults = 2
PROPERTIES EventuallySettled CloseCompletes
