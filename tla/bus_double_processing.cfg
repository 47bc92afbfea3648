SPECIFICATION Spec
CONSTANTS
  c1 = c1
  c2 = c2
  Consumers = {c1, c2}
  Closers = {}
  MaxEvents = 1
  MaxLen = 1
  BatchSize = 1
  MaxDeliveries = 2
  MaxFaults = 0
INVARIANT NoDoubleProcessing
