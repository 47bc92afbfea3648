SPECIFICATION Spec
CONSTANTS
  c1 = c1
  c2 = c2
  Consumers = {c1, c2}
  Closers = {}
  MaxEvents = 2
  MaxLen = 1
  BatchSize = 1
  MaxDeliveries = 2
  MaxFaults = 2
SYMMETRY Replicas
INVARIANTS TypeOK AtLeastOnce DeadLetterJustified RetryBudget
PROPERTIES LeavesPendingForAReason ImplementsDelivery
