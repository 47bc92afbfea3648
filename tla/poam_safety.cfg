SPECIFICATION Spec
CONSTANTS
  t1 = t1
  s1 = s1
  s2 = s2
  NoTuple = NoTuple
  Tuples = {t1}
  Scans = {s1, s2}
  MaxItems = 2
  MaxFaults = 1
SYMMETRY Interchangeable
INVARIANTS TypeOK OneSilencedPerFailure OneOpenPerTuple
PROPERTY ReopenedOnlyByStaleScan
CHECK_DEADLOCK FALSE
