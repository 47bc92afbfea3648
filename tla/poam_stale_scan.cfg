SPECIFICATION Spec
CONSTANTS
  t1 = t1
  s1 = s1
  NoTuple = NoTuple
  Tuples = {t1}
  Scans = {s1}
  MaxItems = 2
  MaxFaults = 0
SYMMETRY Interchangeable
PROPERTY OverdueOnlyFromOpen
CHECK_DEADLOCK FALSE
