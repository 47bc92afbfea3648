SPECIFICATION FairSpec
CONSTANTS
  s1 = s1
  s2 = s2
  NoTuple = NoTuple
  Tuples = {}
  Scans = {s1, s2}
  MaxItems = 2
  MaxFaults = 1
PROPERTY PastDueEventuallyMarked
CHECK_DEADLOCK FALSE
