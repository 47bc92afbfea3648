SPECIFICATION FairSpec
CONSTANTS
  e1 = e1
  s1 = s1
  f1 = f1
  v1 = v1
  c1 = c1
  Events = {e1, s1}
  ScanEvents = {s1}
  ScanData <- DeclaredData
  Batch <- MCBatch
  ControlsOf <- MCControlsOf
  Databases = {FALSE, TRUE}
  MaxDeliveries = 3
  MaxFaults = 2
INVARIANTS TypeOK OneRowPerFinding OneUnannouncedPerFault
PROPERTIES AckedMeansDone EventuallySettled
CHECK_DEADLOCK FALSE
