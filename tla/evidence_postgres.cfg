SPECIFICATION FairSpec
CONSTANTS
  e1 = e1
  s1 = s1
  f1 = f1
  v1 = v1
  c1 = c1
  Events = {e1}
  ScanEvents = {}
  ScanData <- DeclaredData
  Batch <- MCBatch
  ControlsOf <- MCControlsOf
  Databases = {TRUE}
  MaxDeliveries = 2
  MaxFaults = 0
PROPERTY EvidenceAttached
CHECK_DEADLOCK FALSE
