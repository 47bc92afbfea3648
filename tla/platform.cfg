SPECIFICATION PlatformSpec
CONSTANTS
  a = a
  b = b
  x1 = x1
  x2 = x2
  k1 = k1
  k2 = k2
  Null = Null
  Detections = {2, 3}
  Critical = {2}
  KeyOf <- MCKeyOf
  RankOf <- MCRankOf
  Transports = {FALSE, TRUE}
  FlushAt = 4
  MaxDeliveries = 2
  MaxFaults = 2
INVARIANTS
  PlatformTypeOK ChainsSound BuffersSound  ScansAccounted ViewsSound
  SbomJobsSound FindingsSound   FeedsSound 
  CostsSound RecordsSound
PROPERTIES OpenedBeforeReturn 
CHECK_DEADLOCK FALSE
