SPECIFICATION FairSpec
CONSTANTS
  MaxTasks = 2
  MaxFaults = 2
INVARIANTS TypeOK ReportedMeansDone AuditGaps  OutcomeAnnounced
PROPERTY EventuallyDecided
CHECK_DEADLOCK FALSE
