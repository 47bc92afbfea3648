SPECIFICATION Spec
CONSTANTS
  MaxTasks = 1
  MaxFaults = 1
INVARIANT EveryAttemptRecorded
CHECK_DEADLOCK FALSE
