CONSTANTS
  MaxTasks = 2
  MaxIterations = 2
  KeepLast = 3
  MaxHours = 2
  MaxFaults = 1
SPECIFICATION FairSpec
INVARIANTS
  NewestVerbatim
  CallsAnswered
  DoneSeparatesAnswers
  LatestBackupIsNewest
PROPERTY
  TaskTerminates
CHECK_DEADLOCK FALSE
