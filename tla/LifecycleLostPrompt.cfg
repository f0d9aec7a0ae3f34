CONSTANTS
  Workers = {w1}
  Objects = {"deployment"}
  MaxTexts = 2
  Askers = {}
  Excluded = {}
  MaxFileRequests = 0
  MaxShutdowns = 1
  MaxCrashes = 0
  MaxFailures = 0
  MaxFaults = 0
  MaxErrors = 0
  MaxDisturbances = 0
SPECIFICATION LifecycleSpec
INVARIANT
  PromptsNotLost
CHECK_DEADLOCK FALSE
