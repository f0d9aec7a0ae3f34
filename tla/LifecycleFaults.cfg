CONSTANTS
  Workers = {w1}
  Objects = {"deployment"}
  MaxTexts = 1
  Askers = {1}
  Excluded = {}
  MaxFileRequests = 0
  MaxShutdowns = 1
  MaxCrashes = 1
  MaxFailures = 1
  MaxFaults = 1
  MaxErrors = 1
  MaxDisturbances = 1
SPECIFICATION FairLifecycleSpec
PROPERTIES
  ContractsKept
  ParkedIsTornDown
  
CHECK_DEADLOCK FALSE
