CONSTANTS
  Workers = {w1}
  Objects = {"deployment"}
  MaxTexts = 2
  Askers = {}
  Excluded = {}
  MaxFileRequests = 1
  MaxShutdowns = 1
  MaxCrashes = 0
  MaxFailures = 0
  MaxFaults = 0
  MaxErrors = 0
  MaxDisturbances = 0
SPECIFICATION LifecycleSpec
PROPERTY
  CustodyKept
CHECK_DEADLOCK FALSE
