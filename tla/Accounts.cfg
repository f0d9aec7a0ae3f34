CONSTANTS
  Tabs = {t1, t2}
  MaxSessions = 3
  MaxSubmissions = 2
  Names = {ann, bob}
  None = None
  MaxFaults = 1
SPECIFICATION FairSpec
INVARIANTS
  OneUserPerTab
  IdentityNamesAccount
  ClaimedNameIsHeld
PROPERTIES
  SessionIsObtained
CHECK_DEADLOCK FALSE
