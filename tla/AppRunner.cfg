CONSTANTS
  Callers = {c1, c2}
  MaxSpawns = 3
  MaxSetups = 1
  MaxFaults = 1
SPECIFICATION FairSpec
INVARIANTS
  OneServerOnPort
  OnePackageCommand
PROPERTIES
  RestartAnswered
  PackageLockReleased
CHECK_DEADLOCK FALSE
