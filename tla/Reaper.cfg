CONSTANTS
  Workers = {w1, w2}
  MaxQueue = 2
  MaxReady = 1
  MaxFaults = 2
SPECIFICATION FairSpec
INVARIANTS
  OneLeader
  RepeatsBounded
PROPERTY
  IdleIsInitiated
