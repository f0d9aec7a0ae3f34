CONSTANTS
  NumAgents = 3
  MaxCommits = 1
  MaxFailures = 2
SPECIFICATION FairDelegationSpec
INVARIANTS
  ResponseSettled
  CompletedIsWhole
  CompletedIsTidy
PROPERTY
  DelegationReturns
CHECK_DEADLOCK FALSE
