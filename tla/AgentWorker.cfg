CONSTANTS
  MaxTexts = 2
  Askers = {1}
  Excluded = {2}
  MaxFileRequests = 1
  MaxShutdowns = 2
  MaxCrashes = 1
  MaxFailures = 1
SPECIFICATION FairSpec
INVARIANTS
  ReadyMeansSaved
  PromptsKeepTheirTurn
PROPERTIES
  AnswerResumesHarness
  FileRequestServed
CHECK_DEADLOCK FALSE
