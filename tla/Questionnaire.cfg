CONSTANTS
  QuestionCount = 2
  Options = {yes, no}
  Plans = {0, 1}
  None = None
  MaxTools = 2
  MaxPrompts = 2
  MaxPosts = 2
  MaxFetches = 1
  MaxFaults = 1
SYMMETRY Symmetry
SPECIFICATION Spec
INVARIANTS
  AnswersAreWhole
  SentIsReceived
  PlanShownIsLatest
CHECK_DEADLOCK FALSE
