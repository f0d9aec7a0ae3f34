CONSTANTS
  Objects = {"deployment"}
  Ensures = {m1, m2}
  Teardowns = {d1, w1}
  First = m1
  Deleters = {d1}
  MaxCalls = 4
  MaxErrors = 1
SPECIFICATION FairConversationSpec
INVARIANTS
  HistoryIsComplete
  InfrastructureIsWatched
  EnsureEstablishes
  RacesAreNotErrors
PROPERTIES
  DeletedIsTornDown
  EnsureBringsPodUp
CHECK_DEADLOCK FALSE
