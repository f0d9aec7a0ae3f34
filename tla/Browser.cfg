CONSTANTS
  Conversations = {a, b}
  None = None
  Texts = {hi}
  Keys = {list}
  Old = {a}
  MaxStored = 1
  MaxCalls = 2
  MaxSays = 1
  MaxVisits = 1
  MaxFaults = 1
SPECIFICATION FairSpec
INVARIANTS
  PromptsShownOnce
PROPERTIES
  NeverUnheard
  ViewIsServed
CHECK_DEADLOCK FALSE
