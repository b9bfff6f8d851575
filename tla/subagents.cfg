SPECIFICATION SubagentSpec
CONSTANTS
  Call = {c1, c2, c3}
  Alone = c3
  ThreadOf <- TwoThreads
  Isolated = {c1, c2}
  Nobody = Nobody
  MaxConcurrent = 1
  MaxCalls = 2
  MaxQueued = 2
INVARIANTS
  Slotted
  LostToSibling
PROPERTIES
  Ends
CHECK_DEADLOCK FALSE
