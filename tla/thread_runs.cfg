SPECIFICATION FairSpec
CONSTANTS
  Inst = {i1, i2}
  Chat = {i1}
  None = None
  Period = 2
  Grace = 1
  Concurrency = 1
  MaxClock = 3
  MaxRuns = 2
  MaxAsked = 2
  Admit = {"delete", "crash", "beside"}
INVARIANTS
  ClaimedOnce
  NothingStuck
PROPERTIES
  Freed
CHECK_DEADLOCK FALSE
