SPECIFICATION FairSpec
CONSTANTS
  Conn = {c1, c2}
  End = End
  NoRun = NoRun
  BufferMax = 2
  QueueMax = 2
  MaxRuns = 2
  MaxEvents = 4
  Admit = {"drop", "setupfails"}
INVARIANTS
  NoLossNoDup
  SubscribedOrEnding
PROPERTIES
  OverStreamsEnd
  Forgotten
CHECK_DEADLOCK FALSE
