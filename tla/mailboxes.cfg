SPECIFICATION FairSpec
CONSTANTS
  Member = {m1}
  Lead = lead
  MaxSent = 3
INVARIANTS
  TrackersAgree
PROPERTIES
  Delivered
CHECK_DEADLOCK FALSE
