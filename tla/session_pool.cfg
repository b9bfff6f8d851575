SPECIFICATION Spec
CONSTANTS
    Calls = {c1, c2}
    Keys = {k1, k2}
    OAuthKeys = {k2}
    SubLoops = {sub}
    MaxSessions = 1
    MaxOpen = 2
    MaxPools = 1
    MaxEdits = 1
SYMMETRY CallSymmetry
INVARIANTS
  NoneLost
  OneSession
CHECK_DEADLOCK FALSE
