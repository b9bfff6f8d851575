SPECIFICATION Spec
CONSTANTS
  Task = {t1, t2}
  VTask = {}
  Member = {m1, m2}
  Verifier = verifier
  NoAgent = NoAgent
  NoTask = NoTask
  MaxRetries = 1
  MaxRevisions = 1
  ReviseBound = 0
  Asked = {"completed", "failed"}
  Admit = {"spawnfail", "fallback", "crash", "message"}
  Named <- Nobody
  DepSets <- OneDep
  Risks = {"low"}
  Worktree = TRUE
  MaxRuns = 1
SYMMETRY Alike
INVARIANTS
  CascadeSound
  ExecutesReady
