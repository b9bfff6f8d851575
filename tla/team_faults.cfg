SPECIFICATION Spec
CONSTANTS
  Task = {t1}
  VTask = {}
  Member = {m1, m2}
  Verifier = verifier
  NoAgent = NoAgent
  NoTask = NoTask
  MaxRetries = 2
  MaxRevisions = 1
  ReviseBound = 1
  Asked = {"in_progress", "in_review", "completed", "failed"}
  Admit = {"crash", "exception", "exit", "spawnfail", "timeout","processcrash","cancel","pause","noverifier"}
  Named <- Names
  DepSets <- NoDeps
  Risks = {"low"}
  Worktree = TRUE
  MaxRuns = 2
SYMMETRY Alike
INVARIANTS
  TypeOK
  NoOrphan
  RetriesBounded
  ExecutorOwns
PROPERTIES
  LeaseSpec
