SPECIFICATION FairSpec
CONSTANTS
  Task = {t1}
  VTask = {}
  Member = {m1}
  Verifier = verifier
  NoAgent = NoAgent
  NoTask = NoTask
  MaxRetries = 1
  MaxRevisions = 1
  ReviseBound = 1
  Asked = {"in_progress", "in_review", "completed", "failed"}
  Admit = {"crash", "plan"}
  Named <- Names
  DepSets <- NoDeps
  Risks = {"low"}
  Worktree = FALSE
  MaxRuns = 1
PROPERTIES
  CrashNoticed
  Attended
  RunEnds
