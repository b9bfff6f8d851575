SPECIFICATION Spec
CONSTANTS
  Task = {t1, t2}
  VTask = {v1, v2}
  Member = {m1}
  Verifier = verifier
  NoAgent = NoAgent
  NoTask = NoTask
  MaxRetries = 1
  MaxRevisions = 1
  ReviseBound = 0
  Asked = {"in_review", "completed", "approved"}
  Admit = {"leadcrash", "crash"}
  Named <- Nobody
  DepSets <- OneDep
  Risks = {"low"}
  Worktree = FALSE
  MaxRuns = 1
SYMMETRY Alike
INVARIANTS
  VerifierIndependent
PROPERTIES
  TerminalIsFinal
  AcceptedFirst
