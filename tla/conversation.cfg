SPECIFICATION Spec
CONSTANTS
  Runs <- SomeRuns
  Trigger = 6
  Keep = 1
  RescueCount = 1
  Window = 4
  Warn = 2
  Hard = 2
  FreqWarn = 2
  FreqHard = 2
  MaxTasks = 2
  MaxReminders = 1
  MaxRetries = 1
  MaxFailures = 1
  MaxDay = 2
  MaxCompact = 1
INVARIANTS
  Paired
  PlanAndDate
  AskedIsReported
  LoopBounded
CHECK_DEADLOCK FALSE
