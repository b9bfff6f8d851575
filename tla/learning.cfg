SPECIFICATION Spec
CONSTANTS
  Threads = {t1, t2}
  MaxFacts = 2
  MaxTurns = 4
  MaxEdits = 1
  MaxClears = 1
  Names = {n1}
  Reviews = {r1}
  Curator = curator
  MaxContents = 3
  SkillNames = {s1, s2}
  Extractions = {x1, x2}
  PromoteUses = 2
  FailLimit = 2
  Tasks = {1, 2, 3, 4, 5}
  ProjectOf <- TaskProject
  LessonOf <- TaskLesson
  Writers = {w1, w2}
  MaxL3 = 2
  MaxL1 = 2
  PromoteReuse = 1
  PromoteProjects = 2
CHECK_DEADLOCK FALSE
INVARIANTS
  Serial
  AgentMadeOnly
  PromotedByLead
  LearnedOnce
PROPERTIES
  Settled
  ArchivedIsFinal
