SPECIFICATION Spec
CONSTANTS
  Req = {p1, p2, p3}
  None = None
  Admit = {"drop", "age", "full", "stranger", "ttl", "badproject"}
INVARIANTS
  Exclusive
  Released
  Fed
CHECK_DEADLOCK FALSE
