SPECIFICATION Spec
CONSTANTS
  Request = {r1, r2}
  Component <- ApiOnly
  DrainTime = 3
  WriteTime = 2
  GraceTime = 2
INVARIANTS
  DrainIsAnswered
CHECK_DEADLOCK FALSE
