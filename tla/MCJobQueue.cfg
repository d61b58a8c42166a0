SPECIFICATION Spec
CONSTANTS
  Null = Null
  Junk = {Null, c1, c2, c3}
  Cells = {c1, c2, c3}
  MaxJobs = 4
  Waits = {2, 4}
INVARIANTS ListEnds
PROPERTIES JobsComeInOrder
CHECK_DEADLOCK FALSE
