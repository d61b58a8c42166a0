SPECIFICATION Spec
CONSTANTS
  Null = Null
  Junk = {}
  Cells = {c1, c2, c3}
  MaxJobs = 4
  Waits = {2, 4}
PROPERTY TakesTheFirst
CHECK_DEADLOCK FALSE
