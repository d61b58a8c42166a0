SPECIFICATION Spec
CONSTANTS
  MaxTableSize = 4
  Src = {0, 1, 4}
  Dst = {0, 1, 4}
  Ports = {0, 1, 2}
  Stray = {7}
  None = None
INVARIANT InTableMeansHeard
