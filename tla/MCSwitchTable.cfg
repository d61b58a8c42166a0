SPECIFICATION Spec
CONSTANTS
  MaxTableSize = 4
  Src = {0, 1, 3}
  Dst <- WithMinusOne
  Ports = {0, 1, 2}
  Stray = {7}
  None = None
INVARIANTS InTableMeansHeard
PROPERTIES FirstHeardSpec
