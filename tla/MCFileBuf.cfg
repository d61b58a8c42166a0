SPECIFICATION Spec
CONSTANTS
  Byte = {0, 1}
  MaxFileBuffer = 3
  PayloadMax = 2
INVARIANTS TypeOK TailIsLast
PROPERTIES FifoSpec
