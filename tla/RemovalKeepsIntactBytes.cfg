SPECIFICATION Spec
CONSTANTS
  c1 = c1
  c2 = c2
  Chunk = {c1, c2}
  R = 2
  MaxNodes = 4
  Hash <- MCHash
PROPERTIES
  RemovalKeepsIntactBytes
