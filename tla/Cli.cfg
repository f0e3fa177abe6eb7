SPECIFICATION TSpec
CONSTANTS
  c1 = c1
  c2 = c2
  s1 = s1
  s2 = s2
  Chunk = {c1, c2}
  Snapshot = {s1, s2}
  R = 2
  MaxNodes = 4
  Hash <- MCHash
  Refs <- MCRefs
INVARIANTS
  TypeOK
  MarginPersists
PROPERTIES
  ReloadKeepsReplicas
