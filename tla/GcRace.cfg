SPECIFICATION Spec
CONSTANTS
  Proc = {p1, p2}
  Name = {1, 2}
  Chunk = {1, 2}
  Contents <- MCContents
  Legacy <- MCFresh
  Keeps = {1}
  Commands = {"snapshot", "drop", "gc"}
  MaxSnapshots = 2
  MaxFaults = 0
PROPERTIES
  GcNeverTouchesReferenced
