SPECIFICATION HSpec
CONSTANTS
  Proc = {p1}
  Name = {1, 2}
  Chunk = {1, 2}
  Contents <- MCContents
  Legacy <- MCFresh
  Keeps = {1}
  Commands = {"snapshot", "gc"}
  MaxSnapshots = 2
  MaxFaults = 1
PROPERTIES
  CompletedSnapshotRestores
