SPECIFICATION HSpec
CONSTANTS
  Proc = {p1, p2}
  Name = {1, 2}
  Chunk = {1, 2}
  Contents <- MCContents
  Legacy <- MCLegacy
  Keeps = {1}
  Commands = {"snapshot", "drop"}
  MaxSnapshots = 3
  MaxFaults = 1
INVARIANTS
  SettledSnapshotsRestore
PROPERTIES
  NumbersFollowTime
\* With the snapshots spent and no snapshot left to drop, no process has a
\* command to run.
CHECK_DEADLOCK FALSE
