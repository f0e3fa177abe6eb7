SPECIFICATION HSpec
CONSTANTS
  Proc = {p1}
  Name = {1, 2, 3}
  Chunk = {1, 2}
  Contents <- MCContents
  Legacy <- MCLegacy
  Keeps = {1, 2}
  Commands = {"snapshot", "drop", "gc", "retain"}
  MaxSnapshots = 4
  MaxFaults = 2
INVARIANTS
  TypeOK
  ListedIsRestorable
PROPERTIES
  GcNeverTouchesReferenced
  RestorableUntilReplaced
  RetainDropsOldestFirst
  SweepOnlyAfterFullScan
