SPECIFICATION Spec
CONSTANTS
  Chunk = {1, 2, 3}
  Worker = {w1, w2}
  Files <- MCFiles
  MaxChanges = 1
INVARIANTS
  TypeOK
  EveryChunkOnce
  VerifiedBeforeWriting
  FailsCleanly
  NoSendAfterClose
PROPERTIES
  StopsAndLeaksNothing
  HealthyClusterRestores
  ImplementsContract
