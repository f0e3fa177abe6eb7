SPECIFICATION Spec
CONSTANTS
  NODES = 3
  REPLICAS = 2
  ChunkSize = 2
  Digest <- MCDigest
  Hash <- MCHash
  Fnv <- MCFnv
  Tree <- MCTree
  Message <- MCMessage
  Length <- MCLength
  Name = {"v1", "v2"}
INVARIANTS
  RestoreReturnsTheTree
  RestoreFollowsFailures
  PlanForetellsRestore
  SelfCheckPasses
PROPERTIES
  OnlyNewContentIsWritten
