SPECIFICATION Spec
CONSTANTS
  NODES = 4
  REPLICAS = 2
  ChunkSize = 2
  Digest <- MCDigest
  Hash <- MCHash
  Fnv <- MCFnv
  Unique <- MCUnique
  Store <- MCStore
  Message = {}
  Length = {}
INVARIANTS
  TypeOK
  VerdictIsTrue
  LogMatchesCluster
  VerdictComesLast
PROPERTIES
  StaleVerdictGoes
  ImplementsDialog
