SPECIFICATION FTSpec
CONSTANTS
  Chunk = {1}
  R = 3
  MaxNodes = 6
  Hash <- MCHash
INVARIANTS
  TypeOK
  GetFindsAnyLiveReplica
  RepairIsIdempotent
  RepairHeals
  MarginIsCovered
PROPERTIES
  RepairHarmsNothing
  GrowthKeepsAvailable
  RemovalKeepsEveryChunk
  RebalanceMatchesPlacement
