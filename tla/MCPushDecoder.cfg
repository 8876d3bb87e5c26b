SPECIFICATION FairSpec
CONSTANTS
  Block = 2
  ChunkBlocks = 2
  GroupBlocks = 4
  K1 = K1
  K2 = K2
  NoKey = NoKey
  Keys = {K1, K2}
  Files <- MCFiles
INVARIANTS
  TypeOK
  RequestNamesCurrentGroup
  BufferHoldsOpenGroup
  NoHalfAppliedGroup
PROPERTIES
  StreamSpec
  EventuallyDrained
CHECK_DEADLOCK FALSE
