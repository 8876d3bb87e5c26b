SPECIFICATION PairSpec
CONSTANTS
  Block = 2
  ChunkBlocks = 2
  GroupBlocks = 4
  K1 = K1
  K2 = K2
  NoKey = NoKey
  Keys = {K1, K2}
  Files <- MCFiles
INVARIANTS
  SameVerdict
CHECK_DEADLOCK FALSE
