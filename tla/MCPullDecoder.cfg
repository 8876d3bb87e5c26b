SPECIFICATION Spec
CONSTANTS
  Block = 2
  ChunkBlocks = 2
  GroupBlocks = 4
  K1 = K1
  K2 = K2
  NoKey = NoKey
  Keys = {K1, K2}
  Files <- MCFiles
INVARIANTS
  TypeOK
  SoundIsDecoded
PROPERTIES
  StreamSpec
CHECK_DEADLOCK FALSE
