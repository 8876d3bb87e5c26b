SPECIFICATION Spec
CONSTANTS
  Block = 2
  ChunkBlocks = 2
  GroupBlocks = 4
  K1 = K1
  K2 = K2
  NoKey = NoKey
  Keys = {K1, K2}
  DiscHeader = 1
  TableInfo = 2
  TableEnd = 3
  PartHeader = 1
  HeaderArea = 4
  OffsetRange = 8
  StoredSizes = {3, 4}
  RawEntrySize = 24
  GroupEntrySize = 12
  TableSizes = {20}
  Isos <- MCFar
INVARIANTS
  RestoresDisc
CHECK_DEADLOCK FALSE
