SPECIFICATION PayloadSpec
CONSTANTS
  LfgK = 3
  LfgJ = 1
  SeedWords = 2
  Word = 2
  Block = 20
  Chunks <- MCChunks
  Offsets <- MCOffsets
  Skews <- MCSkews
  PackedSkews = {0, 1}
  Pads <- MCPads
  RawOffsets = {0}
  BlockData = 12
  HeaderSize = 7
  HashSize = 2
  Areas <- MCAreas
  OffsetRange = 14
  EntrySize = 22
  NoDifference <- MCNoDifference
  Differences <- MCDifferences
  Sampled <- MCSampled
  CompressedSizes = {3}
INVARIANTS
  TypeOK
  UnpackRestores
  AcceptsItsSize
  HeadersRestored
  DataIsFound
PROPERTIES
  PaddingIsFound
  Packs
CHECK_DEADLOCK FALSE
