SPECIFICATION PayloadSpec
CONSTANTS
  LfgK = 3
  LfgJ = 1
  SeedWords = 2
  Word = 2
  Block = 20
  Chunks <- MCChunks
  Offsets <- MCOffsets
  Skews = {0}
  PackedSkews = {0}
  Pads <- MCPads
  RawOffsets = {0}
  BlockData = 12
  HeaderSize = 7
  HashSize = 2
  Areas <- MCAreas
  OffsetRange = 14
  EntrySize = 22
  NoDifference <- MCNoDifference
  Differences <- MCDifferences
  Sampled <- MCSampled
  CompressedSizes = {3}
INVARIANT RoundTrip
CHECK_DEADLOCK FALSE
