SPECIFICATION CliSpec
CONSTANTS
  Block = 2
  ChunkBlocks = 2
  GroupBlocks = 4
  K1 = K1
  NoKey = NoKey
  Keys = {K1}
  DiscHeader = 1
  TableInfo = 2
  TableEnd = 3
  PartHeader = 1
  HeaderArea = 4
  OffsetRange = 64
  StoredSizes = {3}
  RawEntrySize = 24
  GroupEntrySize = 12
  TableSizes = {20}
  Isos <- MCIsos
  Modes = {"file", "follow", "sized"}
  Patience = 1
  StartPatience = 2
INVARIANTS
  CliTypeOK
  ImageRestored
  DigestIsOfImage
PROPERTIES
  PatientReader
  CommandEnds
CHECK_DEADLOCK FALSE
