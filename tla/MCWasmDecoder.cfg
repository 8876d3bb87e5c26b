SPECIFICATION WasmSpec
CONSTANTS
  Block = 2
  ChunkBlocks = 2
  GroupBlocks = 4
  K1 = K1
  K2 = K2
  NoKey = NoKey
  Keys = {K1, K2}
  Files <- MCFiles
  Capacities = {2, 8}
INVARIANTS
  RefusedOutputComesNext
CHECK_DEADLOCK FALSE
