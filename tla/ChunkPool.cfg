SPECIFICATION Spec
CONSTANTS
  Player = {1, 2}
  None = None
  Kind = {"metadata", "video_sh", "key", "sound"}
  g_pool_size = 4
  MAX_ADD_POOL_SIZE_COUNT = 2
  HeaderNum = 1
  MaxChunks = 2
  MaxGop = 1
  MaxWrites = 4
  MayTake <- Lowest
VIEW Shape
INVARIANTS TypeOK RefsExact FreeIsIdle ReceivedAlone
