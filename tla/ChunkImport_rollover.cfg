SPECIFICATION Spec
CONSTANTS
  ChunkStreams <- OneId
  Kinds <- MediaKinds
  Times = {14, 17}
  MaxMessages = 3
  InitialChunkSize = 5
  RTMP_EXTEND_TIMESTAMP = 30
  SERIAL_BITS = 3
  BlockSizes = {9}
  RTMP_MAX_PACKET_SIZE = 5
  UINT_MAX = 1000
INVARIANT
  AdjacentTimestampsStayNear
