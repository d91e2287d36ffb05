SPECIFICATION Spec
CONSTANTS
  ChunkStreams <- LargeIds
  Kinds <- MediaKinds
  Times = {0, 1}
  MaxMessages = 2
  InitialChunkSize = 2
  RTMP_EXTEND_TIMESTAMP = 2
  SERIAL_BITS = 4
  BlockSizes = {1, 7}
  RTMP_MAX_PACKET_SIZE = 5
  UINT_MAX = 1000
INVARIANT
  MiddleHeaderIsTheSame
