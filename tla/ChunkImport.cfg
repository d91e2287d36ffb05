SPECIFICATION Spec
CONSTANTS
  ChunkStreams <- SmallIds
  Kinds <- AllKinds
  Times = {0, 1, 2}
  MaxMessages = 3
  InitialChunkSize = 2
  RTMP_EXTEND_TIMESTAMP = 2
  SERIAL_BITS = 4
  BlockSizes = {1, 7}
  RTMP_MAX_PACKET_SIZE = 3
  UINT_MAX = 1000
INVARIANTS
  HandlersGetTheStream
  KeepsItsPlace
  NothingCompleteWaits
  OnlyRefusableIsRefused
