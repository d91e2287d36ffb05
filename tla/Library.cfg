SPECIFICATION Spec
CONSTANTS
  DemuxFiles <- MCDemuxFiles
  MaxMoves = 2
  AvFiles <- MCAvFiles
  MaxFileCalls = 7
  TsTracks <- MCTsTracks
  TsSamples <- MCTsSamples
  MaxTsCalls = 7
  AvTracks <- MCAvTracks
  MaxAvCalls = 7
  Objects = {a, b}
  Vectors = {u, v, w}
  NoVector = NoVector
  NoCall = NoCall
  Original <- MCOriginal
  Given <- MCGiven
  MaxLength = 3
  MaxDataCalls = 4
  Handles = {g, h, k}
  Blocks = {b1, b2, b3, b4}
  NoBlock = NoBlock
  Loads <- MCLoads
  MaxBlockSize = 3
  MaxHandleCalls = 4
  Host = "little"
  StreamValues <- MCStreamValues
  MaxStreamValues = 2
  MaxStreamCalls = 5
  Numbers <- MCNumbers
  Contents <- MCContents
  RoomSize = 2
  PositionLimit = 64
  MaxBitCalls = 5
  ByteStreams = {r, s}
  HostOrder = "little"
  TypedNumbers <- MCTypedNumbers
  MaxSharedLength = 5
  MaxByteCalls = 4
CHECK_DEADLOCK FALSE
INVARIANTS
  MergedInOrder
  KeySampleCarriesParameterSets
  FileSamplesInOrder
  DemultiplexesToTheSamples
  ConvertedOnce
  PacketsOnTheirStreams
  BlocksAreCounted
  ValuesComeBack
  TapeIsKept
  SharedDataIsRead
PROPERTIES
  OthersKeepTheirBytes
  ValueSemantics
