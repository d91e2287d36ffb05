SPECIFICATION Spec
CONSTANTS
  Requests <- SmallRequests
  Connects <- SmallConnects
  MaxMessages = 5
  MaxBlock = 2
  RTMP_DEFAULT_ACKNOWNLEDGEMENT_SIZE = 5
  EncodeAmf <- Encode
  DecodeAmf <- Decode
  ClientAmf <- Payload
  strtol <- Strtol
INVARIANTS
  CallsAnswered
  PublishTold
  NamedByTheFirst
  TracksMatchMetadata
  AcknowledgedOnceInTime
