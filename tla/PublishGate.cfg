SPECIFICATION FairSpec
CONSTANTS
  MaxMessages = 5
  MaxBlock = 2
  HalfCache = 2
INVARIANTS
  CacheHoldsTheStream
  TracksBeforeSamples
  ConfiguredByTheFirst
  ForwardedInOrder
  NoFrameLostAfterTracks
PROPERTIES
  AnnouncedTracksAreFinal
  CompleteStreamIsAnnounced
