SPECIFICATION FairPublishSpec
CONSTANTS
  NPublishers = 2
  MaxSamples = 3
PROPERTIES
  EachUrlGetsTheStream
  WokenPublisherWrites
  StopCompletes
