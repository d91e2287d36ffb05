SPECIFICATION FairPublishSpec
CONSTANTS
  NPublishers = 1
  MaxSamples = 2
PROPERTY
  SampleForwarded
