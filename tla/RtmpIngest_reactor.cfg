SPECIFICATION FairSpec
CONSTANTS
  MaxBlocks = 4
  NUnits = 4
  Awaited <- MCAwaited
PROPERTY
  ReactorReturns
