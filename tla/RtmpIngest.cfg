SPECIFICATION FairSpec
CONSTANTS
  MaxBlocks = 6
  NUnits = 6
  Awaited <- MCAwaited
INVARIANTS
  NoBlockLost
  NothingLeftUnparsed
PROPERTIES
  ParserGetsTheStream
  WokenThreadDrains
  CloseCompletes
