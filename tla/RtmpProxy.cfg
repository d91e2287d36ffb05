SPECIFICATION FairSpec
CONSTANTS
  c1 = c1
  c2 = c2
  Conns <- TwoConns
  Configured <- OneNamed
INVARIANTS
  CallbackFindsPublish
  NoThreadOrphaned
PROPERTIES
  ReactorComesBack
  CallbackReturns
