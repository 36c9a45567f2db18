SPECIFICATION FairSpec
CONSTANTS
  Systems <- AllSystems
  Scenarios <- Together
  MaxItems = 2
  Vectors <- Buffers
  Room = 1
INVARIANTS
  NoLostWakeup
  Intact
  ConnectTruth
PROPERTY
  EventuallyDone
