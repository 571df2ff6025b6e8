CONSTANTS
  x1 = x1
  x2 = x2
  x3 = x3
  x4 = x4
  Calls <- MCFour
  MaxClients = 2
  MaxSessions = 3
  MinIdle = 1
  MaxStreams = 2
  MaxTraffic = 3
  ChunkSizes <- MCFitting
SPECIFICATION AnyTlsSpec
INVARIANTS
  ExclusiveSession
  OldestFirst
  NoEntryLeaks
  DeliveredInOrder
  WireWellFormed
PROPERTY ClosesOnlySurplus
SYMMETRY CallSymmetry
CHECK_DEADLOCK FALSE
