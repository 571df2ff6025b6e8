CONSTANTS
  x1 = x1
  x2 = x2
  x3 = x3
  k1 = k1
  k2 = k2
  p1 = p1
  Calls <- MCCalls
  Pair <- MCPair
  Configs <- MCConfigs
  MaxClients = 2
  MaxPosts = 1
  Keys <- MCKeys
  KeyChoices <- MCKeyChoices
  Ports <- MCPorts
  Children <- MCIds
  Locks <- MCIds
  MaxStarts = 2
  Contested <- MCPorts
  None = None
  Conn = 1
  AutoExpire = TRUE
  MaxSessions = 3
  PoolSize = 2
  MaxHy2Clients = 5
  MaxNext = 3
SPECIFICATION Spec
INVARIANTS
  UsageIsAccounted
  PoolBounded
  StartedOnce
  StartsHaveOwnPort
  NoReservationLeaks
  RetryUsesAnotherClient
PROPERTIES
  UsableReplacedOnlyByRetry
  EveryCallSettles
CHECK_DEADLOCK FALSE
