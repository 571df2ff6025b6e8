CONSTANTS
  x1 = x1
  x2 = x2
  k1 = k1
  k2 = k2
  Calls <- MCCalls
  Target = target
  MaxConns = 2
  Keys <- MCKeys
  MaxWorkers = 2
SPECIFICATION Spec
INVARIANTS
  NoStrandedCall
  RetryUsesAnotherConn
  NoWaiterLeaks
  FirstFrameNew
PROPERTIES
  EvictsOnlyDeadConns
  EveryCallReturns
CHECK_DEADLOCK FALSE
