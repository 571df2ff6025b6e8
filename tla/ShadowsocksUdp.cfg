CONSTANTS
  x1 = x1
  x2 = x2
  x3 = x3
  k1 = k1
  Calls <- MCCalls
  Keys <- MCKeys
  NLanes = 2
  MaxSockets = 3
SPECIFICATION Spec
INVARIANTS
  NoStrandedCall
  NoWaitOnClosedSocket
  OneReaderPerLane
  OneWriterPerStream
  NoWaiterLeaks
SYMMETRY Symmetry
