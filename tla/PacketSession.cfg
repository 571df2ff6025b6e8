CONSTANTS
  r1 = r1
  r2 = r2
  r3 = r3
  r4 = r4
  k1 = k1
  k2 = k2
  Requests <- MCRequests
  Keys <- MCKeys
SYMMETRY Symmetry
SPECIFICATION Spec
INVARIANTS
  IndexesAgree
  NoStrandedWaiter
  AtMostOneAnswer
  AnswerFromTarget
PROPERTY ImplementsWaiterList
