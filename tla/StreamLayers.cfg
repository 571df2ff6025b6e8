CONSTANTS
  Kinds <- AllKinds
  Units = 2
  WireLimit <- AllWires
  Window = 2
  HoldLimit = 5
  Width = 2
SPECIFICATION Spec
INVARIANTS
  DownloadIntact
  AcceptedIsKept
  UploadIntact
PROPERTIES
  ArrivedIsRead
CHECK_DEADLOCK FALSE
