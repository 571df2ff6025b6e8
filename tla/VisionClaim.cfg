CONSTANTS
  XhttpKinds <- NoKinds
  Workers = 2
  QueueLimit = 1
  MaxBatches <- NoUnits
  VlessKinds <- VisionKind
  Units <- OneUnit
  FirstLimit = 2
  Width = 3
  DirectMin = 2
  FilterLimit = 2
SPECIFICATION Spec
INVARIANT DirectIsRead
CHECK_DEADLOCK FALSE
