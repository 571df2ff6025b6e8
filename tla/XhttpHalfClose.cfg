CONSTANTS
  XhttpKinds <- XhttpStream
  Workers = 2
  QueueLimit = 1
  MaxBatches <- OneBatch
  VlessKinds <- NoKinds
  Units <- NoUnits
  FirstLimit = 2
  Width = 3
  DirectMin = 2
  FilterLimit = 2
SPECIFICATION Spec
PROPERTY HalfCloseKeepsDownload
CHECK_DEADLOCK FALSE
