CONSTANTS
  XhttpKinds <- AllXhttp
  Workers = 2
  QueueLimit = 1
  MaxBatches <- AllBatches
  VlessKinds <- AllVless
  Units <- AllUnits
  FirstLimit = 2
  Width = 3
  DirectMin = 2
  FilterLimit = 2
SPECIFICATION Spec
INVARIANTS
  DownloadIntact
  UploadIntact
  EndsAreWhole
PROPERTIES
  TasksEnd
  BodyNotCut
CHECK_DEADLOCK FALSE
