CONSTANTS
  Kinds = {"tls"}
  Units = 2
  WireLimit <- TlsWire
  Window = 2
  HoldLimit = 5
  Width = 2
SPECIFICATION Spec
INVARIANT RecordsKeepPayload
CHECK_DEADLOCK FALSE
