CONSTANTS
  AppKinds = {"native", "docker"}
  AppFailsBeforeInode = FALSE
  RecordTimer = TRUE
  MaxItems = 1
  MaxInsertErrors = 1
  InsertErrChanCap = 10
SPECIFICATION Spec
INVARIANT NoSendOnClosedChannel
CHECK_DEADLOCK FALSE
