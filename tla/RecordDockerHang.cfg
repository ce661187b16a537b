CONSTANTS
  AppKinds = {"native", "docker"}
  AppFailsBeforeInode = TRUE
  RecordTimer = TRUE
  MaxItems = 1
  MaxInsertErrors = 1
  InsertErrChanCap = 10
SPECIFICATION FairSpec
PROPERTY StartTerminates
CHECK_DEADLOCK FALSE
