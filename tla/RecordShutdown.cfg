CONSTANTS
  AppKinds = {"native", "docker"}
  AppFailsBeforeInode = FALSE
  RecordTimer = TRUE
  MaxItems = 1
  MaxInsertErrors = 1
  InsertErrChanCap = 10
SPECIFICATION FairSpec
INVARIANTS TypeOK DrainedBeforeReturn IInv
PROPERTIES StreamsCloseAfterApp StartTerminates
CHECK_DEADLOCK FALSE
