CONSTANTS
  N = 2
  ReqShape <- MCReq
  RespShape <- MCRespJoinedTerm
  SlowPeers = FALSE
  ServerMayClose = FALSE
  ClientMayAbort = FALSE
  ServerSkips100 = FALSE
SPECIFICATION FairSpec
PROPERTY ExchangesRecorded
CHECK_DEADLOCK FALSE
