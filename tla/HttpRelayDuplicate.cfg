CONSTANTS
  N = 2
  ReqShape <- MCReq
  RespShape <- MCResp
  SlowPeers = FALSE
  ServerMayClose = TRUE
  ClientMayAbort = FALSE
  ServerSkips100 = FALSE
SPECIFICATION Spec
INVARIANT RelayFaithful
CHECK_DEADLOCK FALSE
