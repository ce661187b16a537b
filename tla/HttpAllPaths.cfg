CONSTANTS
  N = 2
  ReqShape <- MCReq
  RespShape <- MCResp
  SlowPeers = TRUE
  ServerMayClose = TRUE
  ClientMayAbort = TRUE
  ServerSkips100 = TRUE
SPECIFICATION Spec
INVARIANT MocksFaithful
CHECK_DEADLOCK FALSE
