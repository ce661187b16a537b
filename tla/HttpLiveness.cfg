\* Prompt or slow peers, a client that may abort, a server that keeps its
\* connection open: the relay stays faithful and every exchange is recorded.
CONSTANTS
  N = 2
  ReqShape <- MCReq
  RespShape <- MCResp
  SlowPeers = TRUE
  ServerMayClose = FALSE
  ClientMayAbort = TRUE
  ServerSkips100 = TRUE
SPECIFICATION FairSpec
INVARIANT RelayFaithful
PROPERTY ExchangesRecorded
CHECK_DEADLOCK FALSE
