\* Requests after the first may arrive in two reads; responses in one write.
CONSTANTS
  ChunkSize = {1, 2}
  EventBodyMaxSize = 2
  MaxExchanges = 3
  MaxReqChunks = 2
  MaxRespChunks = 1
SPECIFICATION Spec
INVARIANT RecordedRequestsFaithful
INVARIANT RInv
CHECK_DEADLOCK FALSE
