\* All events delivered; a request after the first may take two reads.
CONSTANTS
  ChunkSize = {1, 2}
  EventBodyMaxSize = 2
  MaxExchanges = 3
  MaxReqChunks = 2
  MaxRespChunks = 1
SPECIFICATION Spec
INVARIANT RecordedExchangesFaithful
CHECK_DEADLOCK FALSE
