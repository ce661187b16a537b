\* Every request arrives in one read, responses in one or two writes, three
\* keep-alive exchanges; chunks of 1 or 2 bytes, all fitting in an event.
CONSTANTS
  ChunkSize = {1, 2}
  EventBodyMaxSize = 2
  MaxExchanges = 3
  MaxReqChunks = 1
  MaxRespChunks = 2
SPECIFICATION FairSpec
INVARIANT TypeOK
INVARIANT QueuesAligned
INVARIANT RecordedExchangesFaithful
INVARIANT FInv
PROPERTY EveryExchangeRecorded
\* A closed, drained connection has no step left: the run really ends there.
CHECK_DEADLOCK FALSE
