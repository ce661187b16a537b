----------------------------- MODULE ConnTracker -----------------------------
(***************************************************************************)
(* The per-connection Tracker of the ingress recorder (connection.Tracker, *)
(* src/unnamed/part_002).  The eBPF probe reports every read (Ingress: a   *)
(* request chunk reaching the application) and every write (Egress: a      *)
(* response chunk leaving it) as a data event carrying the chunk, its size *)
(* and the kernel's byte count of the last run of the other direction.     *)
(* AddDataEvent cuts the stream into requests and responses at direction   *)
(* flips and queues them; IsComplete, polled by the connection factory,    *)
(* pops one exchange, validates its byte counts against the kernel's and   *)
(* returns it to be recorded as a test case.  Every method holds the       *)
(* tracker mutex for its whole body, so each is one atomic step here.      *)
(*                                                                         *)
(* The environment is one application connection: it serves MaxExchanges  *)
(* keep-alive exchanges, each a request read in up to MaxReqChunks reads  *)
(* and a response written in up to MaxRespChunks writes.  A chunk is the  *)
(* record [ex, n, len]: the n-th chunk of exchange ex, of which len bytes *)
(* reached the buffer, so that a recorded buffer can be compared with     *)
(* what the application really exchanged.                                 *)
(***************************************************************************)
EXTENDS Naturals, Sequences

CONSTANTS
  ChunkSize,        \* sizes (event.MsgSize) one read or write may have
  EventBodyMaxSize, \* structs2.EventBodyMaxSize: bytes an event can carry
  MaxExchanges,     \* exchanges the application makes on the connection
  MaxReqChunks,     \* reads of one request
  MaxRespChunks     \* writes of one response

ASSUME ChunkSizeAssumption == ChunkSize \subseteq Nat \ {0} /\ ChunkSize # {}
ASSUME MaxSizeAssumption == EventBodyMaxSize \in Nat \ {0}
ASSUME BoundsAssumption ==
  /\ MaxExchanges \in Nat \ {0}
  /\ MaxReqChunks \in Nat \ {0}
  /\ MaxRespChunks \in Nat \ {0}

VARIABLES
  \* Tracker fields (part_002 lines 18-49)
  totalSentBytesQueue,   \* kernel's byte count of each queued response
  totalRecvBytesQueue,   \* kernel's byte count of each queued request
  currentSentBytesQueue, \* userspace byte count of each queued response
  currentRecvBytesQueue, \* userspace byte count of each queued request
  currentSentBufQueue,   \* queued responses
  currentRecvBufQueue,   \* queued requests
  sentBytes, recvBytes,  \* byte counts of the exchange being assembled
  SentBuf, RecvBuf,      \* buffers of the exchange being assembled
  gotResponseDataEvent, gotRequestDataEvent, firstRequest,
  recordTestCountAtomic, \* exchanges queued for IsComplete
  opened, closed,        \* openTimestamp # 0, closeTimestamp # 0
  \* Time: at least 4 s since lastActivityTimestamp
  idle,
  \* The application and the kernel's counters
  ex,                    \* the exchange in progress
  phase,                 \* "req": reading its request; "resp": writing its response
  appReq, appResp,       \* sizes of the chunks really read and written, per exchange
  kread, kwritten,       \* kernel's bytes of the last read run and write run
  \* What IsComplete handed out to be recorded
  recorded

trackerVars == <<totalSentBytesQueue, totalRecvBytesQueue, currentSentBytesQueue,
                 currentRecvBytesQueue, currentSentBufQueue, currentRecvBufQueue,
                 sentBytes, recvBytes, SentBuf, RecvBuf, gotResponseDataEvent,
                 gotRequestDataEvent, firstRequest, recordTestCountAtomic,
                 opened, closed>>
appVars == <<ex, phase, appReq, appResp, kread, kwritten>>
vars == <<trackerVars, idle, appVars, recorded>>

Exchanges == 1 .. MaxExchanges
Chunk == [ex : Nat, n : Nat, len : Nat]

\* The part of a chunk copied into the event (lines 258-263, 285-290).
Kept(size) == IF size > EventBodyMaxSize THEN EventBodyMaxSize ELSE size

-----------------------------------------------------------------------------
(* NewTracker (lines 51-66): the tracker as the factory creates it. *)
Init ==
  /\ totalSentBytesQueue = <<>> /\ totalRecvBytesQueue = <<>>
  /\ currentSentBytesQueue = <<>> /\ currentRecvBytesQueue = <<>>
  /\ currentSentBufQueue = <<>> /\ currentRecvBufQueue = <<>>
  /\ sentBytes = 0 /\ recvBytes = 0
  /\ SentBuf = <<>> /\ RecvBuf = <<>>
  /\ gotResponseDataEvent = FALSE /\ gotRequestDataEvent = FALSE
  /\ firstRequest = TRUE
  /\ recordTestCountAtomic = 0
  /\ opened = FALSE /\ closed = FALSE
  /\ idle = FALSE
  /\ ex = 1 /\ phase = "req"
  /\ appReq = [i \in Exchanges |-> <<>>] /\ appResp = [i \in Exchanges |-> <<>>]
  /\ kread = 0 /\ kwritten = 0
  /\ recorded = <<>>

-----------------------------------------------------------------------------
(* The application reads a request chunk: more of the current request, or *)
(* the first chunk of the next exchange once a response has begun.  The    *)
(* kernel counts the bytes of the read run, restarting on a flip.          *)
ReadChunk(size) ==
  /\ ~closed
  /\ \/ /\ phase = "req" /\ Len(appReq[ex]) < MaxReqChunks
        /\ ex' = ex /\ kread' = kread + size
     \/ /\ phase = "resp" /\ ex < MaxExchanges
        /\ ex' = ex + 1 /\ kread' = size
  /\ phase' = "req"
  /\ appReq' = [appReq EXCEPT ![ex'] = Append(@, size)]
  /\ UNCHANGED <<appResp, kwritten>>

(* The application writes a response chunk, once its request is read. *)
WriteChunk(size) ==
  /\ ~closed
  /\ \/ /\ phase = "req" /\ appReq[ex] # <<>>
        /\ kwritten' = size
     \/ /\ phase = "resp" /\ Len(appResp[ex]) < MaxRespChunks
        /\ kwritten' = kwritten + size
  /\ phase' = "resp"
  /\ appResp' = [appResp EXCEPT ![ex] = Append(@, size)]
  /\ UNCHANGED <<ex, appReq, kread>>

-----------------------------------------------------------------------------
(* Seeded faults: variants of the handlers below, each with one bug the  *)
(* properties must catch.  AddIngressEventNoCount forgets to count the    *)
(* rotated exchange (a missing recordTestCountAtomic.Add).                *)
AddIngressEventNoCount(c, size, vw) ==
  /\ RecvBuf' = Append(RecvBuf, c)
  /\ recvBytes' = recvBytes + size
  /\ \/ /\ ~firstRequest \/ gotResponseDataEvent
        /\ currentSentBytesQueue' = Append(currentSentBytesQueue, sentBytes)
        /\ sentBytes' = 0
        /\ currentSentBufQueue' = Append(currentSentBufQueue, SentBuf)
        /\ SentBuf' = <<>>
        /\ gotRequestDataEvent' = TRUE
        /\ gotResponseDataEvent' = FALSE
        /\ totalSentBytesQueue' = Append(totalSentBytesQueue, vw)
        /\ UNCHANGED recordTestCountAtomic
     \/ /\ ~(~firstRequest \/ gotResponseDataEvent)
        /\ UNCHANGED <<currentSentBytesQueue, sentBytes, currentSentBufQueue, SentBuf,
                       gotRequestDataEvent, gotResponseDataEvent,
                       totalSentBytesQueue, recordTestCountAtomic>>
  /\ idle' = FALSE
  /\ UNCHANGED <<totalRecvBytesQueue, currentRecvBytesQueue, currentRecvBufQueue,
                 firstRequest, opened, closed>>

(* AddDataEvent, case IngressTraffic (lines 241-244, 283-310): append the   *)
(* chunk to RecvBuf and, unless this is the first request, rotate the      *)
(* response assembled so far into the response queues and count one more  *)
(* exchange for IsComplete.  vw is event.ValidateWrittenBytes.             *)
AddIngressEvent(c, size, vw) ==
  /\ RecvBuf' = Append(RecvBuf, c)
  /\ recvBytes' = recvBytes + size
  /\ \/ /\ ~firstRequest \/ gotResponseDataEvent
        /\ currentSentBytesQueue' = Append(currentSentBytesQueue, sentBytes)
        /\ sentBytes' = 0
        /\ currentSentBufQueue' = Append(currentSentBufQueue, SentBuf)
        /\ SentBuf' = <<>>
        /\ gotRequestDataEvent' = TRUE
        /\ gotResponseDataEvent' = FALSE
        /\ totalSentBytesQueue' = Append(totalSentBytesQueue, vw)
        /\ recordTestCountAtomic' = recordTestCountAtomic + 1
     \/ /\ ~(~firstRequest \/ gotResponseDataEvent)
        /\ UNCHANGED <<currentSentBytesQueue, sentBytes, currentSentBufQueue, SentBuf,
                       gotRequestDataEvent, gotResponseDataEvent,
                       totalSentBytesQueue, recordTestCountAtomic>>
  /\ idle' = FALSE
  /\ UNCHANGED <<totalRecvBytesQueue, currentRecvBytesQueue, currentRecvBufQueue,
                 firstRequest, opened, closed>>

(* Seeded fault: AddEgressEventKeepsRecvBuf rotates the request but does  *)
(* not clear RecvBuf.                                                      *)
AddEgressEventKeepsRecvBuf(c, size, vr) ==
  /\ SentBuf' = Append(SentBuf, c)
  /\ sentBytes' = sentBytes + size
  /\ \/ /\ firstRequest \/ gotRequestDataEvent
        /\ currentRecvBytesQueue' = Append(currentRecvBytesQueue, recvBytes)
        /\ recvBytes' = 0
        /\ currentRecvBufQueue' = Append(currentRecvBufQueue, RecvBuf)
        /\ gotRequestDataEvent' = FALSE
        /\ gotResponseDataEvent' = TRUE
        /\ totalRecvBytesQueue' = Append(totalRecvBytesQueue, vr)
        /\ firstRequest' = FALSE
        /\ UNCHANGED RecvBuf
     \/ /\ ~(firstRequest \/ gotRequestDataEvent)
        /\ UNCHANGED <<currentRecvBytesQueue, recvBytes, currentRecvBufQueue, RecvBuf,
                       gotRequestDataEvent, gotResponseDataEvent,
                       totalRecvBytesQueue, firstRequest>>
  /\ idle' = FALSE
  /\ UNCHANGED <<totalSentBytesQueue, currentSentBytesQueue, currentSentBufQueue,
                 recordTestCountAtomic, opened, closed>>

(* AddDataEvent, case EgressTraffic (lines 241-244, 256-281): append the   *)
(* chunk to SentBuf and, on the first response chunk after a request,     *)
(* rotate the request into the request queues.  vr is                      *)
(* event.ValidateReadBytes.                                                *)
AddEgressEvent(c, size, vr) ==
  /\ SentBuf' = Append(SentBuf, c)
  /\ sentBytes' = sentBytes + size
  /\ \/ /\ firstRequest \/ gotRequestDataEvent
        /\ currentRecvBytesQueue' = Append(currentRecvBytesQueue, recvBytes)
        /\ recvBytes' = 0
        /\ currentRecvBufQueue' = Append(currentRecvBufQueue, RecvBuf)
        /\ RecvBuf' = <<>>
        /\ gotRequestDataEvent' = FALSE
        /\ gotResponseDataEvent' = TRUE
        /\ totalRecvBytesQueue' = Append(totalRecvBytesQueue, vr)
        /\ firstRequest' = FALSE
     \/ /\ ~(firstRequest \/ gotRequestDataEvent)
        /\ UNCHANGED <<currentRecvBytesQueue, recvBytes, currentRecvBufQueue, RecvBuf,
                       gotRequestDataEvent, gotResponseDataEvent,
                       totalRecvBytesQueue, firstRequest>>
  /\ idle' = FALSE
  /\ UNCHANGED <<totalSentBytesQueue, currentSentBytesQueue, currentSentBufQueue,
                 recordTestCountAtomic, opened, closed>>

(* A read whose data event reaches the tracker. *)
Ingress(size) ==
  /\ ReadChunk(size)
  /\ AddIngressEvent([ex |-> ex', n |-> Len(appReq'[ex']), len |-> Kept(size)],
                     size, kwritten)
  /\ UNCHANGED recorded

(* A write whose data event reaches the tracker. *)
Egress(size) ==
  /\ WriteChunk(size)
  /\ AddEgressEvent([ex |-> ex, n |-> Len(appResp'[ex]), len |-> Kept(size)],
                    size, kread)
  /\ UNCHANGED recorded

(* AddOpenEvent (lines 316-326): records the open and refreshes the activity *)
(* timestamp.  Open events travel apart from data events, so it may arrive *)
(* at any time.                                                            *)
AddOpenEvent ==
  /\ ~opened
  /\ opened' = TRUE
  /\ idle' = FALSE
  /\ UNCHANGED <<totalSentBytesQueue, totalRecvBytesQueue, currentSentBytesQueue,
                 currentRecvBytesQueue, currentSentBufQueue, currentRecvBufQueue,
                 sentBytes, recvBytes, SentBuf, RecvBuf, gotResponseDataEvent,
                 gotRequestDataEvent, firstRequest, recordTestCountAtomic, closed,
                 appVars, recorded>>

(* The application closes the connection; AddCloseEvent (lines 328-337)   *)
(* records it and refreshes the activity timestamp.                        *)
AddCloseEvent ==
  /\ ~closed
  /\ closed' = TRUE
  /\ idle' = FALSE
  /\ UNCHANGED <<totalSentBytesQueue, totalRecvBytesQueue, currentSentBytesQueue,
                 currentRecvBytesQueue, currentSentBufQueue, currentRecvBufQueue,
                 sentBytes, recvBytes, SentBuf, RecvBuf, gotResponseDataEvent,
                 gotRequestDataEvent, firstRequest, recordTestCountAtomic, opened,
                 appVars, recorded>>

(* Four seconds pass without an event on the connection. *)
Tick ==
  /\ ~idle
  /\ idle' = TRUE
  /\ UNCHANGED <<trackerVars, appVars, recorded>>

-----------------------------------------------------------------------------
(* IsComplete with exchanges queued (lines 106-161): pop the head of the   *)
(* four byte-count queues and, if both are there, of the two buffer        *)
(* queues; the pair is handed out iff both counts agree with the kernel's. *)
QueuesPresent ==
  /\ currentRecvBytesQueue # <<>> /\ totalRecvBytesQueue # <<>>
  /\ currentSentBytesQueue # <<>> /\ totalSentBytesQueue # <<>>

(* Seeded fault: IsCompleteQueuedSwapped hands out the response as the   *)
(* request and the request as the response.                                *)
IsCompleteQueuedSwapped ==
  /\ recordTestCountAtomic > 0
  /\ QueuesPresent
  /\ LET validReq == Head(currentRecvBytesQueue) = Head(totalRecvBytesQueue)
         validRes == Head(currentSentBytesQueue) = Head(totalSentBytesQueue)
         haveBufs == currentRecvBufQueue # <<>> /\ currentSentBufQueue # <<>>
     IN  /\ currentRecvBytesQueue' = Tail(currentRecvBytesQueue)
         /\ totalRecvBytesQueue' = Tail(totalRecvBytesQueue)
         /\ currentSentBytesQueue' = Tail(currentSentBytesQueue)
         /\ totalSentBytesQueue' = Tail(totalSentBytesQueue)
         /\ currentRecvBufQueue' =
              IF haveBufs THEN Tail(currentRecvBufQueue) ELSE currentRecvBufQueue
         /\ currentSentBufQueue' =
              IF haveBufs THEN Tail(currentSentBufQueue) ELSE currentSentBufQueue
         /\ recorded' =
              IF validReq /\ validRes
              THEN Append(recorded,
                     [req  |-> IF haveBufs THEN Head(currentSentBufQueue) ELSE <<>>,
                      resp |-> IF haveBufs THEN Head(currentRecvBufQueue) ELSE <<>>])
              ELSE recorded
  /\ recordTestCountAtomic' = recordTestCountAtomic - 1
  /\ UNCHANGED <<sentBytes, recvBytes, SentBuf, RecvBuf, gotResponseDataEvent,
                 gotRequestDataEvent, firstRequest, opened, closed, idle, appVars>>

IsCompleteQueued ==
  /\ recordTestCountAtomic > 0
  /\ QueuesPresent
  /\ LET validReq == Head(currentRecvBytesQueue) = Head(totalRecvBytesQueue)
         validRes == Head(currentSentBytesQueue) = Head(totalSentBytesQueue)
         haveBufs == currentRecvBufQueue # <<>> /\ currentSentBufQueue # <<>>
     IN  /\ currentRecvBytesQueue' = Tail(currentRecvBytesQueue)
         /\ totalRecvBytesQueue' = Tail(totalRecvBytesQueue)
         /\ currentSentBytesQueue' = Tail(currentSentBytesQueue)
         /\ totalSentBytesQueue' = Tail(totalSentBytesQueue)
         /\ currentRecvBufQueue' =
              IF haveBufs THEN Tail(currentRecvBufQueue) ELSE currentRecvBufQueue
         /\ currentSentBufQueue' =
              IF haveBufs THEN Tail(currentSentBufQueue) ELSE currentSentBufQueue
         /\ recorded' =
              IF validReq /\ validRes
              THEN Append(recorded,
                     [req  |-> IF haveBufs THEN Head(currentRecvBufQueue) ELSE <<>>,
                      resp |-> IF haveBufs THEN Head(currentSentBufQueue) ELSE <<>>])
              ELSE recorded
  /\ recordTestCountAtomic' = recordTestCountAtomic - 1
  /\ UNCHANGED <<sentBytes, recvBytes, SentBuf, RecvBuf, gotResponseDataEvent,
                 gotRequestDataEvent, firstRequest, opened, closed, idle, appVars>>

(* IsComplete with the counter positive but a queue empty (lines 152-160): *)
(* "malformed request or response"; the counter drops, nothing is popped.  *)
IsCompleteMalformed ==
  /\ recordTestCountAtomic > 0
  /\ ~QueuesPresent
  /\ recordTestCountAtomic' = recordTestCountAtomic - 1
  /\ UNCHANGED <<totalSentBytesQueue, totalRecvBytesQueue, currentSentBytesQueue,
                 currentRecvBytesQueue, currentSentBufQueue, currentRecvBufQueue,
                 sentBytes, recvBytes, SentBuf, RecvBuf, gotResponseDataEvent,
                 gotRequestDataEvent, firstRequest, opened, closed, idle,
                 appVars, recorded>>

(* Seeded fault: a reset that forgets the response buffer. *)
ResetConnectionKeepsSentBuf ==
  /\ firstRequest' = TRUE
  /\ gotResponseDataEvent' = FALSE
  /\ gotRequestDataEvent' = FALSE
  /\ recvBytes' = 0 /\ sentBytes' = 0
  /\ UNCHANGED SentBuf /\ RecvBuf' = <<>>

(* resetConnection (lines 211-219). *)
ResetConnection ==
  /\ firstRequest' = TRUE
  /\ gotResponseDataEvent' = FALSE
  /\ gotRequestDataEvent' = FALSE
  /\ recvBytes' = 0 /\ sentBytes' = 0
  /\ SentBuf' = <<>> /\ RecvBuf' = <<>>

(* Seeded faults: IsCompleteIdleDecrements also decrements the counter, *)
(* as the queued branch does; IsCompleteIdleWrongFlag tests               *)
(* gotRequestDataEvent instead of gotResponseDataEvent.                    *)
IsCompleteIdleDecrements ==
  /\ ~(recordTestCountAtomic > 0)
  /\ gotResponseDataEvent
  /\ idle
  /\ currentRecvBytesQueue # <<>> /\ totalRecvBytesQueue # <<>>
  /\ currentRecvBytesQueue' = Tail(currentRecvBytesQueue)
  /\ totalRecvBytesQueue' = Tail(totalRecvBytesQueue)
  /\ currentRecvBufQueue' =
       IF currentRecvBufQueue # <<>> THEN Tail(currentRecvBufQueue) ELSE currentRecvBufQueue
  /\ recorded' =
       IF Head(currentRecvBytesQueue) = Head(totalRecvBytesQueue) /\ currentRecvBufQueue # <<>>
       THEN Append(recorded, [req |-> Head(currentRecvBufQueue), resp |-> SentBuf])
       ELSE recorded
  /\ ResetConnection
  /\ recordTestCountAtomic' = recordTestCountAtomic - 1
  /\ UNCHANGED <<totalSentBytesQueue, currentSentBytesQueue, currentSentBufQueue,
                 opened, closed, idle, appVars>>

IsCompleteIdleWrongFlag ==
  /\ ~(recordTestCountAtomic > 0)
  /\ gotRequestDataEvent
  /\ idle
  /\ currentRecvBytesQueue # <<>> /\ totalRecvBytesQueue # <<>>
  /\ currentRecvBytesQueue' = Tail(currentRecvBytesQueue)
  /\ totalRecvBytesQueue' = Tail(totalRecvBytesQueue)
  /\ currentRecvBufQueue' =
       IF currentRecvBufQueue # <<>> THEN Tail(currentRecvBufQueue) ELSE currentRecvBufQueue
  /\ recorded' =
       IF Head(currentRecvBytesQueue) = Head(totalRecvBytesQueue) /\ currentRecvBufQueue # <<>>
       THEN Append(recorded, [req |-> Head(currentRecvBufQueue), resp |-> SentBuf])
       ELSE recorded
  /\ ResetConnection
  /\ UNCHANGED <<totalSentBytesQueue, currentSentBytesQueue, currentSentBufQueue,
                 recordTestCountAtomic, opened, closed, idle, appVars>>

(* Seeded fault: the idle path records the pair without verifyRequestData. *)
IsCompleteIdleNoVerify ==
  /\ ~(recordTestCountAtomic > 0)
  /\ gotResponseDataEvent
  /\ idle
  /\ currentRecvBytesQueue # <<>> /\ totalRecvBytesQueue # <<>>
  /\ currentRecvBytesQueue' = Tail(currentRecvBytesQueue)
  /\ totalRecvBytesQueue' = Tail(totalRecvBytesQueue)
  /\ currentRecvBufQueue' =
       IF currentRecvBufQueue # <<>> THEN Tail(currentRecvBufQueue) ELSE currentRecvBufQueue
  /\ recorded' =
       IF currentRecvBufQueue # <<>>
       THEN Append(recorded, [req |-> Head(currentRecvBufQueue), resp |-> SentBuf])
       ELSE recorded
  /\ ResetConnection
  /\ UNCHANGED <<totalSentBytesQueue, currentSentBytesQueue, currentSentBufQueue,
                 recordTestCountAtomic, opened, closed, idle, appVars>>

(* IsComplete on an idle connection that got a response (lines 162-202):    *)
(* take it for the last exchange of a keep-alive chain, validate only the  *)
(* request, hand out the response assembled so far, and reset.             *)
IsCompleteIdle ==
  /\ ~(recordTestCountAtomic > 0)
  /\ gotResponseDataEvent
  /\ idle
  /\ currentRecvBytesQueue # <<>> /\ totalRecvBytesQueue # <<>>
  /\ LET validReq == Head(currentRecvBytesQueue) = Head(totalRecvBytesQueue)
     IN  /\ currentRecvBytesQueue' = Tail(currentRecvBytesQueue)
         /\ totalRecvBytesQueue' = Tail(totalRecvBytesQueue)
         /\ currentRecvBufQueue' =
              IF currentRecvBufQueue # <<>> THEN Tail(currentRecvBufQueue)
                                            ELSE currentRecvBufQueue
         /\ recorded' =
              IF validReq /\ currentRecvBufQueue # <<>>
              THEN Append(recorded, [req |-> Head(currentRecvBufQueue), resp |-> SentBuf])
              ELSE recorded
  /\ ResetConnection
  /\ UNCHANGED <<totalSentBytesQueue, currentSentBytesQueue, currentSentBufQueue,
                 recordTestCountAtomic, opened, closed, idle, appVars>>

(* The same with the request queues empty (lines 192-195): "malformed      *)
(* request"; nothing is handed out and the tracker is reset.               *)
IsCompleteIdleMalformed ==
  /\ ~(recordTestCountAtomic > 0)
  /\ gotResponseDataEvent
  /\ idle
  /\ ~(currentRecvBytesQueue # <<>> /\ totalRecvBytesQueue # <<>>)
  /\ ResetConnection
  /\ UNCHANGED <<totalSentBytesQueue, totalRecvBytesQueue, currentSentBytesQueue,
                 currentRecvBytesQueue, currentSentBufQueue, currentRecvBufQueue,
                 recordTestCountAtomic, opened, closed, idle, appVars, recorded>>

-----------------------------------------------------------------------------
Next ==
  \/ \E s \in ChunkSize : Ingress(s) \/ Egress(s)
  \/ AddOpenEvent
  \/ AddCloseEvent
  \/ Tick
  \/ IsCompleteQueued
  \/ IsCompleteMalformed
  \/ IsCompleteIdle
  \/ IsCompleteIdleMalformed

Spec == Init /\ [][Next]_vars

(* The connection factory polls IsComplete on every tracker in a loop, and  *)
(* time passes; the application and the kernel get no fairness: they may   *)
(* stop at any point.                                                      *)
Fairness ==
  /\ WF_vars(IsCompleteQueued) /\ WF_vars(IsCompleteMalformed)
  /\ WF_vars(IsCompleteIdle) /\ WF_vars(IsCompleteIdleMalformed)
  /\ WF_vars(Tick)

FairSpec == Spec /\ Fairness

-----------------------------------------------------------------------------
TypeOK ==
  /\ totalSentBytesQueue \in Seq(Nat) /\ totalRecvBytesQueue \in Seq(Nat)
  /\ currentSentBytesQueue \in Seq(Nat) /\ currentRecvBytesQueue \in Seq(Nat)
  /\ currentSentBufQueue \in Seq(Seq(Chunk)) /\ currentRecvBufQueue \in Seq(Seq(Chunk))
  /\ sentBytes \in Nat /\ recvBytes \in Nat
  /\ SentBuf \in Seq(Chunk) /\ RecvBuf \in Seq(Chunk)
  /\ gotResponseDataEvent \in BOOLEAN /\ gotRequestDataEvent \in BOOLEAN
  /\ firstRequest \in BOOLEAN
  /\ recordTestCountAtomic \in Nat
  /\ opened \in BOOLEAN /\ closed \in BOOLEAN /\ idle \in BOOLEAN
  /\ ex \in Exchanges /\ phase \in {"req", "resp"}
  /\ appReq \in [Exchanges -> Seq(ChunkSize)] /\ appResp \in [Exchanges -> Seq(ChunkSize)]
  /\ kread \in Nat /\ kwritten \in Nat
  /\ recorded \in Seq([req : Seq(Chunk), resp : Seq(Chunk)])

\* The request and the response of exchange i as the application saw them.
ReqChunks(i) == [n \in 1 .. Len(appReq[i]) |-> [ex |-> i, n |-> n, len |-> appReq[i][n]]]
RespChunks(i) == [n \in 1 .. Len(appResp[i]) |-> [ex |-> i, n |-> n, len |-> appResp[i][n]]]

IsPrefixOf(s, t) == Len(s) <= Len(t) /\ SubSeq(t, 1, Len(s)) = s

(***************************************************************************)
(* Every pair IsComplete hands out is a real exchange: its request is the  *)
(* whole request of one exchange, byte for byte, and its response is a     *)
(* non-empty beginning of that same exchange's response (the whole of it   *)
(* unless the 4 s idle rule cut it short).  This is what the byte-count    *)
(* validation of IsComplete and the direction-flip framing of AddDataEvent *)
(* exist to guarantee.                                                     *)
(***************************************************************************)
RecordedExchangesFaithful ==
  \A k \in 1 .. Len(recorded) :
    \E i \in 1 .. ex :
      /\ recorded[k].req = ReqChunks(i)
      /\ recorded[k].resp # <<>>
      /\ IsPrefixOf(recorded[k].resp, RespChunks(i))

(***************************************************************************)
(* Every request IsComplete hands out is the whole request of one          *)
(* exchange, byte for byte: the request-side validation alone rejects      *)
(* requests with lost or merged reads, whatever happens to responses.      *)
(***************************************************************************)
RecordedRequestsFaithful ==
  \A k \in 1 .. Len(recorded) : \E i \in 1 .. ex : recorded[k].req = ReqChunks(i)

(***************************************************************************)
(* Every exchange whose response the application began to write is, in the *)
(* end, handed out by IsComplete: through the queues once the next request *)
(* arrives, or through the 4 s idle rule if it was the last one.           *)
(***************************************************************************)
EveryExchangeRecorded ==
  \A i \in Exchanges :
    appResp[i] # <<>> ~> \E k \in 1 .. Len(recorded) : recorded[k].req = ReqChunks(i)

(***************************************************************************)
(* The queues stay aligned with the counter (spec 3, ConnectionTracker):   *)
(* one queued response per counted exchange, and one queued request per    *)
(* counted exchange plus the one whose response is being assembled.  A     *)
(* misalignment pairs a request with another exchange's response.          *)
(***************************************************************************)
QueuesAligned ==
  /\ Len(currentSentBytesQueue) = recordTestCountAtomic
  /\ Len(currentRecvBytesQueue) =
       recordTestCountAtomic + (IF gotResponseDataEvent THEN 1 ELSE 0)
=============================================================================
