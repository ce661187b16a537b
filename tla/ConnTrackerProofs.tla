--------------------------- MODULE ConnTrackerProofs ---------------------------
(***************************************************************************)
(* Proofs about ConnTracker for every value of its constants: the type     *)
(* invariant, and the alignment of the tracker's queues with its exchange  *)
(* counter whenever every request is read in one syscall.                  *)
(***************************************************************************)
EXTENDS ConnTracker, TLAPS

(* The queue pairs pushed and popped together keep equal lengths. *)
Lockstep ==
  /\ Len(totalSentBytesQueue) = Len(currentSentBytesQueue)
  /\ Len(totalRecvBytesQueue) = Len(currentRecvBytesQueue)

(* The three flags of AddDataEvent: the first request has seen neither     *)
(* direction flip; afterwards exactly one of the two flags is set.         *)
FlagsConsistent ==
  /\ firstRequest => ~gotRequestDataEvent /\ ~gotResponseDataEvent
  /\ ~firstRequest => (gotRequestDataEvent # gotResponseDataEvent)

(* The tracker's flags against the application: a rotated request is the  *)
(* one being served, a response follows a request, and nothing has been   *)
(* read only at the very start.                                            *)
AppLink ==
  /\ gotRequestDataEvent => phase = "req"
  /\ phase = "resp" => appReq[ex] # <<>>
  /\ appReq[ex] = <<>> => firstRequest /\ ~gotResponseDataEvent

(* The inductive strengthening of QueuesAligned. *)
IInv == TypeOK /\ QueuesAligned /\ Lockstep /\ FlagsConsistent /\ AppLink

-----------------------------------------------------------------------------
USE ChunkSizeAssumption, MaxSizeAssumption, BoundsAssumption

(* TypeOK cut in three: the byte counts and buffers, the tracker's flags, *)
(* and the application's state.                                            *)
TypeData ==
  /\ totalSentBytesQueue \in Seq(Nat) /\ totalRecvBytesQueue \in Seq(Nat)
  /\ currentSentBytesQueue \in Seq(Nat) /\ currentRecvBytesQueue \in Seq(Nat)
  /\ currentSentBufQueue \in Seq(Seq(Chunk)) /\ currentRecvBufQueue \in Seq(Seq(Chunk))
  /\ sentBytes \in Nat /\ recvBytes \in Nat
  /\ SentBuf \in Seq(Chunk) /\ RecvBuf \in Seq(Chunk)
  /\ recordTestCountAtomic \in Nat
  /\ recorded \in Seq([req : Seq(Chunk), resp : Seq(Chunk)])
TypeFlags ==
  /\ gotResponseDataEvent \in BOOLEAN /\ gotRequestDataEvent \in BOOLEAN
  /\ firstRequest \in BOOLEAN
  /\ opened \in BOOLEAN /\ closed \in BOOLEAN /\ idle \in BOOLEAN
TypeApp ==
  /\ ex \in Exchanges /\ phase \in {"req", "resp"}
  /\ appReq \in [Exchanges -> Seq(ChunkSize)] /\ appResp \in [Exchanges -> Seq(ChunkSize)]
  /\ kread \in Nat /\ kwritten \in Nat

(* What pushing onto and popping off a queue keeps. *)
LEMMA QueueOps ==
  ASSUME NEW S, NEW q \in Seq(S)
  PROVE  /\ \A x \in S : Append(q, x) \in Seq(S)
         /\ q # <<>> => Tail(q) \in Seq(S) /\ Head(q) \in S
  OBVIOUS

(* A data event's chunk is a Chunk. *)
LEMMA ChunkType ==
  ASSUME NEW e \in Nat, NEW sq \in Seq(ChunkSize), NEW s \in ChunkSize
  PROVE  [ex |-> e, n |-> Len(sq), len |-> Kept(s)] \in Chunk
  BY DEF Chunk, Kept

(* The flags stay Boolean when every assignment is TRUE, FALSE or a copy. *)
LEMMA FlagsStep ==
  ASSUME TypeFlags,
         gotResponseDataEvent' \in BOOLEAN, gotRequestDataEvent' \in BOOLEAN,
         firstRequest' \in BOOLEAN, opened' \in BOOLEAN, closed' \in BOOLEAN,
         idle' \in BOOLEAN
  PROVE  TypeFlags'
  BY Zenon DEF TypeFlags

(* Every step of Next keeps the variables in their types. *)
LEMMA TypeStep == TypeOK /\ [Next]_vars => TypeOK'
<1> SUFFICES ASSUME TypeData, TypeFlags, TypeApp, [Next]_vars
             PROVE  TypeData' /\ TypeFlags' /\ TypeApp'
  BY Zenon DEF TypeOK, TypeData, TypeFlags, TypeApp
<1>1. ASSUME NEW s \in ChunkSize, Ingress(s) PROVE TypeData' /\ TypeFlags' /\ TypeApp'
  <2>1. TypeApp'
    <3>1. CASE phase = "req" /\ Len(appReq[ex]) < MaxReqChunks /\ ex' = ex /\ kread' = kread + s
      BY <1>1, <3>1 DEF Ingress, ReadChunk, TypeApp
    <3>2. CASE phase = "resp" /\ ex < MaxExchanges /\ ex' = ex + 1 /\ kread' = s
      BY <1>1, <3>2 DEF Ingress, ReadChunk, TypeApp, Exchanges
    <3>3. QED
      BY <1>1, <3>1, <3>2 DEF Ingress, ReadChunk
  <2> DEFINE c == [ex |-> ex', n |-> Len(appReq'[ex']), len |-> Kept(s)]
  <2>2. c \in Chunk
    <3>1. appReq'[ex'] \in Seq(ChunkSize) /\ ex' \in Nat
      BY <2>1 DEF TypeApp, Exchanges
    <3>2. QED
      BY <3>1, ChunkType
  <2>3. AddIngressEvent(c, s, kwritten) /\ recorded' = recorded
    BY <1>1 DEF Ingress
  <2>4. TypeData'
    <3>1. RecvBuf' \in Seq(Chunk) /\ recvBytes' \in Nat
      BY <2>2, <2>3 DEF AddIngressEvent, TypeData
    <3>2. CASE ~firstRequest \/ gotResponseDataEvent
      <4>0. /\ currentSentBytesQueue' = Append(currentSentBytesQueue, sentBytes)
            /\ sentBytes' = 0
            /\ currentSentBufQueue' = Append(currentSentBufQueue, SentBuf)
            /\ SentBuf' = <<>>
            /\ totalSentBytesQueue' = Append(totalSentBytesQueue, kwritten)
            /\ recordTestCountAtomic' = recordTestCountAtomic + 1
        BY Zenon, <2>3, <3>2 DEF AddIngressEvent
      <4>1. /\ currentSentBytesQueue' \in Seq(Nat) /\ totalSentBytesQueue' \in Seq(Nat)
            /\ currentSentBufQueue' \in Seq(Seq(Chunk)) /\ SentBuf' \in Seq(Chunk)
            /\ sentBytes' \in Nat /\ recordTestCountAtomic' \in Nat
        BY <4>0 DEF TypeData, TypeApp
      <4>2. QED
        BY <2>3, <3>1, <4>1 DEF AddIngressEvent, TypeData
    <3>3. CASE ~(~firstRequest \/ gotResponseDataEvent)
      BY <2>3, <3>1, <3>3 DEF AddIngressEvent, TypeData
    <3>4. QED
      BY <3>2, <3>3
  <2>5. TypeFlags'
    BY <2>3, FlagsStep DEF AddIngressEvent, TypeFlags
  <2>6. QED
    BY <2>1, <2>4, <2>5
<1>2. ASSUME NEW s \in ChunkSize, Egress(s) PROVE TypeData' /\ TypeFlags' /\ TypeApp'
  <2>1. TypeApp'
    BY <1>2 DEF Egress, WriteChunk, TypeApp
  <2> DEFINE c == [ex |-> ex, n |-> Len(appResp'[ex]), len |-> Kept(s)]
  <2>2. c \in Chunk
    <3>1. appResp'[ex] \in Seq(ChunkSize) /\ ex \in Nat
      BY <2>1 DEF TypeApp, Exchanges
    <3>2. QED
      BY <3>1, ChunkType
  <2>3. AddEgressEvent(c, s, kread) /\ recorded' = recorded
    BY <1>2 DEF Egress
  <2>4. TypeData'
    <3>1. SentBuf' \in Seq(Chunk) /\ sentBytes' \in Nat
      BY <2>2, <2>3 DEF AddEgressEvent, TypeData
    <3>2. CASE firstRequest \/ gotRequestDataEvent
      <4>0. /\ currentRecvBytesQueue' = Append(currentRecvBytesQueue, recvBytes)
            /\ recvBytes' = 0
            /\ currentRecvBufQueue' = Append(currentRecvBufQueue, RecvBuf)
            /\ RecvBuf' = <<>>
            /\ totalRecvBytesQueue' = Append(totalRecvBytesQueue, kread)
        BY Zenon, <2>3, <3>2 DEF AddEgressEvent
      <4>1. /\ currentRecvBytesQueue' \in Seq(Nat) /\ totalRecvBytesQueue' \in Seq(Nat)
            /\ currentRecvBufQueue' \in Seq(Seq(Chunk)) /\ RecvBuf' \in Seq(Chunk)
            /\ recvBytes' \in Nat
        BY <4>0 DEF TypeData, TypeApp
      <4>2. QED
        BY <2>3, <3>1, <4>1 DEF AddEgressEvent, TypeData
    <3>3. CASE ~(firstRequest \/ gotRequestDataEvent)
      BY <2>3, <3>1, <3>3 DEF AddEgressEvent, TypeData
    <3>4. QED
      BY <3>2, <3>3
  <2>5. TypeFlags'
    BY <2>3, FlagsStep DEF AddEgressEvent, TypeFlags
  <2>6. QED
    BY <2>1, <2>4, <2>5
<1>3. CASE AddOpenEvent
  BY <1>3, FlagsStep DEF AddOpenEvent, TypeData, TypeFlags, TypeApp, appVars
<1>4. CASE AddCloseEvent
  BY <1>4, FlagsStep DEF AddCloseEvent, TypeData, TypeFlags, TypeApp, appVars
<1>5. CASE Tick
  BY <1>5, FlagsStep DEF Tick, TypeData, TypeFlags, TypeApp, trackerVars, appVars
<1>6. CASE IsCompleteQueued
  <2>1. TypeData'
    <3>1. /\ currentRecvBytesQueue' \in Seq(Nat) /\ totalRecvBytesQueue' \in Seq(Nat)
          /\ currentSentBytesQueue' \in Seq(Nat) /\ totalSentBytesQueue' \in Seq(Nat)
          /\ recordTestCountAtomic' \in Nat
      BY <1>6, QueueOps DEF IsCompleteQueued, QueuesPresent, TypeData
    <3>2. currentRecvBufQueue' \in Seq(Seq(Chunk)) /\ currentSentBufQueue' \in Seq(Seq(Chunk))
      BY <1>6, QueueOps DEF IsCompleteQueued, TypeData
    <3>3. recorded' \in Seq([req : Seq(Chunk), resp : Seq(Chunk)])
      <4>1. /\ currentRecvBufQueue # <<>> => Head(currentRecvBufQueue) \in Seq(Chunk)
            /\ currentSentBufQueue # <<>> => Head(currentSentBufQueue) \in Seq(Chunk)
            /\ <<>> \in Seq(Chunk)
        BY QueueOps DEF TypeData
      <4> DEFINE haveBufs == currentRecvBufQueue # <<>> /\ currentSentBufQueue # <<>>
                 r == [req  |-> IF haveBufs THEN Head(currentRecvBufQueue) ELSE <<>>,
                       resp |-> IF haveBufs THEN Head(currentSentBufQueue) ELSE <<>>]
      <4>2. r \in [req : Seq(Chunk), resp : Seq(Chunk)]
        BY <4>1
      <4>3. Append(recorded, r) \in Seq([req : Seq(Chunk), resp : Seq(Chunk)])
        BY <4>2, QueueOps DEF TypeData
      <4>4. recorded' = Append(recorded, r) \/ recorded' = recorded
        BY <1>6 DEF IsCompleteQueued
      <4>5. QED
        BY <4>3, <4>4 DEF TypeData
    <3>4. QED
      BY <1>6, <3>1, <3>2, <3>3 DEF IsCompleteQueued, TypeData
  <2>2. TypeFlags' /\ TypeApp'
    BY <1>6 DEF IsCompleteQueued, TypeFlags, TypeApp, appVars
  <2>3. QED
    BY <2>1, <2>2
<1>7. CASE IsCompleteMalformed
  BY <1>7 DEF IsCompleteMalformed, TypeData, TypeFlags, TypeApp, appVars
<1>8. CASE IsCompleteIdle
  <2>1. TypeData'
    <3>1. /\ currentRecvBytesQueue' \in Seq(Nat) /\ totalRecvBytesQueue' \in Seq(Nat)
          /\ currentRecvBufQueue' \in Seq(Seq(Chunk))
      BY <1>8, QueueOps DEF IsCompleteIdle, TypeData
    <3>2. recorded' \in Seq([req : Seq(Chunk), resp : Seq(Chunk)])
      <4>1. currentRecvBufQueue # <<>> => Head(currentRecvBufQueue) \in Seq(Chunk)
        BY QueueOps DEF TypeData
      <4>2. CASE currentRecvBufQueue # <<>>
        <5> DEFINE r == [req |-> Head(currentRecvBufQueue), resp |-> SentBuf]
        <5>1. r \in [req : Seq(Chunk), resp : Seq(Chunk)]
          BY <4>1, <4>2 DEF TypeData
        <5>2. Append(recorded, r) \in Seq([req : Seq(Chunk), resp : Seq(Chunk)])
          BY <5>1, QueueOps DEF TypeData
        <5>3. recorded' = Append(recorded, r) \/ recorded' = recorded
          BY <1>8 DEF IsCompleteIdle
        <5>4. QED
          BY <5>2, <5>3 DEF TypeData
      <4>3. CASE currentRecvBufQueue = <<>>
        BY <1>8, <4>3 DEF IsCompleteIdle, TypeData
      <4>4. QED
        BY <4>2, <4>3
    <3>3. /\ sentBytes' = 0 /\ recvBytes' = 0 /\ SentBuf' = <<>> /\ RecvBuf' = <<>>
          /\ UNCHANGED <<totalSentBytesQueue, currentSentBytesQueue,
                         currentSentBufQueue, recordTestCountAtomic>>
      BY Zenon, <1>8 DEF IsCompleteIdle, ResetConnection
    <3>4. QED
      BY <3>1, <3>2, <3>3 DEF TypeData
  <2>2. TypeFlags'
    BY <1>8, FlagsStep DEF IsCompleteIdle, ResetConnection, TypeFlags
  <2>3. TypeApp'
    BY <1>8 DEF IsCompleteIdle, TypeApp, appVars
  <2>4. QED
    BY <2>1, <2>2, <2>3
<1>9. CASE IsCompleteIdleMalformed
  <2>1. TypeData'
    BY <1>9 DEF IsCompleteIdleMalformed, ResetConnection, TypeData
  <2>2. TypeFlags'
    BY <1>9, FlagsStep DEF IsCompleteIdleMalformed, ResetConnection, TypeFlags
  <2>3. TypeApp'
    BY <1>9 DEF IsCompleteIdleMalformed, TypeApp, appVars
  <2>4. QED
    BY <2>1, <2>2, <2>3
<1>10. CASE UNCHANGED vars
  BY <1>10 DEF vars, trackerVars, appVars, TypeData, TypeFlags, TypeApp
<1>11. QED
  BY <1>1, <1>2, <1>3, <1>4, <1>5, <1>6, <1>7, <1>8, <1>9, <1>10 DEF Next

(* The initial state of NewTracker is well typed. *)
LEMMA InitTypeOK == Init => TypeOK
<1> SUFFICES ASSUME Init PROVE TypeOK
  OBVIOUS
<1>1. appReq \in [Exchanges -> Seq(ChunkSize)] /\ appResp \in [Exchanges -> Seq(ChunkSize)]
  BY DEF Init
<1>2. ex \in Exchanges
  BY DEF Init, Exchanges
<1>3. /\ currentSentBufQueue \in Seq(Seq(Chunk)) /\ currentRecvBufQueue \in Seq(Seq(Chunk))
      /\ SentBuf \in Seq(Chunk) /\ RecvBuf \in Seq(Chunk)
      /\ recorded \in Seq([req : Seq(Chunk), resp : Seq(Chunk)])
  BY DEF Init
<1>4. /\ totalSentBytesQueue \in Seq(Nat) /\ totalRecvBytesQueue \in Seq(Nat)
      /\ currentSentBytesQueue \in Seq(Nat) /\ currentRecvBytesQueue \in Seq(Nat)
      /\ sentBytes \in Nat /\ recvBytes \in Nat /\ recordTestCountAtomic \in Nat
      /\ kread \in Nat /\ kwritten \in Nat
  BY DEF Init
<1>5. /\ gotResponseDataEvent \in BOOLEAN /\ gotRequestDataEvent \in BOOLEAN
      /\ firstRequest \in BOOLEAN /\ opened \in BOOLEAN /\ closed \in BOOLEAN
      /\ idle \in BOOLEAN
  BY DEF Init
<1>6. phase \in {"req", "resp"}
  BY DEF Init
<1>7. QED
  BY <1>1, <1>2, <1>3, <1>4, <1>5, <1>6 DEF TypeOK

(***************************************************************************)
(* Type correctness: every reachable state of the tracker and its          *)
(* environment has the types TypeOK states, for all values of the          *)
(* constants.                                                              *)
(***************************************************************************)
THEOREM TypeCorrect == Spec => []TypeOK
  BY InitTypeOK, TypeStep, PTL DEF Spec


-----------------------------------------------------------------------------
(* The length of a popped queue. *)
LEMMA TailLen ==
  ASSUME NEW S, NEW q \in Seq(S), q # <<>>
  PROVE  Len(Tail(q)) = Len(q) - 1 /\ Len(q) \in Nat \ {0}
  OBVIOUS

(* What a read leaves behind: the next request has begun. *)
LEMMA ReadChunkEffect ==
  ASSUME TypeOK, NEW s \in ChunkSize, ReadChunk(s)
  PROVE  /\ ex' \in Exchanges /\ phase' = "req" /\ appReq'[ex'] # <<>>
<1>0. ex \in Exchanges
  BY DEF TypeOK
<1>1. ex' \in Exchanges
  <2>1. CASE ex' = ex
    BY <1>0, <2>1
  <2>2. CASE ex' = ex + 1 /\ ex < MaxExchanges
    BY <1>0, <2>2 DEF Exchanges
  <2>3. QED
    BY <2>1, <2>2 DEF ReadChunk
<1>2. appReq'[ex'] = Append(appReq[ex'], s)
  BY <1>1 DEF ReadChunk, TypeOK
<1>3. appReq[ex'] \in Seq(ChunkSize)
  BY <1>1 DEF TypeOK
<1>4. QED
  BY <1>1, <1>2, <1>3 DEF ReadChunk

(* What a write leaves behind: a response to a request that has been read. *)
LEMMA WriteChunkEffect ==
  ASSUME TypeOK, AppLink, NEW s \in ChunkSize, WriteChunk(s)
  PROVE  /\ phase' = "resp" /\ ex' = ex /\ appReq' = appReq /\ appReq[ex] # <<>>
  BY DEF WriteChunk, AppLink

(* Under IInv the tracker is in one of three states: before the first     *)
(* response (fresh), after a rotated request, or after a rotated response. *)
LEMMA FlagCases ==
  ASSUME TypeOK, FlagsConsistent
  PROVE  \/ firstRequest /\ ~gotRequestDataEvent /\ ~gotResponseDataEvent
         \/ ~firstRequest /\ gotRequestDataEvent /\ ~gotResponseDataEvent
         \/ ~firstRequest /\ ~gotRequestDataEvent /\ gotResponseDataEvent
  BY Zenon DEF TypeOK, FlagsConsistent

(* IInv is preserved by every step when every request is read in one call. *)
LEMMA IInvStep ==
  ASSUME MaxReqChunks = 1, IInv, [Next]_vars
  PROVE  IInv'
<1>0. TypeOK /\ QueuesAligned /\ Lockstep /\ FlagsConsistent /\ AppLink
  BY Zenon DEF IInv
<1>t. TypeOK'
  BY <1>0, TypeStep
<1> SUFFICES QueuesAligned' /\ Lockstep' /\ FlagsConsistent' /\ AppLink'
  BY <1>t, Zenon DEF IInv
<1>1. ASSUME NEW s \in ChunkSize, Ingress(s)
      PROVE  QueuesAligned' /\ Lockstep' /\ FlagsConsistent' /\ AppLink'
  <2>0. /\ ReadChunk(s)
        /\ AddIngressEvent([ex |-> ex', n |-> Len(appReq'[ex']), len |-> Kept(s)], s, kwritten)
    BY <1>1 DEF Ingress
  <2>1. ex' \in Exchanges /\ phase' = "req" /\ appReq'[ex'] # <<>>
    BY <2>0, <1>0, ReadChunkEffect
  <2>2. CASE firstRequest \/ ~gotResponseDataEvent
    \* A read before any response, or on a reset tracker: nothing rotates.
    <3>1. ~(~firstRequest \/ gotResponseDataEvent)
      <4>1. CASE phase = "req" /\ Len(appReq[ex]) < MaxReqChunks
        <5>1. appReq[ex] = <<>>
          BY <4>1, <1>0 DEF TypeOK
        <5>2. QED
          BY <5>1, <1>0, Zenon DEF AppLink
      <4>2. CASE phase = "resp"
        <5>1. ~gotRequestDataEvent
          BY <4>2, <1>0 DEF AppLink
        <5>2. QED
          BY <5>1, <2>2, <1>0, FlagCases
      <4>3. QED
        BY <2>0, <4>1, <4>2 DEF ReadChunk
    <3>2. /\ UNCHANGED <<currentSentBytesQueue, totalSentBytesQueue, recordTestCountAtomic,
                        gotRequestDataEvent, gotResponseDataEvent, firstRequest,
                        currentRecvBytesQueue, totalRecvBytesQueue>>
      BY <2>0, <3>1, Zenon DEF AddIngressEvent
    <3>3. QueuesAligned' /\ Lockstep'
      BY <3>2, <1>0 DEF QueuesAligned, Lockstep
    <3>4. FlagsConsistent'
      BY <3>2, <1>0, Zenon DEF FlagsConsistent
    <3>5. AppLink'
      BY <3>1, <3>2, <2>1, <1>0, FlagCases, Zenon DEF AppLink
    <3>6. QED
      BY <3>3, <3>4, <3>5
  <2>3. CASE ~firstRequest /\ gotResponseDataEvent
    \* The next request after a response: the response rotates.
    <3>1. /\ currentSentBytesQueue' = Append(currentSentBytesQueue, sentBytes)
          /\ totalSentBytesQueue' = Append(totalSentBytesQueue, kwritten)
          /\ recordTestCountAtomic' = recordTestCountAtomic + 1
          /\ gotRequestDataEvent' = TRUE /\ gotResponseDataEvent' = FALSE
          /\ UNCHANGED <<firstRequest, currentRecvBytesQueue, totalRecvBytesQueue>>
      BY <2>0, <2>3, Zenon DEF AddIngressEvent
    <3>2. Len(currentRecvBytesQueue) = recordTestCountAtomic + 1
      BY <2>3, <1>0 DEF QueuesAligned
    <3>3. QueuesAligned' /\ Lockstep'
      BY <3>1, <3>2, <1>0 DEF QueuesAligned, Lockstep, TypeOK
    <3>4. FlagsConsistent'
      BY <3>1, <2>3, Zenon DEF FlagsConsistent
    <3>5. AppLink'
      BY <3>1, <2>1, Zenon DEF AppLink
    <3>6. QED
      BY <3>3, <3>4, <3>5
  <2>4. QED
    BY <2>2, <2>3
<1>2. ASSUME NEW s \in ChunkSize, Egress(s)
      PROVE  QueuesAligned' /\ Lockstep' /\ FlagsConsistent' /\ AppLink'
  <2>0. /\ WriteChunk(s)
        /\ AddEgressEvent([ex |-> ex, n |-> Len(appResp'[ex]), len |-> Kept(s)], s, kread)
    BY <1>2 DEF Egress
  <2>1. phase' = "resp" /\ ex' = ex /\ appReq' = appReq /\ appReq[ex] # <<>>
    BY <2>0, <1>0, WriteChunkEffect
  <2>2. CASE firstRequest \/ gotRequestDataEvent
    \* The first response chunk after a request: the request rotates.
    <3>1. /\ currentRecvBytesQueue' = Append(currentRecvBytesQueue, recvBytes)
          /\ totalRecvBytesQueue' = Append(totalRecvBytesQueue, kread)
          /\ gotRequestDataEvent' = FALSE /\ gotResponseDataEvent' = TRUE
          /\ firstRequest' = FALSE
          /\ UNCHANGED <<currentSentBytesQueue, totalSentBytesQueue, recordTestCountAtomic>>
      BY <2>0, <2>2, Zenon DEF AddEgressEvent
    <3>2. ~gotResponseDataEvent
      BY <2>2, <1>0, FlagCases
    <3>3. Len(currentRecvBytesQueue) = recordTestCountAtomic
      BY <3>2, <1>0 DEF QueuesAligned
    <3>4. QueuesAligned' /\ Lockstep'
      BY <3>1, <3>3, <1>0 DEF QueuesAligned, Lockstep, TypeOK
    <3>5. FlagsConsistent'
      BY <3>1, Zenon DEF FlagsConsistent
    <3>6. AppLink'
      BY <3>1, <2>1, Zenon DEF AppLink
    <3>7. QED
      BY <3>4, <3>5, <3>6
  <2>3. CASE ~firstRequest /\ ~gotRequestDataEvent
    \* More of the response: nothing rotates.
    <3>1. UNCHANGED <<currentSentBytesQueue, totalSentBytesQueue, recordTestCountAtomic,
                      gotRequestDataEvent, gotResponseDataEvent, firstRequest,
                      currentRecvBytesQueue, totalRecvBytesQueue>>
      BY <2>0, <2>3, Zenon DEF AddEgressEvent
    <3>2. QueuesAligned' /\ Lockstep'
      BY <3>1, <1>0 DEF QueuesAligned, Lockstep
    <3>3. FlagsConsistent'
      BY <3>1, <1>0, Zenon DEF FlagsConsistent
    <3>4. AppLink'
      BY <3>1, <2>1, <2>3, Zenon DEF AppLink
    <3>5. QED
      BY <3>2, <3>3, <3>4
  <2>4. QED
    BY <2>2, <2>3
<1>3. CASE AddOpenEvent \/ AddCloseEvent \/ Tick \/ UNCHANGED vars
  <2>1. UNCHANGED <<totalSentBytesQueue, totalRecvBytesQueue, currentSentBytesQueue,
                    currentRecvBytesQueue, recordTestCountAtomic, gotResponseDataEvent,
                    gotRequestDataEvent, firstRequest, ex, phase, appReq>>
    BY <1>3 DEF AddOpenEvent, AddCloseEvent, Tick, vars, trackerVars, appVars
  <2>2. QED
    BY <2>1, <1>0 DEF QueuesAligned, Lockstep, FlagsConsistent, AppLink
<1>4. CASE IsCompleteQueued
  <2>1. /\ currentSentBytesQueue # <<>> /\ totalSentBytesQueue # <<>>
        /\ currentRecvBytesQueue # <<>> /\ totalRecvBytesQueue # <<>>
        /\ recordTestCountAtomic > 0
    BY <1>4 DEF IsCompleteQueued, QueuesPresent
  <2>2. /\ currentSentBytesQueue' = Tail(currentSentBytesQueue)
        /\ totalSentBytesQueue' = Tail(totalSentBytesQueue)
        /\ currentRecvBytesQueue' = Tail(currentRecvBytesQueue)
        /\ totalRecvBytesQueue' = Tail(totalRecvBytesQueue)
        /\ recordTestCountAtomic' = recordTestCountAtomic - 1
        /\ UNCHANGED <<gotResponseDataEvent, gotRequestDataEvent, firstRequest,
                       ex, phase, appReq>>
    BY <1>4 DEF IsCompleteQueued, appVars
  <2>3. /\ Len(currentSentBytesQueue') = Len(currentSentBytesQueue) - 1
        /\ Len(totalSentBytesQueue') = Len(totalSentBytesQueue) - 1
        /\ Len(currentRecvBytesQueue') = Len(currentRecvBytesQueue) - 1
        /\ Len(totalRecvBytesQueue') = Len(totalRecvBytesQueue) - 1
    BY <2>1, <2>2, <1>0, TailLen DEF TypeOK
  <2>4. gotResponseDataEvent' = gotResponseDataEvent
    BY <2>2
  <2>5. gotResponseDataEvent => QueuesAligned' /\ Lockstep'
    BY <2>3, <2>4, <2>2, <1>0 DEF QueuesAligned, Lockstep
  <2>6. ~gotResponseDataEvent => QueuesAligned' /\ Lockstep'
    BY <2>3, <2>4, <2>2, <1>0 DEF QueuesAligned, Lockstep
  <2>8. QueuesAligned' /\ Lockstep'
    BY <2>5, <2>6
  <2>9. QED
    BY <2>2, <2>8, <1>0 DEF FlagsConsistent, AppLink
<1>5. CASE IsCompleteMalformed
  \* Never enabled: a positive counter means every queue holds an entry.
  <2>1. recordTestCountAtomic > 0 /\ ~QueuesPresent
    BY <1>5 DEF IsCompleteMalformed
  <2>2. QueuesPresent
    BY <2>1, <1>0 DEF QueuesAligned, Lockstep, QueuesPresent, TypeOK
  <2>3. QED
    BY <2>1, <2>2
<1>6. CASE IsCompleteIdle
  <2>1. /\ recordTestCountAtomic = 0 /\ gotResponseDataEvent
        /\ currentRecvBytesQueue # <<>> /\ totalRecvBytesQueue # <<>>
    BY <1>6, <1>0 DEF IsCompleteIdle, TypeOK
  <2>2. /\ currentRecvBytesQueue' = Tail(currentRecvBytesQueue)
        /\ totalRecvBytesQueue' = Tail(totalRecvBytesQueue)
        /\ firstRequest' = TRUE /\ gotResponseDataEvent' = FALSE
        /\ gotRequestDataEvent' = FALSE
        /\ UNCHANGED <<totalSentBytesQueue, currentSentBytesQueue, recordTestCountAtomic,
                       ex, phase, appReq>>
    BY <1>6 DEF IsCompleteIdle, ResetConnection, appVars
  <2>3. Len(currentRecvBytesQueue) = 1 /\ Len(currentSentBytesQueue) = 0
    BY <2>1, <1>0 DEF QueuesAligned
  <2>4. QueuesAligned' /\ Lockstep'
    <3>1. Len(currentRecvBytesQueue') = 0 /\ Len(totalRecvBytesQueue') = Len(totalRecvBytesQueue) - 1
      BY <2>1, <2>2, <2>3, <1>0, TailLen DEF TypeOK
    <3>2. /\ Len(totalRecvBytesQueue') = 0 /\ recordTestCountAtomic' = 0
          /\ Len(currentSentBytesQueue') = 0 /\ Len(totalSentBytesQueue') = 0
      BY <2>1, <2>2, <2>3, <3>1, <1>0 DEF Lockstep
    <3>3. (IF gotResponseDataEvent' THEN 1 ELSE 0) = 0
      BY <2>2
    <3>4. QED
      BY <3>1, <3>2, <3>3 DEF QueuesAligned, Lockstep
  <2>5. FlagsConsistent' /\ AppLink'
    BY <2>2, <1>0, Zenon DEF FlagsConsistent, AppLink
  <2>6. QED
    BY <2>4, <2>5
<1>7. CASE IsCompleteIdleMalformed
  \* Never enabled: an assembled response means its request is queued.
  <2>1. /\ recordTestCountAtomic = 0 /\ gotResponseDataEvent
        /\ ~(currentRecvBytesQueue # <<>> /\ totalRecvBytesQueue # <<>>)
    BY <1>7, <1>0 DEF IsCompleteIdleMalformed, TypeOK
  <2>2. Len(currentRecvBytesQueue) = 1 /\ Len(totalRecvBytesQueue) = 1
    BY <2>1, <1>0 DEF QueuesAligned, Lockstep
  <2>3. QED
    BY <2>1, <2>2, <1>0 DEF TypeOK
<1>8. QED
  BY <1>1, <1>2, <1>3, <1>4, <1>5, <1>6, <1>7 DEF Next

(***************************************************************************)
(* When every request reaches the application in a single read, the       *)
(* queues AddDataEvent fills and IsComplete drains stay aligned with       *)
(* recordTestCountAtomic, for every value of the other constants: the     *)
(* malformed branches of IsComplete are never taken and every handed-out  *)
(* pair is popped from the same position of the request and response     *)
(* queues.                                                                 *)
(***************************************************************************)
THEOREM QueuesAlignedTheorem ==
  ASSUME MaxReqChunks = 1
  PROVE  Spec => []QueuesAligned
<1>1. Init => IInv
  <2> SUFFICES ASSUME Init PROVE IInv
    OBVIOUS
  <2>1. TypeOK
    BY InitTypeOK
  <2>2. QueuesAligned /\ Lockstep
    BY DEF Init, QueuesAligned, Lockstep
  <2>3. FlagsConsistent /\ AppLink
    BY Zenon DEF Init, FlagsConsistent, AppLink, Exchanges
  <2>4. QED
    BY <2>1, <2>2, <2>3 DEF IInv
<1>2. IInv /\ [Next]_vars => IInv'
  BY IInvStep
<1>3. IInv => QueuesAligned
  BY DEF IInv
<1>4. QED
  BY <1>1, <1>2, <1>3, PTL DEF Spec
=============================================================================
