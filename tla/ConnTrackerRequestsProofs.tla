---------------------- MODULE ConnTrackerRequestsProofs ----------------------
(***************************************************************************)
(* Proof that every request IsComplete hands out is the whole request of  *)
(* one exchange (RecordedRequestsFaithful), for every value of the         *)
(* constants and any number of reads per request, when every chunk fits in *)
(* a data event.  A read never moves where a request is cut: RecvBuf is    *)
(* rotated only by the first response chunk, so it holds exactly the       *)
(* current request however many reads it took, and the byte-count check   *)
(* rejects the empty request rotated after an idle reset.                  *)
(***************************************************************************)
EXTENDS ConnTrackerFaithfulProofs

(* The exchange being assembled, on the request side: while its request is *)
(* read RecvBuf is exactly it and recvBytes the kernel's count; once its   *)
(* response is written, RecvBuf is empty and the kernel has counted bytes. *)
ReqAssembling ==
  /\ gotResponseDataEvent => phase = "resp"
  /\ phase = "req" =>
       /\ RecvBuf = ReqChunks(ex) /\ recvBytes = kread
       /\ (appReq[ex] # <<>> => kread >= 1)
  /\ phase = "resp" => RecvBuf = <<>> /\ recvBytes = 0 /\ kread >= 1

(* rq is the whole request of an exchange that no read will extend. *)
WholeRequest(rq) ==
  \E i \in 1 .. ex : rq = ReqChunks(i) /\ (i = ex => phase = "resp")

(* Every queued request whose byte counts agree is a whole request. *)
ReqQueued ==
  \A j \in 1 .. Len(currentRecvBufQueue) :
    currentRecvBytesQueue[j] = totalRecvBytesQueue[j] => WholeRequest(currentRecvBufQueue[j])

(* Every recorded request is a whole request. *)
ReqRecorded == \A k \in 1 .. Len(recorded) : WholeRequest(recorded[k].req)

RInv ==
  /\ TypeOK /\ FlagsConsistent /\ Future /\ Lockstep /\ BufLockstep
  /\ ReqAssembling /\ ReqQueued /\ ReqRecorded
-----------------------------------------------------------------------------
USE ChunkSizeAssumption, MaxSizeAssumption, BoundsAssumption

(* The conjuncts RInv adds to TypeOK. *)
RRest ==
  /\ FlagsConsistent /\ Future /\ Lockstep /\ BufLockstep
  /\ ReqAssembling /\ ReqQueued /\ ReqRecorded

(* RInv in its parts. *)
LEMMA RInvParts ==
  RInv <=> /\ TypeOK /\ FlagsConsistent /\ Future /\ Lockstep /\ BufLockstep
           /\ ReqAssembling /\ ReqQueued /\ ReqRecorded
  BY Zenon DEF RInv

(* A whole request stays one when the step keeps every request no read    *)
(* will extend, and does not return to reading the current exchange.       *)
LEMMA WholeKept ==
  ASSUME NEW rq, WholeRequest(rq), ex \in Nat, ex' \in Nat, ex' >= ex,
         \A i \in 1 .. ex : (i = ex => phase = "resp") => ReqChunks(i)' = ReqChunks(i),
         phase = "resp" /\ ex' = ex => phase' = "resp"
  PROVE  WholeRequest(rq)'
<1>1. PICK i \in 1 .. ex : rq = ReqChunks(i) /\ (i = ex => phase = "resp")
  BY DEF WholeRequest
<1>2. PICK e \in Nat : e = ex' /\ e >= ex
  BY Zenon
<1>3. i \in 1 .. e /\ (i = e => e = ex)
  BY <1>1, <1>2
<1>4. rq = ReqChunks(i)'
  BY <1>1
<1>5. i = e => phase' = "resp"
  BY <1>1, <1>2, <1>3
<1>6. QED
  BY <1>2, <1>3, <1>4, <1>5, Zenon DEF WholeRequest

(* A read continues the current request or begins the next one; RecvBuf   *)
(* grows with the request, and no queued or recorded request changes.     *)
LEMMA ReqIngressStep ==
  ASSUME ChunksFit, RInv, NEW s \in ChunkSize, Ingress(s)
  PROVE  RRest'
<1>0. /\ TypeOK /\ FlagsConsistent /\ Future /\ Lockstep /\ BufLockstep
      /\ ReqAssembling /\ ReqQueued /\ ReqRecorded
  BY RInvParts
<1>a. TypeData /\ TypeApp /\ TypeFlags
  BY <1>0, Zenon DEF TypeOK, TypeData, TypeApp, TypeFlags
<1> USE <1>a
<1> DEFINE c == [ex |-> ex', n |-> Len(appReq'[ex']), len |-> Kept(s)]
           rot == ~firstRequest \/ gotResponseDataEvent
<1>1. ReadChunk(s) /\ AddIngressEvent(c, s, kwritten) /\ UNCHANGED recorded
  BY DEF Ingress
<1>2. s \in Nat \ {0} /\ Kept(s) = s
  BY DEF ChunksFit, Kept
<1>3. /\ ex' \in Exchanges /\ ex' >= ex /\ phase' = "req"
      /\ appReq' = [appReq EXCEPT ![ex'] = Append(@, s)]
      /\ UNCHANGED <<appResp, kwritten>>
      /\ phase = "req" => ex' = ex /\ kread' = kread + s
      /\ phase = "resp" => ex' = ex + 1 /\ kread' = s
  <2>1. ex' \in Exchanges
    BY <1>0, <1>1, ReadChunkEffect
  <2>2. phase' = "req" /\ appReq' = [appReq EXCEPT ![ex'] = Append(@, s)]
        /\ UNCHANGED <<appResp, kwritten>>
    BY <1>1 DEF ReadChunk
  <2>3. phase = "req" => ex' = ex /\ kread' = kread + s
    BY <1>1 DEF ReadChunk
  <2>4. phase = "resp" => ex' = ex + 1 /\ kread' = s
    BY <1>1 DEF ReadChunk
  <2>5. ex' >= ex
    BY <2>3, <2>4 DEF TypeApp, Exchanges
  <2>6. QED
    BY <2>1, <2>2, <2>3, <2>4, <2>5
<1>4. ex \in Nat /\ ex' \in Nat /\ appReq[ex'] \in Seq(Nat)
  BY <1>3, SeqOfChunkSizes DEF TypeApp, Exchanges
<1>5. RecvBuf' = ReqChunks(ex)'
  <2>1. appReq'[ex'] = Append(appReq[ex'], s)
    BY <1>3 DEF TypeApp
  <2>2. RecvBuf = ReqChunks(ex')
    <3>1. CASE phase = "req"
      BY <3>1, <1>0, <1>3 DEF ReqAssembling
    <3>2. CASE phase = "resp"
      <4>1. appReq[ex'] = <<>>
        BY <3>2, <1>0, <1>3 DEF Future, TypeApp, Exchanges
      <4>2. QED
        BY <4>1, <3>2, <1>0 DEF ReqAssembling, ReqChunks
    <3>3. QED
      BY <3>1, <3>2 DEF TypeApp
  <2>3. ReqChunks(ex)' = Append(ReqChunks(ex'), [ex |-> ex', n |-> Len(appReq[ex']) + 1, len |-> s])
    <3>1. Chunks(ex', Append(appReq[ex'], s))
            = Append(Chunks(ex', appReq[ex']), [ex |-> ex', n |-> Len(appReq[ex']) + 1, len |-> s])
      BY <1>4, <1>2, ChunksAppend
    <3>2. ReqChunks(ex)' = Chunks(ex', Append(appReq[ex'], s))
      BY <2>1 DEF ReqChunks, Chunks
    <3>3. ReqChunks(ex') = Chunks(ex', appReq[ex'])
      BY DEF ReqChunks, Chunks
    <3>4. QED
      BY <3>1, <3>2, <3>3
  <2>4. RecvBuf' = Append(RecvBuf, [ex |-> ex', n |-> Len(appReq[ex']) + 1, len |-> s])
    <3>1. c = [ex |-> ex', n |-> Len(appReq[ex']) + 1, len |-> s]
      BY <1>2, <1>4, <2>1
    <3>2. QED
      BY <1>1, <3>1 DEF AddIngressEvent
  <2>5. QED
    BY <2>2, <2>3, <2>4
<1>6. recvBytes' = kread' /\ kread' >= 1
  <2>1. recvBytes' = recvBytes + s
    BY <1>1 DEF AddIngressEvent
  <2>2. CASE phase = "req"
    BY <2>1, <2>2, <1>0, <1>2, <1>3 DEF ReqAssembling, TypeApp
  <2>3. CASE phase = "resp"
    BY <2>1, <2>3, <1>0, <1>2, <1>3 DEF ReqAssembling
  <2>4. QED
    BY <2>2, <2>3 DEF TypeApp
<1>7. /\ rot => /\ gotRequestDataEvent' = TRUE /\ gotResponseDataEvent' = FALSE
                /\ ~firstRequest /\ firstRequest' = firstRequest
                /\ currentSentBufQueue' = Append(currentSentBufQueue, SentBuf)
                /\ currentSentBytesQueue' = Append(currentSentBytesQueue, sentBytes)
                /\ totalSentBytesQueue' = Append(totalSentBytesQueue, kwritten)
      /\ ~rot => UNCHANGED <<gotRequestDataEvent, gotResponseDataEvent, firstRequest,
                             currentSentBufQueue, currentSentBytesQueue, totalSentBytesQueue>>
                 /\ ~gotResponseDataEvent
      /\ UNCHANGED <<currentRecvBufQueue, currentRecvBytesQueue, totalRecvBytesQueue>>
  <2>1. firstRequest => ~gotResponseDataEvent
    BY <1>0 DEF FlagsConsistent
  <2>2. QED
    BY <1>1, <2>1 DEF AddIngressEvent
<1>8. ReqAssembling'
  <2>1. gotResponseDataEvent' = FALSE
    BY <1>7
  <2>2. QED
    BY <2>1, <1>3, <1>5, <1>6 DEF ReqAssembling
<1>9. FlagsConsistent'
  <2>1. CASE rot
    BY <2>1, <1>7 DEF FlagsConsistent
  <2>2. CASE ~rot
    BY <2>2, <1>7, <1>0 DEF FlagsConsistent
  <2>3. QED
    BY <2>1, <2>2
<1>10. Lockstep' /\ BufLockstep'
  <2>1. CASE rot
    BY <2>1, <1>7, <1>0 DEF Lockstep, BufLockstep
  <2>2. CASE ~rot
    BY <2>2, <1>7, <1>0 DEF Lockstep, BufLockstep
  <2>3. QED
    BY <2>1, <2>2
<1>11. Future'
  <2>1. SUFFICES ASSUME NEW i \in Exchanges, i > ex'
                 PROVE  appReq'[i] = <<>> /\ appResp'[i] = <<>>
    BY DEF Future
  <2>2. i > ex /\ i # ex'
    BY <1>4, <1>3, <2>1 DEF Exchanges
  <2>3. appReq'[i] = appReq[i] /\ appResp'[i] = appResp[i]
    BY <2>1, <2>2, <1>3 DEF TypeApp
  <2>4. QED
    BY <2>1, <2>2, <2>3, <1>0 DEF Future
<1>12. \A i \in 1 .. ex : (i = ex => phase = "resp") => ReqChunks(i)' = ReqChunks(i)
  <2>1. SUFFICES ASSUME NEW i \in 1 .. ex, i = ex => phase = "resp"
                 PROVE  ReqChunks(i)' = ReqChunks(i)
    OBVIOUS
  <2>2. i \in Exchanges /\ i # ex'
    <3>1. i \in Nat /\ 1 <= i /\ i <= ex /\ i \in Exchanges
      BY DEF TypeApp, Exchanges
    <3>2. PICK e \in Nat : e = ex'
      BY <1>4, Zenon
    <3>3. CASE phase = "req"
      <4>1. e = ex /\ i # ex
        BY <2>1, <3>2, <3>3, <1>3
      <4>2. QED
        BY <3>1, <3>2, <4>1, Zenon
    <3>4. CASE phase = "resp"
      <4>1. e = ex + 1
        BY <3>2, <3>4, <1>3, Zenon
      <4>2. i # ex + 1
        BY <3>1, <1>4
      <4>3. QED
        BY <3>1, <3>2, <4>1, <4>2, Zenon
    <3>5. QED
      BY <3>3, <3>4 DEF TypeApp
  <2>3. QED
    BY <2>2, <1>3 DEF ReqChunks, TypeApp
<1>13. \A rq : WholeRequest(rq) => WholeRequest(rq)'
  <2>1. SUFFICES ASSUME NEW rq, WholeRequest(rq) PROVE WholeRequest(rq)'
    OBVIOUS
  <2>2. phase = "resp" /\ ex' = ex => phase' = "resp"
    BY <1>3, <1>4
  <2>3. QED
    BY <2>1, <2>2, <1>3, <1>4, <1>12, WholeKept
<1>14. ReqQueued'
  <2>1. SUFFICES ASSUME NEW j \in 1 .. Len(currentRecvBufQueue'),
                        currentRecvBytesQueue'[j] = totalRecvBytesQueue'[j]
                 PROVE  WholeRequest(currentRecvBufQueue[j])'
    BY DEF ReqQueued
  <2>2. WholeRequest(currentRecvBufQueue[j])
    BY <2>1, <1>7, <1>0 DEF ReqQueued
  <2>3. QED
    BY <2>2, <1>7, <1>13
<1>15. ReqRecorded'
  <2>1. SUFFICES ASSUME NEW k \in 1 .. Len(recorded')
                 PROVE  WholeRequest(recorded[k].req)'
    BY DEF ReqRecorded
  <2>2. WholeRequest(recorded[k].req)
    BY <2>1, <1>1, <1>0 DEF ReqRecorded
  <2>3. QED
    BY <2>2, <1>1, <1>13
<1>16. QED
  BY <1>8, <1>9, <1>10, <1>11, <1>14, <1>15 DEF RRest

(* A write adds to the current exchange's response.  The first write after *)
(* a request rotates RecvBuf, which holds that whole request and whose      *)
(* count agrees; the first write after an idle reset rotates an empty      *)
(* RecvBuf, whose count 0 cannot agree with the kernel's.                  *)
LEMMA ReqEgressStep ==
  ASSUME RInv, NEW s \in ChunkSize, Egress(s)
  PROVE  RRest'
<1>0. /\ TypeOK /\ FlagsConsistent /\ Future /\ Lockstep /\ BufLockstep
      /\ ReqAssembling /\ ReqQueued /\ ReqRecorded
  BY RInvParts
<1>a. TypeData /\ TypeApp /\ TypeFlags
  BY <1>0, Zenon DEF TypeOK, TypeData, TypeApp, TypeFlags
<1> USE <1>a
<1> DEFINE c == [ex |-> ex, n |-> Len(appResp'[ex]), len |-> Kept(s)]
           rot == firstRequest \/ gotRequestDataEvent
<1>1. WriteChunk(s) /\ AddEgressEvent(c, s, kread) /\ UNCHANGED recorded
  BY DEF Egress
<1>2. /\ ex' = ex /\ appReq' = appReq /\ kread' = kread /\ phase' = "resp"
      /\ appResp' = [appResp EXCEPT ![ex] = Append(@, s)]
      /\ phase = "req" => appReq[ex] # <<>>
  BY <1>1 DEF WriteChunk
<1>3. /\ rot => /\ currentRecvBufQueue' = Append(currentRecvBufQueue, RecvBuf)
                /\ currentRecvBytesQueue' = Append(currentRecvBytesQueue, recvBytes)
                /\ totalRecvBytesQueue' = Append(totalRecvBytesQueue, kread)
                /\ RecvBuf' = <<>> /\ recvBytes' = 0
                /\ gotResponseDataEvent' = TRUE /\ gotRequestDataEvent' = FALSE
                /\ firstRequest' = FALSE
      /\ ~rot => UNCHANGED <<currentRecvBufQueue, currentRecvBytesQueue, totalRecvBytesQueue,
                             RecvBuf, recvBytes, gotResponseDataEvent,
                             gotRequestDataEvent, firstRequest>>
      /\ UNCHANGED <<currentSentBufQueue, currentSentBytesQueue, totalSentBytesQueue>>
  BY <1>1 DEF AddEgressEvent
<1>4. kread >= 1 /\ (phase = "resp" => RecvBuf = <<>> /\ recvBytes = 0)
  <2>1. CASE phase = "req"
    BY <2>1, <1>0, <1>2 DEF ReqAssembling
  <2>2. CASE phase = "resp"
    BY <2>2, <1>0 DEF ReqAssembling
  <2>3. QED
    BY <2>1, <2>2 DEF TypeApp
<1>5. ~rot => phase = "resp"
  BY <1>0, Zenon DEF FlagsConsistent, ReqAssembling, TypeFlags
<1>6. ReqAssembling'
  <2>1. CASE rot
    BY <2>1, <1>2, <1>3, <1>4 DEF ReqAssembling
  <2>2. CASE ~rot
    BY <2>2, <1>2, <1>3, <1>4, <1>5 DEF ReqAssembling
  <2>3. QED
    BY <2>1, <2>2
<1>7. FlagsConsistent'
  <2>1. CASE rot
    BY <2>1, <1>3 DEF FlagsConsistent
  <2>2. CASE ~rot
    BY <2>2, <1>3, <1>0 DEF FlagsConsistent
  <2>3. QED
    BY <2>1, <2>2
<1>8. Lockstep' /\ BufLockstep'
  <2>1. CASE rot
    BY <2>1, <1>3, <1>0 DEF Lockstep, BufLockstep
  <2>2. CASE ~rot
    BY <2>2, <1>3, <1>0 DEF Lockstep, BufLockstep
  <2>3. QED
    BY <2>1, <2>2
<1>9. Future'
  <2>1. SUFFICES ASSUME NEW i \in Exchanges, i > ex'
                 PROVE  appReq'[i] = <<>> /\ appResp'[i] = <<>>
    BY DEF Future
  <2>2. i > ex /\ i # ex
    BY <2>1, <1>2 DEF TypeApp, Exchanges
  <2>3. QED
    BY <2>1, <2>2, <1>2, <1>0 DEF Future, TypeApp
<1>10. \A rq : WholeRequest(rq) => WholeRequest(rq)'
  <2>1. SUFFICES ASSUME NEW rq, WholeRequest(rq) PROVE WholeRequest(rq)'
    OBVIOUS
  <2>2. \A i \in 1 .. ex : (i = ex => phase = "resp") => ReqChunks(i)' = ReqChunks(i)
    BY <1>2 DEF ReqChunks
  <2>3. ex \in Nat /\ ex' \in Nat /\ ex' >= ex
    BY <1>2 DEF TypeApp, Exchanges
  <2>4. QED
    BY <2>1, <2>2, <2>3, <1>2, WholeKept
<1>11. ReqQueued'
  <2>1. SUFFICES ASSUME NEW j \in 1 .. Len(currentRecvBufQueue'),
                        currentRecvBytesQueue'[j] = totalRecvBytesQueue'[j]
                 PROVE  WholeRequest(currentRecvBufQueue[j])'
    BY DEF ReqQueued
  <2>2. CASE ~rot
    <3>1. WholeRequest(currentRecvBufQueue[j])
      BY <2>1, <2>2, <1>3, <1>0 DEF ReqQueued
    <3>2. QED
      BY <3>1, <2>2, <1>3, <1>10
  <2>3. CASE rot
    <3> DEFINE L == Len(currentRecvBufQueue)
    <3>1. /\ Len(currentRecvBufQueue') = L + 1 /\ L \in Nat
          /\ L = Len(currentRecvBytesQueue) /\ L = Len(totalRecvBytesQueue)
      BY <2>3, <1>3, <1>0 DEF Lockstep, BufLockstep
    <3>2. CASE j <= L
      <4>1. /\ Append(currentRecvBufQueue, RecvBuf)[j] = currentRecvBufQueue[j]
            /\ Append(currentRecvBytesQueue, recvBytes)[j] = currentRecvBytesQueue[j]
            /\ Append(totalRecvBytesQueue, kread)[j] = totalRecvBytesQueue[j]
        <5>1. j \in 1 .. L /\ j \in 1 .. Len(currentRecvBytesQueue)
              /\ j \in 1 .. Len(totalRecvBytesQueue)
          BY <3>1, <3>2
        <5>2. Append(currentRecvBufQueue, RecvBuf)[j] = currentRecvBufQueue[j]
          BY <5>1 DEF TypeData
        <5>3. Append(currentRecvBytesQueue, recvBytes)[j] = currentRecvBytesQueue[j]
          BY <5>1 DEF TypeData
        <5>4. Append(totalRecvBytesQueue, kread)[j] = totalRecvBytesQueue[j]
          BY <5>1 DEF TypeData
        <5>5. QED
          BY <5>2, <5>3, <5>4
      <4>2. /\ currentRecvBufQueue'[j] = currentRecvBufQueue[j]
            /\ currentRecvBytesQueue[j] = totalRecvBytesQueue[j]
        BY <2>1, <2>3, <4>1, <1>3, Zenon
      <4>3. WholeRequest(currentRecvBufQueue[j])
        BY <2>1, <3>2, <4>2, <1>0 DEF ReqQueued
      <4>4. QED
        BY <4>2, <4>3, <1>10
    <3>3. CASE j = L + 1
      <4>1. /\ Append(currentRecvBufQueue, RecvBuf)[L + 1] = RecvBuf
            /\ Append(currentRecvBytesQueue, recvBytes)[L + 1] = recvBytes
            /\ Append(totalRecvBytesQueue, kread)[L + 1] = kread
        <5>1. Append(currentRecvBufQueue, RecvBuf)[L + 1] = RecvBuf
          BY DEF TypeData
        <5>2. Append(currentRecvBytesQueue, recvBytes)[Len(currentRecvBytesQueue) + 1] = recvBytes
          BY DEF TypeData
        <5>3. Append(totalRecvBytesQueue, kread)[Len(totalRecvBytesQueue) + 1] = kread
          BY DEF TypeData
        <5>4. QED
          BY <5>1, <5>2, <5>3, <3>1, Zenon
      <4>2. currentRecvBufQueue'[j] = RecvBuf /\ recvBytes = kread
        BY <2>1, <2>3, <3>3, <4>1, <1>3, Zenon
      <4>3. phase = "req"
        BY <4>2, <1>4 DEF TypeApp
      <4>4. RecvBuf = ReqChunks(ex)
        BY <4>3, <1>0 DEF ReqAssembling
      <4>5. PICK rq : rq = RecvBuf
        OBVIOUS
      <4>6. ReqChunks(ex)' = ReqChunks(ex) /\ ex \in 1 .. ex
        BY <1>2 DEF ReqChunks, TypeApp, Exchanges
      <4>7. WholeRequest(rq)'
        BY <4>4, <4>5, <4>6, <1>2, Zenon DEF WholeRequest
      <4>8. QED
        BY <4>2, <4>5, <4>7
    <3>4. QED
      BY <2>1, <3>1, <3>2, <3>3
  <2>4. QED
    BY <2>2, <2>3
<1>12. ReqRecorded'
  <2>1. SUFFICES ASSUME NEW k \in 1 .. Len(recorded')
                 PROVE  WholeRequest(recorded[k].req)'
    BY DEF ReqRecorded
  <2>2. WholeRequest(recorded[k].req)
    BY <2>1, <1>1, <1>0 DEF ReqRecorded
  <2>3. QED
    BY <2>2, <1>1, <1>10
<1>13. QED
  BY <1>6, <1>7, <1>8, <1>9, <1>11, <1>12 DEF RRest

(* Whether a request is whole depends only on the application's requests *)
(* and where it is.                                                        *)
LEMMA WholeStable ==
  ASSUME UNCHANGED <<ex, phase, appReq>>
  PROVE  \A rq : WholeRequest(rq)' = WholeRequest(rq)
BY DEF WholeRequest, ReqChunks

(* Popping the head of the three request queues keeps ReqQueued, and the  *)
(* popped request is whole when its counts agree.                          *)
LEMMA PopRequest ==
  ASSUME TypeData, BufLockstep, Lockstep, ReqQueued,
         currentRecvBytesQueue # <<>>,
         currentRecvBufQueue' = Tail(currentRecvBufQueue),
         currentRecvBytesQueue' = Tail(currentRecvBytesQueue),
         totalRecvBytesQueue' = Tail(totalRecvBytesQueue),
         UNCHANGED <<ex, phase, appReq>>
  PROVE  /\ ReqQueued'
         /\ currentRecvBufQueue # <<>>
         /\ \A rq : rq = Head(currentRecvBufQueue)
                    /\ Head(currentRecvBytesQueue) = Head(totalRecvBytesQueue)
                    => WholeRequest(rq)'
<1> DEFINE R == currentRecvBufQueue
           RB == currentRecvBytesQueue
           RT == totalRecvBytesQueue
<1>1. Len(R) = Len(RB) /\ Len(RT) = Len(RB) /\ Len(RB) \in Nat \ {0} /\ R # <<>>
  BY DEF TypeData, BufLockstep, Lockstep
<1>2. \A rq : WholeRequest(rq)' = WholeRequest(rq)
  BY WholeStable
<1>3. ReqQueued'
  <2>1. SUFFICES ASSUME NEW j \in 1 .. Len(R'), RB'[j] = RT'[j]
                 PROVE  WholeRequest(R[j])'
    BY DEF ReqQueued
  <2>2. j \in 1 .. Len(R) - 1 /\ j \in 1 .. Len(RB) - 1 /\ j \in 1 .. Len(RT) - 1
    BY <1>1 DEF TypeData
  <2>3. Tail(R)[j] = R[j + 1] /\ Tail(RB)[j] = RB[j + 1] /\ Tail(RT)[j] = RT[j + 1]
    BY <2>2, <1>1, TailAt DEF TypeData
  <2>4. R'[j] = R[j + 1] /\ RB[j + 1] = RT[j + 1] /\ j + 1 \in 1 .. Len(R)
    BY <2>1, <2>2, <2>3
  <2>5. PICK rq : rq = R[j + 1]
    OBVIOUS
  <2>6. WholeRequest(rq)
    BY <2>4, <2>5 DEF ReqQueued
  <2>7. WholeRequest(rq)'
    BY <2>6, <1>2
  <2>8. QED
    BY <2>4, <2>5, <2>7
<1>4. \A rq : rq = Head(R) /\ Head(RB) = Head(RT) => WholeRequest(rq)'
  <2>1. SUFFICES ASSUME NEW rq, rq = Head(R), Head(RB) = Head(RT)
                 PROVE  WholeRequest(rq)'
    OBVIOUS
  <2>2. WholeRequest(rq)
    BY <2>1, <1>1 DEF ReqQueued, TypeData
  <2>3. QED
    BY <2>2, <1>2
<1>5. QED
  BY <1>1, <1>3, <1>4

(* Handing out a request keeps ReqRecorded when the request is whole. *)
LEMMA RecordRequest ==
  ASSUME ReqRecorded, TypeData, UNCHANGED <<ex, phase, appReq>>,
         NEW rq, NEW rs, NEW b \in BOOLEAN, b => WholeRequest(rq)',
         recorded' = IF b THEN Append(recorded, [req |-> rq, resp |-> rs]) ELSE recorded
  PROVE  ReqRecorded'
<1>1. \A rr : WholeRequest(rr)' = WholeRequest(rr)
  BY WholeStable
<1>2. CASE ~b
  BY <1>1, <1>2 DEF ReqRecorded
<1>3. CASE b
  <2>1. SUFFICES ASSUME NEW k \in 1 .. Len(recorded')
                 PROVE  WholeRequest(recorded[k].req)'
    BY DEF ReqRecorded
  <2>2. Len(recorded') = Len(recorded) + 1 /\ Len(recorded) \in Nat
    BY <1>3 DEF TypeData
  <2>3. CASE k <= Len(recorded)
    <3>1. recorded'[k] = recorded[k] /\ k \in 1 .. Len(recorded)
      BY <1>3, <2>2, <2>3 DEF TypeData
    <3>2. PICK rr : rr = recorded[k].req
      OBVIOUS
    <3>3. WholeRequest(rr)
      BY <3>1, <3>2 DEF ReqRecorded
    <3>4. WholeRequest(rr)'
      BY <3>3, <1>1
    <3>5. QED
      BY <3>1, <3>2, <3>4
  <2>4. CASE k = Len(recorded) + 1
    <3>1. recorded'[k].req = rq
      BY <1>3, <2>4 DEF TypeData
    <3>2. WholeRequest(rq)'
      BY <1>3
    <3>3. QED
      BY <3>1, <3>2
  <2>5. QED
    BY <2>2, <2>3, <2>4
<1>4. QED
  BY <1>2, <1>3

(* IsComplete with exchanges queued hands out the head request, which is  *)
(* whole when its counts agree; the buffer queues are non-empty because    *)
(* they move with the byte-count queues.                                   *)
LEMMA ReqQueuedStep ==
  ASSUME RInv, IsCompleteQueued
  PROVE  RRest'
<1>0. /\ TypeOK /\ FlagsConsistent /\ Future /\ Lockstep /\ BufLockstep
      /\ ReqAssembling /\ ReqQueued /\ ReqRecorded
  BY RInvParts
<1>a. TypeData
  BY <1>0, Zenon DEF TypeOK, TypeData
<1> USE <1>a
<1> DEFINE R == currentRecvBufQueue
           RB == currentRecvBytesQueue
           RT == totalRecvBytesQueue
           S == currentSentBufQueue
           SB == currentSentBytesQueue
           ST == totalSentBytesQueue
<1>1. RB # <<>> /\ RT # <<>> /\ SB # <<>> /\ ST # <<>> /\ S # <<>> /\ R # <<>>
  BY <1>0 DEF IsCompleteQueued, QueuesPresent, BufLockstep, TypeData
<1>2. /\ R' = Tail(R) /\ RB' = Tail(RB) /\ RT' = Tail(RT)
      /\ S' = Tail(S) /\ SB' = Tail(SB) /\ ST' = Tail(ST)
      /\ recorded' = IF Head(RB) = Head(RT) /\ Head(SB) = Head(ST)
                     THEN Append(recorded, [req |-> Head(R), resp |-> Head(S)])
                     ELSE recorded
      /\ UNCHANGED <<recvBytes, RecvBuf, gotResponseDataEvent, gotRequestDataEvent,
                     firstRequest>>
      /\ UNCHANGED <<ex, phase, appReq, appResp, kread>>
  BY <1>1 DEF IsCompleteQueued, appVars
<1>3. FlagsConsistent' /\ Future' /\ ReqAssembling'
  BY <1>0, <1>2 DEF FlagsConsistent, Future, ReqAssembling, ReqChunks
<1>4. Lockstep' /\ BufLockstep'
  BY <1>0, <1>1, <1>2 DEF Lockstep, BufLockstep, TypeData
<1>5. /\ ReqQueued'
      /\ \A rq : rq = Head(R) /\ Head(RB) = Head(RT) => WholeRequest(rq)'
  BY <1>0, <1>1, <1>2, PopRequest
<1>6. ReqRecorded'
  <2>1. PICK rq : rq = Head(R)
    OBVIOUS
  <2>2. (Head(RB) = Head(RT) /\ Head(SB) = Head(ST)) \in BOOLEAN
    OBVIOUS
  <2>3. QED
    BY <2>1, <2>2, <1>0, <1>2, <1>5,
       RecordRequest
<1>7. QED
  BY <1>3, <1>4, <1>5, <1>6 DEF RRest

(* IsComplete on an idle connection that got a response hands out the     *)
(* head request if its counts agree, and resets: the response has been    *)
(* written, so RecvBuf is already empty and the kernel has read bytes.    *)
LEMMA ReqIdleStep ==
  ASSUME RInv, IsCompleteIdle
  PROVE  RRest'
<1>0. /\ TypeOK /\ FlagsConsistent /\ Future /\ Lockstep /\ BufLockstep
      /\ ReqAssembling /\ ReqQueued /\ ReqRecorded
  BY RInvParts
<1>a. TypeData
  BY <1>0, Zenon DEF TypeOK, TypeData
<1> USE <1>a
<1> DEFINE R == currentRecvBufQueue
           RB == currentRecvBytesQueue
           RT == totalRecvBytesQueue
<1>1. RB # <<>> /\ RT # <<>> /\ R # <<>> /\ gotResponseDataEvent
  BY <1>0 DEF IsCompleteIdle, BufLockstep, TypeData
<1>2. /\ R' = Tail(R) /\ RB' = Tail(RB) /\ RT' = Tail(RT)
      /\ recorded' = IF Head(RB) = Head(RT)
                     THEN Append(recorded, [req |-> Head(R), resp |-> SentBuf])
                     ELSE recorded
      /\ UNCHANGED <<currentSentBufQueue, currentSentBytesQueue, totalSentBytesQueue>>
      /\ firstRequest' = TRUE /\ gotResponseDataEvent' = FALSE
      /\ gotRequestDataEvent' = FALSE /\ recvBytes' = 0 /\ RecvBuf' = <<>>
      /\ UNCHANGED <<ex, phase, appReq, appResp, kread>>
  BY <1>1 DEF IsCompleteIdle, ResetConnection, appVars
<1>3. phase = "resp" /\ kread >= 1
  BY <1>0, <1>1 DEF ReqAssembling
<1>4. FlagsConsistent' /\ Future' /\ ReqAssembling'
  BY <1>0, <1>2, <1>3 DEF FlagsConsistent, Future, ReqAssembling
<1>5. Lockstep' /\ BufLockstep'
  BY <1>0, <1>1, <1>2 DEF Lockstep, BufLockstep, TypeData
<1>6. /\ ReqQueued'
      /\ \A rq : rq = Head(R) /\ Head(RB) = Head(RT) => WholeRequest(rq)'
  BY <1>0, <1>1, <1>2, PopRequest
<1>7. ReqRecorded'
  <2>1. PICK rq : rq = Head(R)
    OBVIOUS
  <2>2. (Head(RB) = Head(RT)) \in BOOLEAN
    OBVIOUS
  <2>3. QED
    BY <2>1, <2>2, <1>0, <1>2, <1>6,
       RecordRequest
<1>8. QED
  BY <1>4, <1>5, <1>6, <1>7 DEF RRest

(* The idle IsComplete with no request queued only resets the tracker. *)
LEMMA ReqIdleMalformedStep ==
  ASSUME RInv, IsCompleteIdleMalformed
  PROVE  RRest'
<1>0. /\ TypeOK /\ FlagsConsistent /\ Future /\ Lockstep /\ BufLockstep
      /\ ReqAssembling /\ ReqQueued /\ ReqRecorded
  BY RInvParts
<1>1. /\ gotResponseDataEvent
      /\ firstRequest' = TRUE /\ gotResponseDataEvent' = FALSE
      /\ gotRequestDataEvent' = FALSE /\ recvBytes' = 0 /\ RecvBuf' = <<>>
      /\ UNCHANGED <<currentRecvBufQueue, currentRecvBytesQueue, totalRecvBytesQueue,
                     currentSentBufQueue, currentSentBytesQueue, totalSentBytesQueue,
                     recorded>>
      /\ UNCHANGED <<ex, phase, appReq, appResp, kread>>
  BY DEF IsCompleteIdleMalformed, ResetConnection, appVars
<1>2. phase = "resp" /\ kread >= 1
  BY <1>0, <1>1 DEF ReqAssembling
<1>3. \A rq : WholeRequest(rq)' = WholeRequest(rq)
  BY <1>1, WholeStable
<1>4. FlagsConsistent' /\ Future' /\ ReqAssembling' /\ Lockstep' /\ BufLockstep'
  BY <1>0, <1>1, <1>2 DEF FlagsConsistent, Future, ReqAssembling, Lockstep, BufLockstep
<1>5. ReqQueued' /\ ReqRecorded'
  BY <1>0, <1>1, <1>3, Zenon DEF ReqQueued, ReqRecorded
<1>6. QED
  BY <1>4, <1>5 DEF RRest

(* A step that leaves the application and the tracker's buffers and flags *)
(* alone keeps RRest.                                                      *)
LEMMA RRestFrame ==
  ASSUME RRest,
         UNCHANGED <<ex, phase, appReq, appResp, kread>>,
         UNCHANGED <<currentRecvBufQueue, currentRecvBytesQueue, totalRecvBytesQueue,
                     currentSentBufQueue, currentSentBytesQueue, totalSentBytesQueue>>,
         UNCHANGED <<recvBytes, RecvBuf, gotResponseDataEvent, gotRequestDataEvent,
                     firstRequest, recorded>>
  PROVE  RRest'
<1>1. \A rq : WholeRequest(rq)' = WholeRequest(rq)
  BY WholeStable
<1>2. FlagsConsistent' /\ Future' /\ ReqAssembling' /\ Lockstep' /\ BufLockstep'
  BY DEF RRest, FlagsConsistent, Future, ReqAssembling, ReqChunks, Lockstep, BufLockstep
<1>3. ReqQueued' /\ ReqRecorded'
  BY <1>1, Zenon DEF RRest, ReqQueued, ReqRecorded
<1>4. QED
  BY <1>2, <1>3 DEF RRest

(* The tracker as NewTracker creates it satisfies RInv: nothing is queued *)
(* or recorded, and the first request has not been read.                   *)
LEMMA InitRInv == Init => RInv
<1> SUFFICES ASSUME Init PROVE RInv
  OBVIOUS
<1>1. TypeOK
  BY InitTypeOK
<1>2. FlagsConsistent /\ Lockstep /\ BufLockstep
  BY Zenon DEF Init, FlagsConsistent, Lockstep, BufLockstep
<1>3. ReqChunks(ex) = <<>> /\ appReq[ex] = <<>>
  BY DEF Init, ReqChunks, Exchanges
<1>4. Future /\ ReqAssembling
  BY <1>3 DEF Init, Future, ReqAssembling
<1>5. ReqQueued /\ ReqRecorded
  BY DEF Init, ReqQueued, ReqRecorded
<1>6. QED
  BY <1>1, <1>2, <1>4, <1>5, RInvParts

(* RInv is preserved by every step when every chunk fits in a data event. *)
LEMMA RInvStep ==
  ASSUME ChunksFit, RInv, [Next]_vars
  PROVE  RInv'
<1>0. RRest /\ TypeOK
  BY RInvParts DEF RRest
<1>1. TypeOK'
  BY <1>0, TypeStep
<1>2. RRest'
  <2>1. CASE \E s \in ChunkSize : Ingress(s)
    BY <2>1, ReqIngressStep
  <2>2. CASE \E s \in ChunkSize : Egress(s)
    BY <2>2, ReqEgressStep
  <2>3. CASE AddOpenEvent
    BY <2>3, <1>0, RRestFrame DEF AddOpenEvent, appVars
  <2>4. CASE AddCloseEvent
    BY <2>4, <1>0, RRestFrame DEF AddCloseEvent, appVars
  <2>5. CASE Tick
    BY <2>5, <1>0, RRestFrame DEF Tick, trackerVars, appVars
  <2>6. CASE IsCompleteQueued
    BY <2>6, ReqQueuedStep
  <2>7. CASE IsCompleteMalformed
    BY <2>7, <1>0, RRestFrame DEF IsCompleteMalformed, appVars
  <2>8. CASE IsCompleteIdle
    BY <2>8, ReqIdleStep
  <2>9. CASE IsCompleteIdleMalformed
    BY <2>9, ReqIdleMalformedStep
  <2>10. CASE UNCHANGED vars
    BY <2>10, <1>0, RRestFrame DEF vars, trackerVars, appVars
  <2>11. QED
    BY <2>1, <2>2, <2>3, <2>4, <2>5, <2>6, <2>7, <2>8, <2>9, <2>10 DEF Next
<1>3. QED
  BY <1>1, <1>2, Zenon DEF RRest, RInv

(***************************************************************************)
(* RecordedRequestsFaithful for every value of the constants, however many *)
(* reads a request takes: every request IsComplete hands out is the whole *)
(* request of one exchange, provided AddDataEvent never truncates a chunk. *)
(***************************************************************************)
THEOREM RequestsFaithfulTheorem ==
  ASSUME ChunksFit
  PROVE  Spec => []RecordedRequestsFaithful
<1>1. Init => RInv
  BY InitRInv
<1>2. RInv /\ [Next]_vars => RInv'
  BY RInvStep
<1>3. RInv => RecordedRequestsFaithful
  BY DEF RInv, ReqRecorded, WholeRequest, RecordedRequestsFaithful
<1>4. QED
  BY <1>1, <1>2, <1>3, PTL DEF Spec

(* However many reads a request takes, every reachable state of the       *)
(* tracker satisfies RInv when every chunk fits in a data event: RecvBuf  *)
(* holds exactly the request being read, and every queued request whose  *)
(* counts agree, and every recorded one, is the whole request of an       *)
(* exchange.                                                               *)
THEOREM RInvTheorem ==
  ASSUME ChunksFit
  PROVE  Spec => []RInv
<1>1. Init => RInv
  BY InitRInv
<1>2. RInv /\ [Next]_vars => RInv'
  BY RInvStep
<1>3. QED
  BY <1>1, <1>2, PTL DEF Spec
=============================================================================
