---------------------- MODULE ConnTrackerFaithfulProofs ----------------------
(***************************************************************************)
(* Proof that every exchange IsComplete hands out is a real exchange of   *)
(* the application (RecordedExchangesFaithful) for every value of the     *)
(* constants, when every request reaches the application in one read and  *)
(* every chunk fits in a data event.  The invariant follows one exchange  *)
(* from the read that begins it, through AddDataEvent's buffers and       *)
(* queues, to the pair IsComplete appends to the recorded tests.          *)
(***************************************************************************)
EXTENDS ConnTrackerProofs, SequenceTheorems

(* The chunks of exchange i whose sizes are sq, as ReqChunks and          *)
(* RespChunks build them.                                                  *)
Chunks(i, sq) == [n \in 1 .. Len(sq) |-> [ex |-> i, n |-> n, len |-> sq[n]]]

(* Every chunk fits in a data event: AddDataEvent keeps it whole. *)
ChunksFit == \A s \in ChunkSize : s <= EventBodyMaxSize

(* The exchanges the application has not begun have read and written      *)
(* nothing.                                                                *)
Future == \A i \in Exchanges : i > ex => appReq[i] = <<>> /\ appResp[i] = <<>>

(* The buffer queues are pushed and popped with the byte-count queues. *)
BufLockstep ==
  /\ Len(currentRecvBufQueue) = Len(currentRecvBytesQueue)
  /\ Len(currentSentBufQueue) = Len(currentSentBytesQueue)

(* The exchange being assembled: while its request is read, RecvBuf holds  *)
(* it whole and recvBytes equals the kernel's count; once its response is  *)
(* written, the request has left RecvBuf.                                  *)
Assembling ==
  /\ gotResponseDataEvent => phase = "resp"
  /\ phase = "req" =>
       /\ RecvBuf = ReqChunks(ex) /\ recvBytes = kread
       /\ (appReq[ex] # <<>> => kread >= 1)
       /\ SentBuf = <<>> /\ appResp[ex] = <<>>
  /\ phase = "resp" => RecvBuf = <<>> /\ recvBytes = 0 /\ kread >= 1
  /\ phase = "resp" /\ ~gotResponseDataEvent => SentBuf = <<>>

(* rq and rs are the request and a beginning of the response of exchange i. *)
Good(rq, rs, i) ==
  /\ rq = ReqChunks(i) /\ rq # <<>>
  /\ rs # <<>> /\ IsPrefixOf(rs, RespChunks(i))

(* The last queued request, if its byte counts agree, belongs with the     *)
(* response being assembled in SentBuf: both are the current exchange's.   *)
Pending ==
  LET L == Len(currentRecvBufQueue) IN
  gotResponseDataEvent /\ currentRecvBytesQueue[L] = totalRecvBytesQueue[L] =>
    /\ currentRecvBufQueue[L] = ReqChunks(ex) /\ ReqChunks(ex) # <<>>
    /\ SentBuf = RespChunks(ex) /\ SentBuf # <<>>

(* Every queued pair whose request counts agree is an earlier exchange. *)
Queued ==
  \A j \in 1 .. Len(currentSentBufQueue) :
    currentRecvBytesQueue[j] = totalRecvBytesQueue[j] =>
      \E i \in 1 .. ex - 1 : Good(currentRecvBufQueue[j], currentSentBufQueue[j], i)

(* RecordedExchangesFaithful with the request known to be non-empty. *)
Recorded ==
  \A k \in 1 .. Len(recorded) :
    \E i \in 1 .. ex : Good(recorded[k].req, recorded[k].resp, i)

FInv == IInv /\ Future /\ BufLockstep /\ Assembling /\ Pending /\ Queued /\ Recorded

-----------------------------------------------------------------------------
USE ChunkSizeAssumption, MaxSizeAssumption, BoundsAssumption

(* Chunks builds a sequence of chunks, one per size. *)
LEMMA ChunksType ==
  ASSUME NEW i \in Nat, NEW sq \in Seq(Nat)
  PROVE  /\ Chunks(i, sq) \in Seq(Chunk)
         /\ Len(Chunks(i, sq)) = Len(sq)
         /\ Chunks(i, sq) = <<>> <=> sq = <<>>
  BY DEF Chunks, Chunk

(* A sequence of chunk sizes is a sequence of numbers. *)
LEMMA SeqOfChunkSizes == Seq(ChunkSize) \subseteq Seq(Nat)
  <1>1. ChunkSize \subseteq Nat
    BY ChunkSizeAssumption
  <1>2. QED
    BY <1>1, SeqMonotonic

(* ReqChunks and RespChunks are Chunks of the sizes read and written. *)
LEMMA ChunksOfApp ==
  ASSUME NEW i
  PROVE  ReqChunks(i) = Chunks(i, appReq[i]) /\ RespChunks(i) = Chunks(i, appResp[i])
  BY DEF ReqChunks, RespChunks, Chunks

(* One more size, one more chunk at the end. *)
LEMMA ChunksAppend ==
  ASSUME NEW i \in Nat, NEW sq \in Seq(Nat), NEW s \in Nat
  PROVE  Chunks(i, Append(sq, s)) =
           Append(Chunks(i, sq), [ex |-> i, n |-> Len(sq) + 1, len |-> s])
  BY DEF Chunks

(* A sequence is a prefix of itself. *)
LEMMA PrefixRefl ==
  ASSUME NEW S, NEW t \in Seq(S)
  PROVE  IsPrefixOf(t, t)
  BY SubSeqFull DEF IsPrefixOf

(* A prefix stays one when the sequence grows at its end. *)
LEMMA PrefixAppend ==
  ASSUME NEW S, NEW s \in Seq(S), NEW t \in Seq(S), NEW x \in S, IsPrefixOf(s, t)
  PROVE  IsPrefixOf(s, Append(t, x))
  BY DEF IsPrefixOf

(* The elements of a popped queue are those after its head. *)
LEMMA TailAt ==
  ASSUME NEW S, NEW q \in Seq(S), q # <<>>, NEW j \in 1 .. Len(q) - 1
  PROVE  Tail(q)[j] = q[j + 1]
  OBVIOUS

(* Pushing keeps the elements already queued. *)
LEMMA AppendAt ==
  ASSUME NEW S, NEW q \in Seq(S), NEW x, NEW j \in 1 .. Len(q)
  PROVE  Append(q, x)[j] = q[j] /\ Append(q, x)[Len(q) + 1] = x
  OBVIOUS
-----------------------------------------------------------------------------
(* The conjuncts FInv adds to IInv. *)
FRest == Future /\ BufLockstep /\ Assembling /\ Pending /\ Queued /\ Recorded

(* FInv in its parts. *)
LEMMA FInvParts ==
  FInv <=> /\ TypeOK /\ QueuesAligned /\ Lockstep /\ FlagsConsistent /\ AppLink
           /\ Future /\ BufLockstep /\ Assembling /\ Pending /\ Queued /\ Recorded
  BY Zenon DEF FInv, IInv

(* A read begins or continues a request: the chunk read is the whole      *)
(* request of the exchange now current, RecvBuf holds exactly it, and the *)
(* response assembled so far, if any, is rotated into the queues as the    *)
(* previous exchange's.                                                     *)
LEMMA IngressStep ==
  ASSUME MaxReqChunks = 1, ChunksFit, FInv, NEW s \in ChunkSize, Ingress(s)
  PROVE  FRest'
<1>0. /\ TypeOK /\ QueuesAligned /\ Lockstep /\ FlagsConsistent /\ AppLink
      /\ Future /\ BufLockstep /\ Assembling /\ Pending /\ Queued /\ Recorded
  BY FInvParts
<1>a. TypeData /\ TypeApp
  BY <1>0, Zenon DEF TypeOK, TypeData, TypeApp
<1> USE <1>a
<1> DEFINE c == [ex |-> ex', n |-> Len(appReq'[ex']), len |-> Kept(s)]
           rot == ~firstRequest \/ gotResponseDataEvent
<1>1. ReadChunk(s) /\ AddIngressEvent(c, s, kwritten) /\ UNCHANGED recorded
  BY DEF Ingress
<1>2. s \in Nat \ {0} /\ Kept(s) = s
  BY ChunkSizeAssumption, MaxSizeAssumption DEF ChunksFit, Kept
<1>3. /\ ex' \in Exchanges /\ ex' >= ex /\ phase' = "req"
      /\ appReq' = [appReq EXCEPT ![ex'] = Append(@, s)]
      /\ UNCHANGED <<appResp, kwritten>>
      /\ phase = "req" => ex' = ex /\ appReq[ex] = <<>> /\ kread' = kread + s
      /\ phase = "resp" => ex' = ex + 1 /\ kread' = s
  <2>1. ex' \in Exchanges
    BY <1>0, <1>1, ReadChunkEffect
  <2>2. phase = "req" /\ Len(appReq[ex]) < MaxReqChunks => appReq[ex] = <<>>
    BY <1>0 DEF TypeData, TypeApp
  <2>3. phase' = "req" /\ appReq' = [appReq EXCEPT ![ex'] = Append(@, s)]
        /\ UNCHANGED <<appResp, kwritten>>
    BY <1>1 DEF ReadChunk
  <2>4. phase = "req" => ex' = ex /\ kread' = kread + s
    BY <1>1 DEF ReadChunk
  <2>5. phase = "resp" => ex' = ex + 1 /\ kread' = s
    BY <1>1 DEF ReadChunk
  <2>6. phase = "req" => appReq[ex] = <<>>
    BY <1>1, <2>2 DEF ReadChunk
  <2>7. ex' >= ex
    BY <2>4, <2>5 DEF TypeApp, Exchanges
  <2>8. QED
    BY <2>1, <2>3, <2>4, <2>5, <2>6, <2>7
<1>3a. ex \in 1 .. MaxExchanges /\ ex' \in 1 .. MaxExchanges /\ ex' >= ex
  BY <1>3 DEF TypeApp, Exchanges
<1>3b. PICK e \in 1 .. MaxExchanges : e = ex' /\ e >= ex
  \* A name for ex': the SMT backend mishandles some ranges with a primed bound.
  BY <1>3a, Zenon
<1>4. appReq[ex'] = <<>> /\ appResp[ex'] = <<>> /\ RecvBuf = <<>>
  <2>1. CASE phase = "req"
    BY <2>1, <1>0, <1>3 DEF Assembling, ReqChunks
  <2>2. CASE phase = "resp"
    BY <2>2, <1>0, <1>3 DEF Future, Assembling, TypeData, TypeApp, Exchanges
  <2>3. QED
    BY <2>1, <2>2, <1>0 DEF TypeData, TypeApp
<1>5. rot => phase = "resp" /\ gotResponseDataEvent
  <2>1. phase = "req" => firstRequest /\ ~gotResponseDataEvent
    BY <1>3, <1>0 DEF AppLink
  <2>2. ~firstRequest /\ ~gotResponseDataEvent => phase = "req"
    BY <1>0, FlagCases DEF AppLink
  <2>3. QED
    BY <2>1, <2>2, <1>0 DEF TypeData, TypeApp
<1>6. gotResponseDataEvent' = FALSE /\ SentBuf' = <<>>
  <2>1. CASE rot
    BY <2>1, <1>1 DEF AddIngressEvent
  <2>2. CASE ~rot
    <3>1. ~gotResponseDataEvent /\ SentBuf = <<>>
      BY <2>2, <1>0 DEF Assembling, TypeData, TypeApp
    <3>2. QED
      BY <2>2, <3>1, <1>1 DEF AddIngressEvent
  <2>3. QED
    BY <2>1, <2>2
<1>7. RecvBuf' = ReqChunks(ex)' /\ ReqChunks(ex)' # <<>>
  <2>1. appReq'[ex'] = Append(<<>>, s)
    BY <1>3, <1>4, <1>0 DEF TypeData, TypeApp
  <2>2. ReqChunks(ex)' = Append(<<>>, [ex |-> ex', n |-> 1, len |-> s])
    <3>1. Chunks(ex', Append(<<>>, s)) = Append(Chunks(ex', <<>>), [ex |-> ex', n |-> 0 + 1, len |-> s])
      <4>1. ex' \in Nat /\ <<>> \in Seq(Nat)
        BY <1>3 DEF Exchanges
      <4>2. QED
        BY <4>1, <1>2, ChunksAppend
    <3>2. Chunks(ex', <<>>) = <<>>
      BY DEF Chunks
    <3>3. QED
      BY <2>1, <3>1, <3>2 DEF ReqChunks, Chunks
  <2>3. RecvBuf' = Append(<<>>, c) /\ c = [ex |-> ex', n |-> 1, len |-> s]
    BY <1>1, <1>2, <1>4, <2>1 DEF AddIngressEvent
  <2>4. QED
    BY <2>2, <2>3
<1>8. recvBytes' = kread' /\ kread' >= 1
  <2>1. recvBytes' = recvBytes + s
    BY <1>1 DEF AddIngressEvent
  <2>2. CASE phase = "req"
    BY <2>1, <2>2, <1>0, <1>2, <1>3 DEF Assembling, TypeData, TypeApp
  <2>3. CASE phase = "resp"
    BY <2>1, <2>3, <1>0, <1>2, <1>3 DEF Assembling
  <2>4. QED
    BY <2>2, <2>3, <1>0 DEF TypeData, TypeApp
<1>9. Assembling'
  BY <1>3, <1>4, <1>6, <1>7, <1>8 DEF Assembling
<1>10. Future'
  <2>1. SUFFICES ASSUME NEW i \in Exchanges, i > ex'
                 PROVE  appReq'[i] = <<>> /\ appResp'[i] = <<>>
    BY DEF Future
  <2>0. ex' \in Nat /\ ex' >= ex /\ ex \in Nat
    BY <1>3 DEF TypeApp, Exchanges
  <2>2. i > ex /\ i # ex'
    BY <2>0, <2>1 DEF Exchanges
  <2>3. appReq'[i] = appReq[i] /\ appResp'[i] = appResp[i]
    BY <2>1, <2>2, <1>3 DEF TypeApp
  <2>4. QED
    BY <2>1, <2>2, <2>3, <1>0 DEF Future
<1>11. BufLockstep'
  <2>1. CASE rot
    BY <2>1, <1>0, <1>1 DEF AddIngressEvent, BufLockstep, TypeData, TypeApp
  <2>2. CASE ~rot
    BY <2>2, <1>1, <1>0 DEF AddIngressEvent, BufLockstep
  <2>3. QED
    BY <2>1, <2>2
<1>12. Pending'
  BY <1>6 DEF Pending
<1>13. ASSUME NEW i \in Exchanges, i # ex'
       PROVE  ReqChunks(i)' = ReqChunks(i) /\ RespChunks(i)' = RespChunks(i)
  BY <1>13, <1>3, <1>0 DEF ReqChunks, RespChunks, TypeData, TypeApp
<1>14. Queued'
  <2>1. CASE rot
    <3>1. /\ currentSentBufQueue' = Append(currentSentBufQueue, SentBuf)
          /\ UNCHANGED <<currentRecvBufQueue, currentRecvBytesQueue, totalRecvBytesQueue>>
      BY <2>1, <1>1 DEF AddIngressEvent
    <3>2. phase = "resp" /\ gotResponseDataEvent /\ ex' = ex + 1
      BY <2>1, <1>5, <1>3
    <3>3. Len(currentRecvBufQueue) = Len(currentSentBufQueue) + 1
      BY <3>2, <1>0 DEF QueuesAligned, BufLockstep, TypeData, TypeApp
    <3>4. SUFFICES ASSUME NEW j \in 1 .. Len(currentSentBufQueue'),
                          currentRecvBytesQueue'[j] = totalRecvBytesQueue'[j]
                   PROVE  \E i \in 1 .. ex' - 1 :
                            Good(currentRecvBufQueue[j], currentSentBufQueue[j], i)'
      BY DEF Queued
    <3>5. Len(currentSentBufQueue') = Len(currentSentBufQueue) + 1
      BY <3>1, <1>0 DEF TypeData, TypeApp
    <3>6. CASE j \in 1 .. Len(currentSentBufQueue)
      <4>1. currentSentBufQueue'[j] = currentSentBufQueue[j]
        BY <3>1, <3>6, <1>0, AppendAt DEF TypeData, TypeApp
      <4>2. PICK i \in 1 .. ex - 1 : Good(currentRecvBufQueue[j], currentSentBufQueue[j], i)
        BY <3>1, <3>4, <3>6, <1>0 DEF Queued
      <4>3. i \in Exchanges /\ i # ex' /\ i \in 1 .. ex' - 1
        BY <3>2 DEF TypeApp, Exchanges
      <4>4. QED
        BY <4>1, <4>2, <4>3, <3>1, <1>13 DEF Good
    <3>7. CASE j = Len(currentSentBufQueue) + 1
      <4>1. currentSentBufQueue'[j] = SentBuf
        BY <3>1, <3>7, <1>0, AppendAt DEF TypeData, TypeApp
      <4>2. /\ currentRecvBufQueue[j] = ReqChunks(ex) /\ ReqChunks(ex) # <<>>
            /\ SentBuf = RespChunks(ex) /\ SentBuf # <<>>
        BY <3>1, <3>2, <3>3, <3>4, <3>7, <1>0 DEF Pending
      <4>3. RespChunks(ex) \in Seq(Chunk)
        <5>1. ex \in Nat /\ appResp[ex] \in Seq(Nat)
          BY SeqOfChunkSizes DEF TypeApp, Exchanges
        <5>2. Chunks(ex, appResp[ex]) \in Seq(Chunk)
          BY <5>1, ChunksType
        <5>3. QED
          BY <5>2, ChunksOfApp
      <4>4. Good(currentRecvBufQueue[j], SentBuf, ex)
        BY <4>2, <4>3, PrefixRefl DEF Good
      <4>5. ex \in Exchanges /\ ex # ex' /\ ex \in 1 .. ex' - 1
        BY <3>2 DEF TypeApp, Exchanges
      <4>6. QED
        BY <4>1, <4>4, <4>5, <3>1, <1>13 DEF Good
    <3>8. Len(currentSentBufQueue) \in Nat
      BY DEF TypeData
    <3>9. QED
      BY <3>4, <3>5, <3>6, <3>7, <3>8
  <2>2. CASE ~rot
    <3>1. UNCHANGED <<currentSentBufQueue, currentRecvBufQueue, currentRecvBytesQueue,
                      totalRecvBytesQueue>>
      BY <2>2, <1>1 DEF AddIngressEvent
    <3>2. SUFFICES ASSUME NEW j \in 1 .. Len(currentSentBufQueue'),
                          currentRecvBytesQueue'[j] = totalRecvBytesQueue'[j]
                   PROVE  \E i \in 1 .. ex' - 1 :
                            Good(currentRecvBufQueue[j], currentSentBufQueue[j], i)'
      BY DEF Queued
    <3>3. PICK i \in 1 .. ex - 1 : Good(currentRecvBufQueue[j], currentSentBufQueue[j], i)
      BY <3>1, <3>2, <1>0 DEF Queued
    <3>4. i \in Exchanges /\ i # ex' /\ i \in 1 .. ex' - 1
      <4>a. i \in Nat /\ 1 <= i /\ i < ex /\ ex \in Nat
        BY DEF TypeApp, Exchanges
      <4>b. e >= ex
        BY <1>3b, Zenon
      <4>1. i \in Exchanges /\ i # e /\ i \in 1 .. e - 1
        BY <4>a, <4>b DEF Exchanges
      <4>2. QED
        BY <4>1, <1>3b, Zenon
    <3>5. QED
      BY <3>1, <3>3, <3>4, <1>13 DEF Good
  <2>3. QED
    BY <2>1, <2>2
<1>15. Recorded'
  <2>1. SUFFICES ASSUME NEW k \in 1 .. Len(recorded')
                 PROVE  \E i \in 1 .. ex' : Good(recorded[k].req, recorded[k].resp, i)'
    BY DEF Recorded
  <2>2. PICK i \in 1 .. ex : Good(recorded[k].req, recorded[k].resp, i)
    BY <2>1, <1>1, <1>0 DEF Recorded
  <2>3. i # ex'
    <3>1. ReqChunks(ex') = <<>>
      BY <1>4 DEF ReqChunks
    <3>2. QED
      BY <2>2, <3>1 DEF Good
  <2>4. i \in Exchanges /\ i \in 1 .. ex'
    BY <1>3a DEF Exchanges
  <2>5. QED
    BY <2>2, <2>3, <2>4, <1>1, <1>13 DEF Good
<1>16. QED
  BY <1>9, <1>10, <1>11, <1>12, <1>14, <1>15 DEF FRest
(* A write adds one chunk to the current exchange's response.  The first   *)
(* write after a request rotates that request into the queues and begins   *)
(* SentBuf with the response's first chunk; the first write after an idle *)
(* reset rotates an empty request whose counts cannot agree; later writes *)
(* extend SentBuf exactly as the response grows.                          *)
LEMMA EgressStep ==
  ASSUME MaxReqChunks = 1, ChunksFit, FInv, NEW s \in ChunkSize, Egress(s)
  PROVE  FRest'
<1>0. /\ TypeOK /\ QueuesAligned /\ Lockstep /\ FlagsConsistent /\ AppLink
      /\ Future /\ BufLockstep /\ Assembling /\ Pending /\ Queued /\ Recorded
  BY FInvParts
<1>a. TypeData /\ TypeApp
  BY <1>0, Zenon DEF TypeOK, TypeData, TypeApp
<1> USE <1>a
<1> DEFINE c == [ex |-> ex, n |-> Len(appResp'[ex]), len |-> Kept(s)]
           rot == firstRequest \/ gotRequestDataEvent
<1>1. WriteChunk(s) /\ AddEgressEvent(c, s, kread) /\ UNCHANGED recorded
  BY DEF Egress
<1>2. s \in Nat \ {0} /\ Kept(s) = s
  BY DEF ChunksFit, Kept
<1>3. /\ ex' = ex /\ appReq' = appReq /\ kread' = kread /\ phase' = "resp"
      /\ appResp' = [appResp EXCEPT ![ex] = Append(@, s)]
      /\ phase = "req" => appReq[ex] # <<>>
  BY <1>1 DEF WriteChunk
<1>4. /\ c = [ex |-> ex, n |-> Len(appResp[ex]) + 1, len |-> s]
      /\ c \in Chunk
      /\ RespChunks(ex)' = Append(RespChunks(ex), c)
      /\ RespChunks(ex) \in Seq(Chunk)
  <2>1. ex \in Nat /\ appResp[ex] \in Seq(Nat)
    BY SeqOfChunkSizes DEF TypeApp, Exchanges
  <2>2. appResp'[ex] = Append(appResp[ex], s)
    BY <1>3 DEF TypeApp
  <2>3. c = [ex |-> ex, n |-> Len(appResp[ex]) + 1, len |-> s] /\ c \in Chunk
    BY <1>2, <2>1, <2>2 DEF Chunk
  <2>4. RespChunks(ex)' = Chunks(ex, Append(appResp[ex], s))
    BY <1>3, <2>2 DEF RespChunks, Chunks
  <2>5. Chunks(ex, Append(appResp[ex], s))
          = Append(Chunks(ex, appResp[ex]), [ex |-> ex, n |-> Len(appResp[ex]) + 1, len |-> s])
    BY <1>2, <2>1, ChunksAppend
  <2>6. RespChunks(ex) = Chunks(ex, appResp[ex]) /\ Chunks(ex, appResp[ex]) \in Seq(Chunk)
    BY <2>1, ChunksOfApp, ChunksType
  <2>7. QED
    BY <2>3, <2>4, <2>5, <2>6
<1>5. ASSUME NEW i \in Exchanges, i # ex
      PROVE  ReqChunks(i)' = ReqChunks(i) /\ RespChunks(i)' = RespChunks(i)
  BY <1>5, <1>3 DEF ReqChunks, RespChunks, TypeApp
<1>6. ReqChunks(ex)' = ReqChunks(ex)
  BY <1>3 DEF ReqChunks
<1>7. /\ phase = "req" => ~gotResponseDataEvent /\ rot
      /\ phase = "resp" /\ gotResponseDataEvent => ~rot
      /\ phase = "resp" /\ ~gotResponseDataEvent => rot
  <2>1. phase = "req" => ~gotResponseDataEvent
    BY <1>0 DEF Assembling
  <2>2. QED
    BY <2>1, <1>0, FlagCases DEF AppLink
<1>8. /\ rot => /\ currentRecvBufQueue' = Append(currentRecvBufQueue, RecvBuf)
                /\ currentRecvBytesQueue' = Append(currentRecvBytesQueue, recvBytes)
                /\ totalRecvBytesQueue' = Append(totalRecvBytesQueue, kread)
                /\ RecvBuf' = <<>> /\ recvBytes' = 0 /\ gotResponseDataEvent' = TRUE
      /\ ~rot => UNCHANGED <<currentRecvBufQueue, currentRecvBytesQueue, totalRecvBytesQueue,
                             RecvBuf, recvBytes, gotResponseDataEvent>>
      /\ SentBuf' = Append(SentBuf, c)
      /\ UNCHANGED <<currentSentBufQueue, currentSentBytesQueue>>
  BY <1>1 DEF AddEgressEvent
<1>9. /\ gotResponseDataEvent' = TRUE /\ RecvBuf' = <<>> /\ recvBytes' = 0
      /\ kread' >= 1
  <2>1. CASE phase = "req"
    BY <2>1, <1>0, <1>3, <1>7, <1>8 DEF Assembling
  <2>2. CASE phase = "resp" /\ gotResponseDataEvent
    BY <2>2, <1>0, <1>3, <1>7, <1>8 DEF Assembling
  <2>3. CASE phase = "resp" /\ ~gotResponseDataEvent
    BY <2>3, <1>0, <1>3, <1>7, <1>8 DEF Assembling
  <2>4. QED
    BY <2>1, <2>2, <2>3 DEF TypeApp
<1>10. Assembling'
  BY <1>3, <1>9 DEF Assembling
<1>11. Future'
  <2>1. SUFFICES ASSUME NEW i \in Exchanges, i > ex'
                 PROVE  appReq'[i] = <<>> /\ appResp'[i] = <<>>
    BY DEF Future
  <2>2. i > ex /\ i # ex
    BY <2>1, <1>3 DEF TypeApp, Exchanges
  <2>3. QED
    BY <2>1, <2>2, <1>3, <1>0 DEF Future, TypeApp
<1>12. BufLockstep'
  <2>1. CASE rot
    BY <2>1, <1>0, <1>8 DEF BufLockstep, TypeData
  <2>2. CASE ~rot
    BY <2>2, <1>0, <1>8 DEF BufLockstep
  <2>3. QED
    BY <2>1, <2>2
<1>13. Pending'
  <2> DEFINE L == Len(currentRecvBufQueue)
  <2>1. CASE phase = "req"
    <3>1. /\ currentRecvBufQueue'[L + 1] = RecvBuf
          /\ currentRecvBytesQueue'[L + 1] = recvBytes
          /\ totalRecvBytesQueue'[L + 1] = kread
          /\ Len(currentRecvBufQueue') = L + 1
      BY <2>1, <1>7, <1>8, <1>0 DEF BufLockstep, Lockstep, TypeData
    <3>2. RecvBuf = ReqChunks(ex) /\ appReq[ex] # <<>> /\ SentBuf = <<>> /\ appResp[ex] = <<>>
      BY <2>1, <1>0, <1>3 DEF Assembling
    <3>3. ReqChunks(ex) # <<>>
      <4>1. ex \in Nat /\ appReq[ex] \in Seq(Nat)
        BY SeqOfChunkSizes DEF TypeApp, Exchanges
      <4>2. QED
        BY <3>2, <4>1, ChunksOfApp, ChunksType
    <3>4. RespChunks(ex) = <<>>
      BY <3>2 DEF RespChunks
    <3>5. SentBuf' = RespChunks(ex)' /\ SentBuf' # <<>>
      BY <3>2, <3>4, <1>4, <1>8
    <3>6. QED
      BY <3>1, <3>2, <3>3, <3>5, <1>6 DEF Pending
  <2>2. CASE phase = "resp" /\ gotResponseDataEvent
    <3>1. UNCHANGED <<currentRecvBufQueue, currentRecvBytesQueue, totalRecvBytesQueue>>
      BY <2>2, <1>7, <1>8
    <3>2. currentRecvBytesQueue[L] = totalRecvBytesQueue[L] =>
            /\ currentRecvBufQueue[L] = ReqChunks(ex) /\ ReqChunks(ex) # <<>>
            /\ SentBuf = RespChunks(ex)
      BY <2>2, <1>0 DEF Pending
    <3>3. SentBuf = RespChunks(ex) => SentBuf' = RespChunks(ex)' /\ SentBuf' # <<>>
      BY <1>4, <1>8
    <3>4. QED
      BY <3>1, <3>2, <3>3, <1>3, <1>6 DEF Pending
  <2>3. CASE phase = "resp" /\ ~gotResponseDataEvent
    <3>1. /\ currentRecvBytesQueue'[L + 1] = 0
          /\ totalRecvBytesQueue'[L + 1] = kread /\ kread >= 1
          /\ Len(currentRecvBufQueue') = L + 1
      BY <2>3, <1>7, <1>8, <1>0 DEF BufLockstep, Lockstep, Assembling, TypeData
    <3>2. QED
      BY <3>1 DEF Pending
  <2>4. QED
    BY <2>1, <2>2, <2>3 DEF TypeApp
<1>14. Queued'
  <2>1. SUFFICES ASSUME NEW j \in 1 .. Len(currentSentBufQueue),
                        currentRecvBytesQueue'[j] = totalRecvBytesQueue'[j]
                 PROVE  \E i \in 1 .. ex - 1 :
                          Good(currentRecvBufQueue[j], currentSentBufQueue[j], i)'
    BY <1>3, <1>8, Zenon DEF Queued
  <2>2. j <= Len(currentRecvBufQueue) /\ j <= Len(currentRecvBytesQueue)
        /\ j <= Len(totalRecvBytesQueue)
    BY <2>1, <1>0 DEF QueuesAligned, Lockstep, BufLockstep, TypeData
  <2>3. /\ currentRecvBufQueue'[j] = currentRecvBufQueue[j]
        /\ currentRecvBytesQueue'[j] = currentRecvBytesQueue[j]
        /\ totalRecvBytesQueue'[j] = totalRecvBytesQueue[j]
    <3>1. CASE rot
      <4>1. /\ Append(currentRecvBufQueue, RecvBuf)[j] = currentRecvBufQueue[j]
            /\ Append(currentRecvBytesQueue, recvBytes)[j] = currentRecvBytesQueue[j]
            /\ Append(totalRecvBytesQueue, kread)[j] = totalRecvBytesQueue[j]
        BY <2>2 DEF TypeData, TypeApp
      <4>2. QED
        BY <4>1, <3>1, <1>8, Zenon
    <3>2. CASE ~rot
      BY <3>2, <1>8
    <3>3. QED
      BY <3>1, <3>2
  <2>4. PICK i \in 1 .. ex - 1 : Good(currentRecvBufQueue[j], currentSentBufQueue[j], i)
    BY <2>1, <2>3, <1>0 DEF Queued
  <2>5. i \in Exchanges /\ i # ex
    BY DEF TypeApp, Exchanges
  <2>6. QED
    BY <2>3, <2>4, <2>5, <1>5, <1>8 DEF Good
<1>15. Recorded'
  <2>1. SUFFICES ASSUME NEW k \in 1 .. Len(recorded)
                 PROVE  \E i \in 1 .. ex : Good(recorded[k].req, recorded[k].resp, i)'
    BY <1>1, <1>3, Zenon DEF Recorded
  <2>2. PICK i \in 1 .. ex : Good(recorded[k].req, recorded[k].resp, i)
    BY <2>1, <1>0 DEF Recorded
  <2>3. CASE i = ex
    <3>0. k \in Nat /\ 1 <= k /\ k <= Len(recorded)
      BY <2>1
    <3>1. recorded[k].resp \in Seq(Chunk)
      <4> DEFINE RT == [req : Seq(Chunk), resp : Seq(Chunk)]
      <4>1. recorded \in Seq(RT)
        BY Zenon DEF TypeData
      <4> HIDE DEF RT
      <4>2. recorded[k] \in RT
        BY <3>0, <4>1
      <4>3. QED
        BY <4>2, Zenon DEF RT
    <3>2. ReqChunks(i)' = ReqChunks(i) /\ RespChunks(i)' = Append(RespChunks(i), c)
      BY <2>3, <1>3, <1>4, <1>6, Zenon DEF ReqChunks, RespChunks
    <3>3. IsPrefixOf(recorded[k].resp, RespChunks(i))
      BY <2>2 DEF Good
    <3>4. IsPrefixOf(recorded[k].resp, Append(RespChunks(i), c))
      <4>1. RespChunks(i) \in Seq(Chunk) /\ c \in Chunk
        BY <2>3, <1>4
      <4>2. QED
        BY <3>1, <3>3, <4>1, PrefixAppend
    <3>5. Good(recorded[k].req, recorded[k].resp, i)'
      BY <2>2, <3>2, <3>4, <1>1, Zenon DEF Good
    <3>6. QED
      BY <3>5, <2>2
  <2>4. CASE i # ex
    <3>1. i \in Exchanges
      BY DEF TypeApp, Exchanges
    <3>2. QED
      BY <2>2, <2>4, <3>1, <1>1, <1>5 DEF Good
  <2>5. QED
    BY <2>3, <2>4
<1>16. QED
  BY <1>10, <1>11, <1>12, <1>13, <1>14, <1>15 DEF FRest

(* IsComplete pops the oldest queued pair; the queues shift down by one,   *)
(* and a pair handed out is the head pair, an earlier exchange by Queued.  *)
LEMMA QueuedStep ==
  ASSUME FInv, IsCompleteQueued
  PROVE  FRest'
<1>0. /\ TypeOK /\ QueuesAligned /\ Lockstep /\ FlagsConsistent /\ AppLink
      /\ Future /\ BufLockstep /\ Assembling /\ Pending /\ Queued /\ Recorded
  BY FInvParts
<1>a. TypeData /\ TypeApp
  BY <1>0, Zenon DEF TypeOK, TypeData, TypeApp
<1> USE <1>a
<1> DEFINE R == currentRecvBufQueue
           RB == currentRecvBytesQueue
           RT == totalRecvBytesQueue
           S == currentSentBufQueue
           valid == /\ Head(RB) = Head(RT)
                    /\ Head(currentSentBytesQueue) = Head(totalSentBytesQueue)
<1>1. /\ recordTestCountAtomic > 0
      /\ Len(S) = recordTestCountAtomic /\ Len(currentSentBytesQueue) = recordTestCountAtomic
      /\ Len(R) = Len(RB) /\ Len(RT) = Len(RB)
      /\ Len(RB) = recordTestCountAtomic + (IF gotResponseDataEvent THEN 1 ELSE 0)
  BY <1>0 DEF IsCompleteQueued, QueuesAligned, Lockstep, BufLockstep
<1>2. R # <<>> /\ S # <<>> /\ RB # <<>> /\ RT # <<>> /\ currentSentBytesQueue # <<>>
  BY <1>1 DEF TypeData
<1>3. /\ R' = Tail(R) /\ S' = Tail(S) /\ RB' = Tail(RB) /\ RT' = Tail(RT)
      /\ currentSentBytesQueue' = Tail(currentSentBytesQueue)
      /\ recorded' = IF valid THEN Append(recorded, [req |-> Head(R), resp |-> Head(S)])
                              ELSE recorded
      /\ UNCHANGED <<recvBytes, SentBuf, RecvBuf, gotResponseDataEvent>>
      /\ UNCHANGED <<ex, phase, appReq, appResp, kread>>
  BY <1>2 DEF IsCompleteQueued, appVars
<1>4. \A i : ReqChunks(i)' = ReqChunks(i) /\ RespChunks(i)' = RespChunks(i)
  BY <1>3 DEF ReqChunks, RespChunks
<1>5. Future'
  BY <1>0, <1>3 DEF Future
<1>6. Assembling'
  BY <1>0, <1>3 DEF Assembling, ReqChunks
<1>7. BufLockstep'
  BY <1>0, <1>2, <1>3 DEF BufLockstep, TypeData
<1>8. Pending'
  <2>1. CASE ~gotResponseDataEvent
    BY <2>1, <1>3 DEF Pending
  <2>2. CASE gotResponseDataEvent
    <3> DEFINE L == Len(R)
    <3>1. L \in Nat /\ L >= 2
      BY <2>2, <1>1 DEF TypeData
    <3>2. /\ Len(Tail(R)) = L - 1
          /\ Tail(R)[L - 1] = R[L] /\ Tail(RB)[L - 1] = RB[L] /\ Tail(RT)[L - 1] = RT[L]
      <4>1. L - 1 \in 1 .. Len(R) - 1 /\ L - 1 \in 1 .. Len(RB) - 1
            /\ L - 1 \in 1 .. Len(RT) - 1 /\ L - 1 + 1 = L
        BY <3>1, <1>1
      <4>2. Len(Tail(R)) = L - 1
        BY <1>2, TailLen DEF TypeData
      <4>3. Tail(R)[L - 1] = R[L]
        BY <4>1, <1>2, TailAt DEF TypeData
      <4>4. Tail(RB)[L - 1] = RB[L]
        BY <4>1, <1>1, <1>2, TailAt DEF TypeData
      <4>5. Tail(RT)[L - 1] = RT[L]
        BY <4>1, <1>1, <1>2, TailAt DEF TypeData
      <4>6. QED
        BY <4>2, <4>3, <4>4, <4>5
    <3>3. /\ Len(R') = L - 1
          /\ R'[L - 1] = R[L] /\ RB'[L - 1] = RB[L] /\ RT'[L - 1] = RT[L]
      BY <3>2, <1>3, Zenon
    <3>4. QED
      BY <2>2, <3>3, <1>0, <1>3 DEF Pending, ReqChunks, RespChunks
  <2>3. QED
    BY <2>1, <2>2
<1>9. Queued'
  <2>1. SUFFICES ASSUME NEW j \in 1 .. Len(S'), RB'[j] = RT'[j]
                 PROVE  \E i \in 1 .. ex - 1 :
                          Good(currentRecvBufQueue[j], currentSentBufQueue[j], i)'
    BY <1>3, Zenon DEF Queued
  <2>2. Len(S') = Len(S) - 1 /\ Len(S) \in Nat
    BY <1>2, <1>3 DEF TypeData
  <2>3. j \in Nat /\ 1 <= j /\ j + 1 <= Len(S) /\ j + 1 <= Len(R)
    BY <2>1, <2>2, <1>1 DEF TypeData
  <2>4. /\ Tail(R)[j] = R[j + 1] /\ Tail(S)[j] = S[j + 1]
        /\ Tail(RB)[j] = RB[j + 1] /\ Tail(RT)[j] = RT[j + 1]
    <3>1. j \in 1 .. Len(R) - 1 /\ j \in 1 .. Len(S) - 1
          /\ j \in 1 .. Len(RB) - 1 /\ j \in 1 .. Len(RT) - 1
      BY <2>3, <1>1 DEF TypeData
    <3>2. Tail(R)[j] = R[j + 1]
      BY <3>1, <1>2, TailAt DEF TypeData
    <3>3. Tail(S)[j] = S[j + 1]
      BY <3>1, <1>2, TailAt DEF TypeData
    <3>4. Tail(RB)[j] = RB[j + 1]
      BY <3>1, <1>2, TailAt DEF TypeData
    <3>5. Tail(RT)[j] = RT[j + 1]
      BY <3>1, <1>2, TailAt DEF TypeData
    <3>6. QED
      BY <3>2, <3>3, <3>4, <3>5
  <2>5. /\ R'[j] = R[j + 1] /\ S'[j] = S[j + 1]
        /\ RB[j + 1] = RT[j + 1]
    BY <2>1, <2>4, <1>3, Zenon
  <2>6. PICK i \in 1 .. ex - 1 : Good(R[j + 1], S[j + 1], i)
    BY <2>3, <2>5, <1>0 DEF Queued
  <2>7. Good(currentRecvBufQueue[j], currentSentBufQueue[j], i)'
    BY <2>5, <2>6, <1>4 DEF Good
  <2>8. QED
    BY <2>6, <2>7
<1>10. Recorded'
  <2>1. SUFFICES ASSUME NEW k \in 1 .. Len(recorded')
                 PROVE  \E i \in 1 .. ex : Good(recorded[k].req, recorded[k].resp, i)'
    BY <1>3, Zenon DEF Recorded
  <2>2. k \in Nat /\ 1 <= k
    BY <2>1
  <2>3. ASSUME k <= Len(recorded), recorded'[k] = recorded[k]
        PROVE  \E i \in 1 .. ex : Good(recorded[k].req, recorded[k].resp, i)'
    <3>1. PICK i \in 1 .. ex : Good(recorded[k].req, recorded[k].resp, i)
      BY <2>2, <2>3, <1>0 DEF Recorded
    <3>2. Good(recorded[k].req, recorded[k].resp, i)'
      BY <2>3, <3>1, <1>4 DEF Good
    <3>3. QED
      BY <3>1, <3>2
  <2>4. CASE ~valid
    <3>1. recorded' = recorded
      BY <2>4, <1>3
    <3>2. k <= Len(recorded)
      BY <2>1, <3>1
    <3>3. QED
      BY <2>3, <3>1, <3>2
  <2>5. CASE valid
    <3>1. recorded' = Append(recorded, [req |-> Head(R), resp |-> Head(S)])
      BY <2>5, <1>3
    <3>2. PICK i0 \in 1 .. ex - 1 : Good(R[1], S[1], i0)
      <4>1. 1 \in 1 .. Len(S) /\ RB[1] = RT[1]
        BY <2>5, <1>1, <1>2 DEF TypeData
      <4>2. QED
        BY <4>1, <1>0 DEF Queued
    <3>3. Len(recorded') = Len(recorded) + 1 /\ Len(recorded) \in Nat
      BY <3>1 DEF TypeData
    <3>4. CASE k = Len(recorded) + 1
      <4>1. recorded'[k].req = R[1] /\ recorded'[k].resp = S[1]
        <5>1. recorded'[k] = [req |-> Head(R), resp |-> Head(S)]
          BY <3>1, <3>3, <3>4 DEF TypeData
        <5>2. Head(R) = R[1] /\ Head(S) = S[1]
          OBVIOUS
        <5>3. QED
          BY <5>1, <5>2
      <4>2. i0 \in 1 .. ex
        BY DEF TypeApp, Exchanges
      <4>3. Good(recorded[k].req, recorded[k].resp, i0)'
        BY <4>1, <3>2, <1>4 DEF Good
      <4>4. QED
        BY <4>2, <4>3
    <3>5. CASE k # Len(recorded) + 1
      <4>1. k <= Len(recorded)
        BY <2>1, <2>2, <3>3, <3>5
      <4>2. recorded'[k] = recorded[k]
        BY <2>2, <3>1, <4>1 DEF TypeData
      <4>3. QED
        BY <2>3, <4>1, <4>2
    <3>6. QED
      BY <3>4, <3>5
  <2>6. QED
    BY <2>4, <2>5
<1>11. QED
  BY <1>5, <1>6, <1>7, <1>8, <1>9, <1>10 DEF FRest

(* A step that leaves the application, the exchange being assembled, the  *)
(* request and response queues and the recorded tests alone keeps FRest.  *)
LEMMA FRestFrame ==
  ASSUME FRest,
         UNCHANGED <<ex, phase, appReq, appResp, kread>>,
         UNCHANGED <<currentRecvBufQueue, currentRecvBytesQueue, totalRecvBytesQueue,
                     currentSentBufQueue, currentSentBytesQueue>>,
         UNCHANGED <<recvBytes, SentBuf, RecvBuf, gotResponseDataEvent, recorded>>
  PROVE  FRest'
<1>0. /\ ex' = ex /\ phase' = phase /\ appReq' = appReq /\ appResp' = appResp
      /\ kread' = kread
      /\ currentRecvBufQueue' = currentRecvBufQueue
      /\ currentRecvBytesQueue' = currentRecvBytesQueue
      /\ totalRecvBytesQueue' = totalRecvBytesQueue
      /\ currentSentBufQueue' = currentSentBufQueue
      /\ currentSentBytesQueue' = currentSentBytesQueue
      /\ recvBytes' = recvBytes /\ SentBuf' = SentBuf /\ RecvBuf' = RecvBuf
      /\ gotResponseDataEvent' = gotResponseDataEvent /\ recorded' = recorded
  BY Zenon
<1>1. \A i : ReqChunks(i)' = ReqChunks(i) /\ RespChunks(i)' = RespChunks(i)
  BY <1>0 DEF ReqChunks, RespChunks
<1>2. Future' /\ BufLockstep'
  BY <1>0 DEF FRest, Future, BufLockstep
<1>3. Assembling'
  BY <1>0 DEF FRest, Assembling, ReqChunks, RespChunks
<1>4. Pending'
  BY <1>0 DEF FRest, Pending, ReqChunks, RespChunks
<1>5. Queued'
  BY <1>0, <1>1, Zenon DEF FRest, Queued, Good
<1>6. Recorded'
  BY <1>0, <1>1, Zenon DEF FRest, Recorded, Good
<1>7. QED
  BY <1>2, <1>3, <1>4, <1>5, <1>6 DEF FRest

(* IsComplete on an idle connection: with nothing counted, the only queued *)
(* request is the current exchange's, and SentBuf its whole response so   *)
(* far; that pair is handed out and the tracker reset.                     *)
LEMMA IdleStep ==
  ASSUME FInv, IsCompleteIdle
  PROVE  FRest'
<1>0. /\ TypeOK /\ QueuesAligned /\ Lockstep /\ FlagsConsistent /\ AppLink
      /\ Future /\ BufLockstep /\ Assembling /\ Pending /\ Queued /\ Recorded
  BY FInvParts
<1>a. TypeData /\ TypeApp
  BY <1>0, Zenon DEF TypeOK, TypeData, TypeApp
<1> USE <1>a
<1> DEFINE R == currentRecvBufQueue
           RB == currentRecvBytesQueue
           RT == totalRecvBytesQueue
           S == currentSentBufQueue
           valid == Head(RB) = Head(RT) /\ R # <<>>
<1>1. /\ gotResponseDataEvent /\ phase = "resp"
      /\ Len(S) = 0 /\ Len(R) = 1 /\ Len(RB) = 1 /\ Len(RT) = 1
  BY <1>0 DEF IsCompleteIdle, QueuesAligned, Lockstep, BufLockstep, Assembling, TypeData
<1>2. /\ R' = Tail(R) /\ RB' = Tail(RB) /\ RT' = Tail(RT) /\ S' = S
      /\ recorded' = IF valid THEN Append(recorded, [req |-> Head(R), resp |-> SentBuf])
                              ELSE recorded
      /\ gotResponseDataEvent' = FALSE /\ SentBuf' = <<>> /\ RecvBuf' = <<>>
      /\ recvBytes' = 0 /\ currentSentBytesQueue' = currentSentBytesQueue
      /\ UNCHANGED <<ex, phase, appReq, appResp, kread>>
  BY <1>1 DEF IsCompleteIdle, ResetConnection, appVars
<1>3. \A i : ReqChunks(i)' = ReqChunks(i) /\ RespChunks(i)' = RespChunks(i)
  BY <1>2 DEF ReqChunks, RespChunks
<1>4. Len(R') = 0 /\ Len(RB') = 0 /\ Len(S') = 0
  BY <1>1, <1>2 DEF TypeData
<1>5. Future'
  BY <1>0, <1>2 DEF Future
<1>6a. BufLockstep'
  BY <1>0, <1>1, <1>2, <1>4 DEF BufLockstep
<1>6b. Pending' /\ Queued'
  BY <1>2, <1>4 DEF Pending, Queued
<1>6. Assembling'
  BY <1>0, <1>1, <1>2 DEF Assembling
<1>7. Recorded'
  <2>1. SUFFICES ASSUME NEW k \in 1 .. Len(recorded')
                 PROVE  \E i \in 1 .. ex : Good(recorded[k].req, recorded[k].resp, i)'
    BY <1>2, Zenon DEF Recorded
  <2>2. k \in Nat /\ 1 <= k
    BY <2>1
  <2>3. ASSUME k <= Len(recorded), recorded'[k] = recorded[k]
        PROVE  \E i \in 1 .. ex : Good(recorded[k].req, recorded[k].resp, i)'
    <3>1. PICK i \in 1 .. ex : Good(recorded[k].req, recorded[k].resp, i)
      BY <2>2, <2>3, <1>0 DEF Recorded
    <3>2. Good(recorded[k].req, recorded[k].resp, i)'
      BY <2>3, <3>1, <1>3 DEF Good
    <3>3. QED
      BY <3>1, <3>2
  <2>4. CASE ~valid
    <3>1. recorded' = recorded
      BY <2>4, <1>2
    <3>2. k <= Len(recorded)
      BY <2>1, <3>1
    <3>3. QED
      BY <2>3, <3>1, <3>2
  <2>5. CASE valid
    <3>1. recorded' = Append(recorded, [req |-> Head(R), resp |-> SentBuf])
      BY <2>5, <1>2
    <3>2. /\ R[1] = ReqChunks(ex) /\ ReqChunks(ex) # <<>>
          /\ SentBuf = RespChunks(ex) /\ SentBuf # <<>>
      <4>1. RB[1] = RT[1]
        BY <2>5, <1>1 DEF TypeData
      <4>2. QED
        BY <4>1, <1>0, <1>1 DEF Pending
    <3>3. Good(R[1], SentBuf, ex)
      <4>1. IsPrefixOf(SentBuf, SentBuf)
        BY PrefixRefl DEF TypeData
      <4>2. QED
        BY <3>2, <4>1 DEF Good
    <3>4. Len(recorded') = Len(recorded) + 1 /\ Len(recorded) \in Nat
      BY <3>1 DEF TypeData
    <3>5. CASE k = Len(recorded) + 1
      <4>1. recorded'[k].req = R[1] /\ recorded'[k].resp = SentBuf
        BY <3>1, <3>5, <1>1 DEF TypeData
      <4>2. PICK e \in 1 .. ex : e = ex
        BY DEF TypeApp, Exchanges
      <4>3. Good(recorded[k].req, recorded[k].resp, e)'
        BY <4>1, <4>2, <3>3, <1>3 DEF Good
      <4>4. QED
        BY <4>2, <4>3
    <3>6. CASE k # Len(recorded) + 1
      <4>1. k <= Len(recorded)
        BY <2>1, <2>2, <3>4, <3>6
      <4>2. recorded'[k] = recorded[k]
        BY <2>2, <3>1, <4>1 DEF TypeData
      <4>3. QED
        BY <2>3, <4>1, <4>2
    <3>7. QED
      BY <3>5, <3>6
  <2>6. QED
    BY <2>4, <2>5
<1>8. QED
  BY <1>5, <1>6a, <1>6b, <1>6, <1>7 DEF FRest

(* With nothing counted but a response seen, the current exchange's        *)
(* request is queued: the "malformed request" branch of the idle path      *)
(* cannot be taken.                                                        *)
LEMMA IdleMalformedImpossible ==
  ASSUME FInv, IsCompleteIdleMalformed
  PROVE  FALSE
<1>0. TypeOK /\ QueuesAligned /\ Lockstep
  BY FInvParts
<1>1. recordTestCountAtomic = 0 /\ gotResponseDataEvent
  BY <1>0 DEF IsCompleteIdleMalformed, TypeOK
<1>2. Len(currentRecvBytesQueue) = 1 /\ Len(totalRecvBytesQueue) = 1
  BY <1>0, <1>1 DEF QueuesAligned, Lockstep
<1>3. currentRecvBytesQueue # <<>> /\ totalRecvBytesQueue # <<>>
  BY <1>2
<1>4. QED
  BY <1>3 DEF IsCompleteIdleMalformed

(* The tracker as NewTracker creates it satisfies FInv. *)
LEMMA InitFInv == Init => FInv
<1> SUFFICES ASSUME Init PROVE FInv
  OBVIOUS
<1>1. TypeOK
  BY InitTypeOK
<1>2. QueuesAligned /\ Lockstep /\ BufLockstep
  BY DEF Init, QueuesAligned, Lockstep, BufLockstep
<1>3. FlagsConsistent /\ AppLink
  BY Zenon DEF Init, FlagsConsistent, AppLink, Exchanges
<1>4. ReqChunks(ex) = <<>> /\ appReq[ex] = <<>> /\ appResp[ex] = <<>>
  BY DEF Init, ReqChunks, Exchanges
<1>5. Future /\ Assembling
  BY <1>4 DEF Init, Future, Assembling
<1>6. Pending /\ Queued /\ Recorded
  BY DEF Init, Pending, Queued, Recorded
<1>7. QED
  BY <1>1, <1>2, <1>3, <1>5, <1>6, FInvParts

(* FInv is preserved by every step when every request is read in one call *)
(* and every chunk fits in a data event.                                   *)
LEMMA FInvStep ==
  ASSUME MaxReqChunks = 1, ChunksFit, FInv, [Next]_vars
  PROVE  FInv'
<1>0. FRest
  BY FInvParts DEF FRest
<1>1. IInv'
  BY IInvStep DEF FInv
<1>2. FRest'
  <2>1. CASE \E s \in ChunkSize : Ingress(s)
    BY <2>1, IngressStep
  <2>2. CASE \E s \in ChunkSize : Egress(s)
    BY <2>2, EgressStep
  <2>3. CASE AddOpenEvent
    BY <2>3, <1>0, FRestFrame DEF AddOpenEvent, appVars
  <2>4. CASE AddCloseEvent
    BY <2>4, <1>0, FRestFrame DEF AddCloseEvent, appVars
  <2>5. CASE Tick
    BY <2>5, <1>0, FRestFrame DEF Tick, trackerVars, appVars
  <2>6. CASE IsCompleteQueued
    BY <2>6, QueuedStep
  <2>7. CASE IsCompleteMalformed
    BY <2>7, <1>0, FRestFrame DEF IsCompleteMalformed, appVars
  <2>8. CASE IsCompleteIdle
    BY <2>8, IdleStep
  <2>9. CASE IsCompleteIdleMalformed
    BY <2>9, IdleMalformedImpossible
  <2>10. CASE UNCHANGED vars
    BY <2>10, <1>0, FRestFrame DEF vars, trackerVars, appVars
  <2>11. QED
    BY <2>1, <2>2, <2>3, <2>4, <2>5, <2>6, <2>7, <2>8, <2>9, <2>10 DEF Next
<1>3. QED
  BY <1>1, <1>2, Zenon DEF FInv, FRest

(***************************************************************************)
(* RecordedExchangesFaithful for every value of the constants: every pair  *)
(* IsComplete hands out is the whole request of one exchange and a         *)
(* non-empty beginning of that exchange's response, provided every request *)
(* reaches the application in one read and AddDataEvent never truncates a *)
(* chunk.                                                                  *)
(***************************************************************************)
THEOREM ExchangesFaithfulTheorem ==
  ASSUME MaxReqChunks = 1, ChunksFit
  PROVE  Spec => []RecordedExchangesFaithful
<1>1. Init => FInv
  BY InitFInv
<1>2. FInv /\ [Next]_vars => FInv'
  BY FInvStep
<1>3. FInv => RecordedExchangesFaithful
  BY DEF FInv, Recorded, Good, RecordedExchangesFaithful
<1>4. QED
  BY <1>1, <1>2, <1>3, PTL DEF Spec

(* With every request read in one read and every chunk within an event,   *)
(* every reachable state of the tracker satisfies FInv: the queues stay   *)
(* aligned, RecvBuf and SentBuf hold the current exchange, and every      *)
(* queued pair whose counts agree is a whole request with a beginning of  *)
(* its own response.                                                      *)
THEOREM FInvTheorem ==
  ASSUME MaxReqChunks = 1, ChunksFit
  PROVE  Spec => []FInv
<1>1. Init => FInv
  BY InitFInv
<1>2. FInv /\ [Next]_vars => FInv'
  BY FInvStep
<1>3. QED
  BY <1>1, <1>2, PTL DEF Spec
=============================================================================
