------------------------- MODULE RecordStartProofs --------------------------
(***************************************************************************)
(* Proofs about the recording session (RecordStart, with CoreRun), for    *)
(* every number of captured items and failed inserts that the insert      *)
(* error buffers hold: IInv is inductive, so every state is well typed    *)
(* and Start returns only once both streams are closed and drained.       *)
(***************************************************************************)
EXTENDS RecordStart, SequenceTheorems, TLAPS

USE AppKindsAssumption, AppFailsAssumption, RecordTimerAssumption, ItemsAssumption,
    CapAssumption

\* IInv cut in two: the types of the Boolean variables, for Zenon, and the
\* rest, for SMT.
Flags == TypeFlags /\ appErrClosed \in BOOLEAN /\ runCtxDone \in BOOLEAN
RunRest ==
  /\ kind \in AppKinds
  /\ runPc \in {"idle", "select", "wait", "returned"}
  /\ runResult \in AppErrorTypes \cup {"none"}
  /\ inodePc \in {"idle", "start", "recv", "sendInode", "done"}
  /\ appPc \in {"idle", "start", "starting", "running", "done"}
  /\ appOutcome \in SelfOutcomes \cup {"CtxCanceled", "none"}
  /\ appErrCh \in Seq(AppErrorTypes) /\ Len(appErrCh) <= 1
  /\ inodeErrCh \in Seq({"Internal"}) /\ Len(inodeErrCh) <= 1
Rest ==
  /\ RunRest /\ TypePcs /\ TypeData
  /\ ChannelsByPc /\ ResultByPc /\ GoroutinesByPc /\ StreamsByConsumer
  /\ DrainedBeforeReturn

LEMMA IInvParts == IInv <=> Flags /\ Rest
BY Zenon DEF IInv, TypeOK, RunTypeOK, Flags, Rest, RunRest

(* A value sent on an empty channel of buffer one fills it, and no more:   *)
(* the sends on appErrCh, inodeErrCh and appErrChan.                        *)
LEMMA SendOnEmpty ==
  ASSUME NEW S, NEW x \in S
  PROVE  Append(<<>>, x) \in Seq(S) /\ Len(Append(<<>>, x)) <= 1
<1>1. <<>> \in Seq(S) /\ Len(<<>>) = 0
  BY EmptySeq
<1>2. QED
  BY <1>1, AppendProperties

(* A receive from a buffered channel leaves a shorter queue: the receives  *)
(* of Run's and Start's selects.                                           *)
LEMMA ReceiveShortens ==
  ASSUME NEW S, NEW q \in Seq(S), q # <<>>
  PROVE  Tail(q) \in Seq(S) /\ Len(Tail(q)) < Len(q)
BY HeadTailProperties, LenProperties

(* A session starts with no stream opened and every channel empty. *)
LEMMA InitIInv == Init => IInv
<1> SUFFICES ASSUME Init PROVE Flags /\ Rest
  BY IInvParts
<1>1. Flags
  BY Zenon DEF Init, RunInit, Flags, TypeFlags
<1>2. Rest
  BY DEF Init, RunInit, Rest, RunRest, TypePcs, TypeData, ChannelsByPc, ResultByPc, GoroutinesByPc,
         StreamsByConsumer, DrainedBeforeReturn, Streams, AppErrorTypes, SelfOutcomes
<1>3. QED
  BY <1>1, <1>2

(* Every step of Start, of Core.Run's goroutines, of the consumers, of     *)
(* Core.Hook's shutdown goroutine, of the timer and of the user keeps     *)
(* IInv.  Each case proves the Boolean variables' types (Zenon) and the   *)
(* rest (SMT) apart.                                                        *)
LEMMA NextIInv == IInv /\ [Next]_vars => IInv'
<1> SUFFICES ASSUME Flags, Rest, [Next]_vars PROVE IInv'
  BY IInvParts
<1>0. IInv' <=> Flags' /\ Rest'
  BY Zenon DEF IInv, TypeOK, RunTypeOK, Flags, Rest, RunRest
<1> USE <1>0
<1>1. CASE StartSetup
  <2>1. Flags'
    BY <1>1, Zenon DEF StartSetup, runVars, recVars, Flags, TypeFlags
  <2>2. Rest'
    BY <1>1 DEF StartSetup, runVars, recVars, Rest, RunRest, TypePcs, TypeData, ChannelsByPc, ResultByPc, GoroutinesByPc, StreamsByConsumer, DrainedBeforeReturn, Streams, AppErrorTypes, SelfOutcomes
  <2>3. QED
    BY <2>1, <2>2
<1>2. CASE GetIncoming
  <2>1. Flags'
    BY <1>2, Zenon DEF GetIncoming, GetStream, runVars, recVars, Flags, TypeFlags
  <2>2. Rest'
    <3>1. RunRest'
      BY <1>2 DEF GetIncoming, GetStream, runVars, recVars, Rest, RunRest, TypePcs, TypeData, ChannelsByPc, ResultByPc, GoroutinesByPc, StreamsByConsumer, DrainedBeforeReturn, Streams, AppErrorTypes, SelfOutcomes
    <3>2. TypePcs'
      BY <1>2 DEF GetIncoming, GetStream, runVars, recVars, Rest, RunRest, TypePcs, TypeData, ChannelsByPc, ResultByPc, GoroutinesByPc, StreamsByConsumer, DrainedBeforeReturn, Streams, AppErrorTypes, SelfOutcomes
    <3>3. TypeData'
      BY <1>2 DEF GetIncoming, GetStream, runVars, recVars, Rest, RunRest, TypePcs, TypeData, ChannelsByPc, ResultByPc, GoroutinesByPc, StreamsByConsumer, DrainedBeforeReturn, Streams, AppErrorTypes, SelfOutcomes
    <3>4. ChannelsByPc'
      BY <1>2 DEF GetIncoming, GetStream, runVars, recVars, Rest, RunRest, TypePcs, TypeData, ChannelsByPc, ResultByPc, GoroutinesByPc, StreamsByConsumer, DrainedBeforeReturn, Streams, AppErrorTypes, SelfOutcomes
    <3>5. ResultByPc'
      BY <1>2 DEF GetIncoming, GetStream, runVars, recVars, Rest, RunRest, TypePcs, TypeData, ChannelsByPc, ResultByPc, GoroutinesByPc, StreamsByConsumer, DrainedBeforeReturn, Streams, AppErrorTypes, SelfOutcomes
    <3>6. GoroutinesByPc'
      BY <1>2 DEF GetIncoming, GetStream, runVars, recVars, Rest, RunRest, TypePcs, TypeData, ChannelsByPc, ResultByPc, GoroutinesByPc, StreamsByConsumer, DrainedBeforeReturn, Streams, AppErrorTypes, SelfOutcomes
    <3>7. StreamsByConsumer'
      BY <1>2 DEF GetIncoming, GetStream, runVars, recVars, Rest, RunRest, TypePcs, TypeData, ChannelsByPc, ResultByPc, GoroutinesByPc, StreamsByConsumer, DrainedBeforeReturn, Streams, AppErrorTypes, SelfOutcomes
    <3>8. DrainedBeforeReturn'
      BY <1>2 DEF GetIncoming, GetStream, runVars, recVars, Rest, RunRest, TypePcs, TypeData, ChannelsByPc, ResultByPc, GoroutinesByPc, StreamsByConsumer, DrainedBeforeReturn, Streams, AppErrorTypes, SelfOutcomes
    <3>9. QED
      BY <3>1, <3>2, <3>3, <3>4, <3>5, <3>6, <3>7, <3>8 DEF Rest
  <2>3. QED
    BY <2>1, <2>2
<1>3. CASE GetOutgoing
  <2>1. Flags'
    BY <1>3, Zenon DEF GetOutgoing, GetStream, runVars, recVars, Flags, TypeFlags
  <2>2. Rest'
    <3>1. RunRest'
      BY <1>3 DEF GetOutgoing, GetStream, runVars, recVars, Rest, RunRest, TypePcs, TypeData, ChannelsByPc, ResultByPc, GoroutinesByPc, StreamsByConsumer, DrainedBeforeReturn, Streams, AppErrorTypes, SelfOutcomes
    <3>2. TypePcs'
      BY <1>3 DEF GetOutgoing, GetStream, runVars, recVars, Rest, RunRest, TypePcs, TypeData, ChannelsByPc, ResultByPc, GoroutinesByPc, StreamsByConsumer, DrainedBeforeReturn, Streams, AppErrorTypes, SelfOutcomes
    <3>3. TypeData'
      BY <1>3 DEF GetOutgoing, GetStream, runVars, recVars, Rest, RunRest, TypePcs, TypeData, ChannelsByPc, ResultByPc, GoroutinesByPc, StreamsByConsumer, DrainedBeforeReturn, Streams, AppErrorTypes, SelfOutcomes
    <3>4. ChannelsByPc'
      BY <1>3 DEF GetOutgoing, GetStream, runVars, recVars, Rest, RunRest, TypePcs, TypeData, ChannelsByPc, ResultByPc, GoroutinesByPc, StreamsByConsumer, DrainedBeforeReturn, Streams, AppErrorTypes, SelfOutcomes
    <3>5. ResultByPc'
      BY <1>3 DEF GetOutgoing, GetStream, runVars, recVars, Rest, RunRest, TypePcs, TypeData, ChannelsByPc, ResultByPc, GoroutinesByPc, StreamsByConsumer, DrainedBeforeReturn, Streams, AppErrorTypes, SelfOutcomes
    <3>6. GoroutinesByPc'
      BY <1>3 DEF GetOutgoing, GetStream, runVars, recVars, Rest, RunRest, TypePcs, TypeData, ChannelsByPc, ResultByPc, GoroutinesByPc, StreamsByConsumer, DrainedBeforeReturn, Streams, AppErrorTypes, SelfOutcomes
    <3>7. StreamsByConsumer'
      BY <1>3 DEF GetOutgoing, GetStream, runVars, recVars, Rest, RunRest, TypePcs, TypeData, ChannelsByPc, ResultByPc, GoroutinesByPc, StreamsByConsumer, DrainedBeforeReturn, Streams, AppErrorTypes, SelfOutcomes
    <3>8. DrainedBeforeReturn'
      BY <1>3 DEF GetOutgoing, GetStream, runVars, recVars, Rest, RunRest, TypePcs, TypeData, ChannelsByPc, ResultByPc, GoroutinesByPc, StreamsByConsumer, DrainedBeforeReturn, Streams, AppErrorTypes, SelfOutcomes
    <3>9. QED
      BY <3>1, <3>2, <3>3, <3>4, <3>5, <3>6, <3>7, <3>8 DEF Rest
  <2>3. QED
    BY <2>1, <2>2
<1>4. CASE SpawnRunApp
  <2>1. Flags'
    BY <1>4, Zenon DEF SpawnRunApp, runVars, recVars, Flags, TypeFlags
  <2>2. Rest'
    <3>1. RunRest'
      BY <1>4 DEF SpawnRunApp, runVars, recVars, Rest, RunRest, TypePcs, TypeData, ChannelsByPc, ResultByPc, GoroutinesByPc, StreamsByConsumer, DrainedBeforeReturn, Streams, AppErrorTypes, SelfOutcomes
    <3>2. TypePcs'
      BY <1>4 DEF SpawnRunApp, runVars, recVars, Rest, RunRest, TypePcs, TypeData, ChannelsByPc, ResultByPc, GoroutinesByPc, StreamsByConsumer, DrainedBeforeReturn, Streams, AppErrorTypes, SelfOutcomes
    <3>3. TypeData'
      BY <1>4 DEF SpawnRunApp, runVars, recVars, Rest, RunRest, TypePcs, TypeData, ChannelsByPc, ResultByPc, GoroutinesByPc, StreamsByConsumer, DrainedBeforeReturn, Streams, AppErrorTypes, SelfOutcomes
    <3>4. ChannelsByPc'
      BY <1>4 DEF SpawnRunApp, runVars, recVars, Rest, RunRest, TypePcs, TypeData, ChannelsByPc, ResultByPc, GoroutinesByPc, StreamsByConsumer, DrainedBeforeReturn, Streams, AppErrorTypes, SelfOutcomes
    <3>5. ResultByPc'
      BY <1>4 DEF SpawnRunApp, runVars, recVars, Rest, RunRest, TypePcs, TypeData, ChannelsByPc, ResultByPc, GoroutinesByPc, StreamsByConsumer, DrainedBeforeReturn, Streams, AppErrorTypes, SelfOutcomes
    <3>6. GoroutinesByPc'
      BY <1>4 DEF SpawnRunApp, runVars, recVars, Rest, RunRest, TypePcs, TypeData, ChannelsByPc, ResultByPc, GoroutinesByPc, StreamsByConsumer, DrainedBeforeReturn, Streams, AppErrorTypes, SelfOutcomes
    <3>7. StreamsByConsumer'
      BY <1>4 DEF SpawnRunApp, runVars, recVars, Rest, RunRest, TypePcs, TypeData, ChannelsByPc, ResultByPc, GoroutinesByPc, StreamsByConsumer, DrainedBeforeReturn, Streams, AppErrorTypes, SelfOutcomes
    <3>8. DrainedBeforeReturn'
      BY <1>4 DEF SpawnRunApp, runVars, recVars, Rest, RunRest, TypePcs, TypeData, ChannelsByPc, ResultByPc, GoroutinesByPc, StreamsByConsumer, DrainedBeforeReturn, Streams, AppErrorTypes, SelfOutcomes
    <3>9. QED
      BY <3>1, <3>2, <3>3, <3>4, <3>5, <3>6, <3>7, <3>8 DEF Rest
  <2>3. QED
    BY <2>1, <2>2
<1>5. CASE MainSelect
  <2>1. Flags'
    BY <1>5, Zenon DEF MainSelect, StopReasonOf, runVars, recVars, Flags, TypeFlags
  <2>2. Rest'
    <3>1. RunRest'
      BY <1>5 DEF MainSelect, StopReasonOf, runVars, recVars, Rest, RunRest, TypePcs, TypeData, ChannelsByPc, ResultByPc, GoroutinesByPc, StreamsByConsumer, DrainedBeforeReturn, Streams, AppErrorTypes, SelfOutcomes
    <3>2. TypePcs'
      BY <1>5 DEF MainSelect, StopReasonOf, runVars, recVars, Rest, RunRest, TypePcs, TypeData, ChannelsByPc, ResultByPc, GoroutinesByPc, StreamsByConsumer, DrainedBeforeReturn, Streams, AppErrorTypes, SelfOutcomes
    <3>3. TypeData'
      <4>1. recAppErrChan' = recAppErrChan
              \/ (recAppErrChan # <<>> /\ recAppErrChan' = Tail(recAppErrChan))
        BY <1>5, Zenon DEF MainSelect
      <4>2. recAppErrChan' \in Seq(AppErrorTypes) /\ Len(recAppErrChan') <= 1
        <5>1. recAppErrChan \in Seq(AppErrorTypes) /\ Len(recAppErrChan) <= 1
          BY DEF Rest, TypeData
        <5>2. recAppErrChan # <<>> =>
                Tail(recAppErrChan) \in Seq(AppErrorTypes)
                /\ Len(Tail(recAppErrChan)) < Len(recAppErrChan)
          BY <5>1, ReceiveShortens
        <5>3. QED
          BY <4>1, <5>1, <5>2
      <4>3. errCh' = errCh
              \/ \E s \in Streams : errCh[s] > 0 /\ errCh' = [errCh EXCEPT ![s] = @ - 1]
        BY <1>5, Zenon DEF MainSelect
      <4>4. errCh' \in [Streams -> 0..InsertErrChanCap]
        BY <4>3 DEF Rest, TypeData, Streams
      <4>5. QED
        BY <1>5, <4>2, <4>4 DEF MainSelect, Rest, TypeData
    <3>4. ChannelsByPc'
      <4>1. /\ UNCHANGED <<appPc, appErrCh, inodePc, inodeErrCh, recRunPc, insertErrors>>
            /\ recRunPc # "done" => recAppErrChan' = recAppErrChan
        BY <1>5 DEF MainSelect, Rest, ChannelsByPc, runVars
      <4>2. errCh["test"] + errCh["mock"] <= insertErrors
            /\ errCh \in [Streams -> 0..InsertErrChanCap] /\ insertErrors \in Nat
        BY DEF Rest, ChannelsByPc, TypeData, TypePcs
      <4>3. errCh'["test"] + errCh'["mock"] <= errCh["test"] + errCh["mock"]
        <5>1. CASE errCh' = errCh
          BY <5>1, <4>2 DEF Streams
        <5>2. CASE \E s \in Streams : errCh[s] > 0 /\ errCh' = [errCh EXCEPT ![s] = @ - 1]
          <6>1. PICK s \in Streams : errCh[s] > 0 /\ errCh' = [errCh EXCEPT ![s] = @ - 1]
            BY <5>2
          <6>2. CASE s = "test"
            BY <6>1, <6>2, <4>2 DEF Streams
          <6>3. CASE s = "mock"
            BY <6>1, <6>3, <4>2 DEF Streams
          <6>4. QED
            BY <6>1, <6>2, <6>3 DEF Streams
        <5>3. QED
          BY <5>1, <5>2, <1>5, Zenon DEF MainSelect
      <4>4. errCh'["test"] + errCh'["mock"] <= insertErrors'
        <5>1. errCh' \in [Streams -> 0..InsertErrChanCap]
          BY <3>3 DEF TypeData
        <5>2. QED
          BY <4>1, <4>2, <4>3, <5>1 DEF Streams
      <4>5. ChannelsByPc
        BY DEF Rest
      <4>6. QED
        BY <4>1, <4>4, <4>5, Zenon DEF ChannelsByPc
    <3>5. ResultByPc'
      BY <1>5 DEF MainSelect, StopReasonOf, runVars, recVars, Rest, RunRest, TypePcs, TypeData, ChannelsByPc, ResultByPc, GoroutinesByPc, StreamsByConsumer, DrainedBeforeReturn, Streams, AppErrorTypes, SelfOutcomes
    <3>6. GoroutinesByPc'
      BY <1>5 DEF MainSelect, StopReasonOf, runVars, recVars, Rest, RunRest, TypePcs, TypeData, ChannelsByPc, ResultByPc, GoroutinesByPc, StreamsByConsumer, DrainedBeforeReturn, Streams, AppErrorTypes, SelfOutcomes
    <3>7. StreamsByConsumer'
      BY <1>5 DEF MainSelect, StopReasonOf, runVars, recVars, Rest, RunRest, TypePcs, TypeData, ChannelsByPc, ResultByPc, GoroutinesByPc, StreamsByConsumer, DrainedBeforeReturn, Streams, AppErrorTypes, SelfOutcomes
    <3>8. DrainedBeforeReturn'
      BY <1>5 DEF MainSelect, StopReasonOf, runVars, recVars, Rest, RunRest, TypePcs, TypeData, ChannelsByPc, ResultByPc, GoroutinesByPc, StreamsByConsumer, DrainedBeforeReturn, Streams, AppErrorTypes, SelfOutcomes
    <3>9. QED
      BY <3>1, <3>2, <3>3, <3>4, <3>5, <3>6, <3>7, <3>8 DEF Rest
  <2>3. QED
    BY <2>1, <2>2
<1>6. CASE CloseChans
  <2>1. Flags'
    BY <1>6, Zenon DEF CloseChans, runVars, recVars, Flags, TypeFlags
  <2>2. Rest'
    BY <1>6 DEF CloseChans, runVars, recVars, Rest, RunRest, TypePcs, TypeData, ChannelsByPc, ResultByPc, GoroutinesByPc, StreamsByConsumer, DrainedBeforeReturn, Streams, AppErrorTypes, SelfOutcomes
  <2>3. QED
    BY <2>1, <2>2
<1>7. CASE Stopping
  <2>1. Flags'
    BY <1>7, Zenon DEF Stopping, runVars, recVars, Flags, TypeFlags
  <2>2. Rest'
    BY <1>7 DEF Stopping, runVars, recVars, Rest, RunRest, TypePcs, TypeData, ChannelsByPc, ResultByPc, GoroutinesByPc, StreamsByConsumer, DrainedBeforeReturn, Streams, AppErrorTypes, SelfOutcomes
  <2>3. QED
    BY <2>1, <2>2
<1>8. CASE WaitRun
  <2>1. Flags'
    BY <1>8, Zenon DEF WaitRun, runVars, recVars, Flags, TypeFlags
  <2>2. Rest'
    BY <1>8 DEF WaitRun, runVars, recVars, Rest, RunRest, TypePcs, TypeData, ChannelsByPc, ResultByPc, GoroutinesByPc, StreamsByConsumer, DrainedBeforeReturn, Streams, AppErrorTypes, SelfOutcomes
  <2>3. QED
    BY <2>1, <2>2
<1>9. CASE WaitHook
  <2>1. Flags'
    BY <1>9, Zenon DEF WaitHook, runVars, recVars, Flags, TypeFlags
  <2>2. Rest'
    BY <1>9 DEF WaitHook, runVars, recVars, Rest, RunRest, TypePcs, TypeData, ChannelsByPc, ResultByPc, GoroutinesByPc, StreamsByConsumer, DrainedBeforeReturn, Streams, AppErrorTypes, SelfOutcomes
  <2>3. QED
    BY <2>1, <2>2
<1>10. CASE WaitErrGrp
  <2>1. Flags'
    BY <1>10, Zenon DEF WaitErrGrp, runVars, recVars, Flags, TypeFlags
  <2>2. Rest'
    BY <1>10 DEF WaitErrGrp, runVars, recVars, Rest, RunRest, TypePcs, TypeData, ChannelsByPc, ResultByPc, GoroutinesByPc, StreamsByConsumer, DrainedBeforeReturn, Streams, AppErrorTypes, SelfOutcomes
  <2>3. QED
    BY <2>1, <2>2
<1>11. CASE RecRunCall
  <2>1. Flags'
    BY <1>11, Zenon DEF RecRunCall, RunStart, runVars, recVars, Flags, TypeFlags
  <2>2. Rest'
    <3>1. RunRest'
      BY <1>11 DEF RecRunCall, RunStart, runVars, recVars, Rest, RunRest, TypePcs, TypeData, ChannelsByPc, ResultByPc, GoroutinesByPc, StreamsByConsumer, DrainedBeforeReturn, Streams, AppErrorTypes, SelfOutcomes
    <3>2. TypePcs'
      BY <1>11 DEF RecRunCall, RunStart, runVars, recVars, Rest, RunRest, TypePcs, TypeData, ChannelsByPc, ResultByPc, GoroutinesByPc, StreamsByConsumer, DrainedBeforeReturn, Streams, AppErrorTypes, SelfOutcomes
    <3>3. TypeData'
      BY <1>11 DEF RecRunCall, RunStart, runVars, recVars, Rest, RunRest, TypePcs, TypeData, ChannelsByPc, ResultByPc, GoroutinesByPc, StreamsByConsumer, DrainedBeforeReturn, Streams, AppErrorTypes, SelfOutcomes
    <3>4. ChannelsByPc'
      BY <1>11 DEF RecRunCall, RunStart, runVars, recVars, Rest, RunRest, TypePcs, TypeData, ChannelsByPc, ResultByPc, GoroutinesByPc, StreamsByConsumer, DrainedBeforeReturn, Streams, AppErrorTypes, SelfOutcomes
    <3>5. ResultByPc'
      BY <1>11 DEF RecRunCall, RunStart, runVars, recVars, Rest, RunRest, TypePcs, TypeData, ChannelsByPc, ResultByPc, GoroutinesByPc, StreamsByConsumer, DrainedBeforeReturn, Streams, AppErrorTypes, SelfOutcomes
    <3>6. GoroutinesByPc'
      BY <1>11 DEF RecRunCall, RunStart, runVars, recVars, Rest, RunRest, TypePcs, TypeData, ChannelsByPc, ResultByPc, GoroutinesByPc, StreamsByConsumer, DrainedBeforeReturn, Streams, AppErrorTypes, SelfOutcomes
    <3>7. StreamsByConsumer'
      BY <1>11 DEF RecRunCall, RunStart, runVars, recVars, Rest, RunRest, TypePcs, TypeData, ChannelsByPc, ResultByPc, GoroutinesByPc, StreamsByConsumer, DrainedBeforeReturn, Streams, AppErrorTypes, SelfOutcomes
    <3>8. DrainedBeforeReturn'
      BY <1>11 DEF RecRunCall, RunStart, runVars, recVars, Rest, RunRest, TypePcs, TypeData, ChannelsByPc, ResultByPc, GoroutinesByPc, StreamsByConsumer, DrainedBeforeReturn, Streams, AppErrorTypes, SelfOutcomes
    <3>9. QED
      BY <3>1, <3>2, <3>3, <3>4, <3>5, <3>6, <3>7, <3>8 DEF Rest
  <2>3. QED
    BY <2>1, <2>2
<1>12. CASE RecRunReturns
  <2>1. Flags'
    BY <1>12, Zenon DEF RecRunReturns, runVars, recVars, Flags, TypeFlags
  <2>2. Rest'
    <3>1. RunRest'
      BY <1>12 DEF RecRunReturns, runVars, recVars, Rest, RunRest, TypePcs, TypeData, ChannelsByPc, ResultByPc, GoroutinesByPc, StreamsByConsumer, DrainedBeforeReturn, Streams, AppErrorTypes, SelfOutcomes
    <3>2. TypePcs'
      BY <1>12 DEF RecRunReturns, runVars, recVars, Rest, RunRest, TypePcs, TypeData, ChannelsByPc, ResultByPc, GoroutinesByPc, StreamsByConsumer, DrainedBeforeReturn, Streams, AppErrorTypes, SelfOutcomes
    <3>3. TypeData'
      <4>1. recAppErrChan = <<>> /\ runResult \in AppErrorTypes
        BY <1>12 DEF RecRunReturns, Rest, ChannelsByPc, ResultByPc
      <4>2. recAppErrChan' \in {recAppErrChan, Append(recAppErrChan, runResult)}
        BY <1>12, Zenon DEF RecRunReturns
      <4>3. recAppErrChan' \in Seq(AppErrorTypes) /\ Len(recAppErrChan') <= 1
        <5>1. <<>> \in Seq(AppErrorTypes) /\ Len(<<>>) <= 1
          BY EmptySeq
        <5>2. Append(<<>>, runResult) \in Seq(AppErrorTypes)
              /\ Len(Append(<<>>, runResult)) <= 1
          BY <4>1, SendOnEmpty
        <5>3. QED
          BY <4>1, <4>2, <5>1, <5>2, Zenon
      <4>4. QED
        BY <1>12, <4>3 DEF RecRunReturns, Rest, TypeData
    <3>4. ChannelsByPc'
      BY <1>12 DEF RecRunReturns, runVars, recVars, Rest, RunRest, TypePcs, TypeData, ChannelsByPc, ResultByPc, GoroutinesByPc, StreamsByConsumer, DrainedBeforeReturn, Streams, AppErrorTypes, SelfOutcomes
    <3>5. ResultByPc'
      BY <1>12 DEF RecRunReturns, runVars, recVars, Rest, RunRest, TypePcs, TypeData, ChannelsByPc, ResultByPc, GoroutinesByPc, StreamsByConsumer, DrainedBeforeReturn, Streams, AppErrorTypes, SelfOutcomes
    <3>6. GoroutinesByPc'
      BY <1>12 DEF RecRunReturns, runVars, recVars, Rest, RunRest, TypePcs, TypeData, ChannelsByPc, ResultByPc, GoroutinesByPc, StreamsByConsumer, DrainedBeforeReturn, Streams, AppErrorTypes, SelfOutcomes
    <3>7. StreamsByConsumer'
      BY <1>12 DEF RecRunReturns, runVars, recVars, Rest, RunRest, TypePcs, TypeData, ChannelsByPc, ResultByPc, GoroutinesByPc, StreamsByConsumer, DrainedBeforeReturn, Streams, AppErrorTypes, SelfOutcomes
    <3>8. DrainedBeforeReturn'
      BY <1>12 DEF RecRunReturns, runVars, recVars, Rest, RunRest, TypePcs, TypeData, ChannelsByPc, ResultByPc, GoroutinesByPc, StreamsByConsumer, DrainedBeforeReturn, Streams, AppErrorTypes, SelfOutcomes
    <3>9. QED
      BY <3>1, <3>2, <3>3, <3>4, <3>5, <3>6, <3>7, <3>8 DEF Rest
  <2>3. QED
    BY <2>1, <2>2
<1>13. CASE InRun(InodeStart)
  <2>1. Flags'
    BY <1>13, Zenon DEF InodeStart, InRun, runVars, recVars, Flags, TypeFlags
  <2>2. Rest'
    BY <1>13 DEF InodeStart, InRun, runVars, recVars, Rest, RunRest, TypePcs, TypeData, ChannelsByPc, ResultByPc, GoroutinesByPc, StreamsByConsumer, DrainedBeforeReturn, Streams, AppErrorTypes, SelfOutcomes
  <2>3. QED
    BY <2>1, <2>2
<1>14. CASE InRun(AppStart)
  <2>1. Flags'
    BY <1>14, Zenon DEF AppStart, InRun, runVars, recVars, Flags, TypeFlags
  <2>2. Rest'
    BY <1>14 DEF AppStart, InRun, runVars, recVars, Rest, RunRest, TypePcs, TypeData, ChannelsByPc, ResultByPc, GoroutinesByPc, StreamsByConsumer, DrainedBeforeReturn, Streams, AppErrorTypes, SelfOutcomes
  <2>3. QED
    BY <2>1, <2>2
<1>15. CASE InRun(InodeHandoff)
  <2>1. Flags'
    BY <1>15, Zenon DEF InodeHandoff, InRun, runVars, recVars, Flags, TypeFlags
  <2>2. Rest'
    BY <1>15 DEF InodeHandoff, InRun, runVars, recVars, Rest, RunRest, TypePcs, TypeData, ChannelsByPc, ResultByPc, GoroutinesByPc, StreamsByConsumer, DrainedBeforeReturn, Streams, AppErrorTypes, SelfOutcomes
  <2>3. QED
    BY <2>1, <2>2
<1>16. CASE \E ok \in BOOLEAN : InRun(SendInode(ok))
  <2>1. Flags'
    BY <1>16, Zenon DEF SendInode, InRun, runVars, recVars, Flags, TypeFlags
  <2>2. Rest'
    <3>1. RunRest'
      <4>1. PICK ok \in BOOLEAN : InRun(SendInode(ok))
        BY <1>16
      <4>2. inodeErrCh = <<>>
        BY <4>1 DEF InRun, SendInode, Rest, ChannelsByPc
      <4>3. inodeErrCh' \in {inodeErrCh, Append(inodeErrCh, "Internal")}
        BY <4>1, Zenon DEF InRun, SendInode
      <4>4. inodeErrCh' \in Seq({"Internal"}) /\ Len(inodeErrCh') <= 1
        <5>1. <<>> \in Seq({"Internal"}) /\ Len(<<>>) <= 1
          BY EmptySeq
        <5>2. Append(<<>>, "Internal") \in Seq({"Internal"})
              /\ Len(Append(<<>>, "Internal")) <= 1
          BY SendOnEmpty
        <5>3. QED
          BY <4>2, <4>3, <5>1, <5>2, Zenon
      <4>5. QED
        BY <4>1, <4>4 DEF InRun, SendInode, Rest, RunRest
    <3>2. TypePcs'
      BY <1>16 DEF SendInode, InRun, runVars, recVars, Rest, RunRest, TypePcs, TypeData, ChannelsByPc, ResultByPc, GoroutinesByPc, StreamsByConsumer, DrainedBeforeReturn, Streams, AppErrorTypes, SelfOutcomes
    <3>3. TypeData'
      BY <1>16 DEF SendInode, InRun, runVars, recVars, Rest, RunRest, TypePcs, TypeData, ChannelsByPc, ResultByPc, GoroutinesByPc, StreamsByConsumer, DrainedBeforeReturn, Streams, AppErrorTypes, SelfOutcomes
    <3>4. ChannelsByPc'
      BY <1>16 DEF SendInode, InRun, runVars, recVars, Rest, RunRest, TypePcs, TypeData, ChannelsByPc, ResultByPc, GoroutinesByPc, StreamsByConsumer, DrainedBeforeReturn, Streams, AppErrorTypes, SelfOutcomes
    <3>5. ResultByPc'
      BY <1>16 DEF SendInode, InRun, runVars, recVars, Rest, RunRest, TypePcs, TypeData, ChannelsByPc, ResultByPc, GoroutinesByPc, StreamsByConsumer, DrainedBeforeReturn, Streams, AppErrorTypes, SelfOutcomes
    <3>6. GoroutinesByPc'
      BY <1>16 DEF SendInode, InRun, runVars, recVars, Rest, RunRest, TypePcs, TypeData, ChannelsByPc, ResultByPc, GoroutinesByPc, StreamsByConsumer, DrainedBeforeReturn, Streams, AppErrorTypes, SelfOutcomes
    <3>7. StreamsByConsumer'
      BY <1>16 DEF SendInode, InRun, runVars, recVars, Rest, RunRest, TypePcs, TypeData, ChannelsByPc, ResultByPc, GoroutinesByPc, StreamsByConsumer, DrainedBeforeReturn, Streams, AppErrorTypes, SelfOutcomes
    <3>8. DrainedBeforeReturn'
      BY <1>16 DEF SendInode, InRun, runVars, recVars, Rest, RunRest, TypePcs, TypeData, ChannelsByPc, ResultByPc, GoroutinesByPc, StreamsByConsumer, DrainedBeforeReturn, Streams, AppErrorTypes, SelfOutcomes
    <3>9. QED
      BY <3>1, <3>2, <3>3, <3>4, <3>5, <3>6, <3>7, <3>8 DEF Rest
  <2>3. QED
    BY <2>1, <2>2
<1>17. CASE InRun(AppExit)
  <2>1. Flags'
    BY <1>17, Zenon DEF AppExit, InRun, AppEnds, SelfOutcomes, runVars, recVars, Flags, TypeFlags
  <2>2. Rest'
    BY <1>17 DEF AppExit, InRun, AppEnds, SelfOutcomes, runVars, recVars, Rest, RunRest, TypePcs, TypeData, ChannelsByPc, ResultByPc, GoroutinesByPc, StreamsByConsumer, DrainedBeforeReturn, Streams, AppErrorTypes, SelfOutcomes
  <2>3. QED
    BY <2>1, <2>2
<1>18. CASE InRun(AppCancelled)
  <2>1. Flags'
    BY <1>18, Zenon DEF AppCancelled, InRun, AppEnds, runVars, recVars, Flags, TypeFlags
  <2>2. Rest'
    BY <1>18 DEF AppCancelled, InRun, AppEnds, runVars, recVars, Rest, RunRest, TypePcs, TypeData, ChannelsByPc, ResultByPc, GoroutinesByPc, StreamsByConsumer, DrainedBeforeReturn, Streams, AppErrorTypes, SelfOutcomes
  <2>3. QED
    BY <2>1, <2>2
<1>19. CASE InRun(RunSelect)
  <2>1. Flags'
    BY <1>19, Zenon DEF RunSelect, InRun, runVars, recVars, Flags, TypeFlags
  <2>2. Rest'
    BY <1>19 DEF RunSelect, InRun, runVars, recVars, Rest, RunRest, TypePcs, TypeData, ChannelsByPc, ResultByPc, GoroutinesByPc, StreamsByConsumer, DrainedBeforeReturn, Streams, AppErrorTypes, SelfOutcomes
  <2>3. QED
    BY <2>1, <2>2
<1>20. CASE InRun(RunReturn)
  <2>1. Flags'
    BY <1>20, Zenon DEF RunReturn, InRun, runVars, recVars, Flags, TypeFlags
  <2>2. Rest'
    BY <1>20 DEF RunReturn, InRun, runVars, recVars, Rest, RunRest, TypePcs, TypeData, ChannelsByPc, ResultByPc, GoroutinesByPc, StreamsByConsumer, DrainedBeforeReturn, Streams, AppErrorTypes, SelfOutcomes
  <2>3. QED
    BY <2>1, <2>2
<1>21. CASE \E s \in Streams : Consume(s)
  <2>1. Flags'
    BY <1>21, Zenon DEF Consume, runVars, recVars, Flags, TypeFlags
  <2>2. Rest'
    <3>1. RunRest'
      BY <1>21 DEF Consume, runVars, recVars, Rest, RunRest, TypePcs, TypeData, ChannelsByPc, ResultByPc, GoroutinesByPc, StreamsByConsumer, DrainedBeforeReturn, Streams, AppErrorTypes, SelfOutcomes
    <3>2. TypePcs'
      BY <1>21 DEF Consume, runVars, recVars, Rest, RunRest, TypePcs, TypeData, ChannelsByPc, ResultByPc, GoroutinesByPc, StreamsByConsumer, DrainedBeforeReturn, Streams, AppErrorTypes, SelfOutcomes
    <3>3. TypeData'
      <4>1. PICK s \in Streams : Consume(s)
        BY <1>21
      <4>2. pending' \in [Streams -> Nat]
        BY <4>1 DEF Consume, Rest, TypeData, Streams
      <4>3. errCh' \in [Streams -> 0..InsertErrChanCap] /\ insertErrors' \in 0..MaxInsertErrors
        <5>1. CASE errCh' = errCh /\ insertErrors' \in {insertErrors, insertErrors + 1}
          <6>1. insertErrors' <= MaxInsertErrors
            BY <4>1, <5>1 DEF Consume, Rest, TypeData
          <6>2. QED
            BY <5>1, <6>1 DEF Rest, TypeData
        <5>2. CASE insertErrors < MaxInsertErrors /\ insertErrors' = insertErrors + 1
                   /\ errCh' = [errCh EXCEPT ![s] = @ + 1]
          BY <4>1, <5>2 DEF Rest, TypeData, ChannelsByPc, Streams
        <5>3. QED
          BY <4>1, <5>1, <5>2, Zenon DEF Consume
      <4>4. QED
        BY <4>1, <4>2, <4>3 DEF Consume, Rest, TypeData
    <3>4. ChannelsByPc'
      <4>1. PICK s \in Streams : Consume(s)
        BY <1>21
      <4>2. UNCHANGED <<appPc, appErrCh, inodePc, inodeErrCh, recRunPc, recAppErrChan>>
        BY <4>1 DEF Consume, runVars
      <4>3. \/ errCh' = errCh /\ insertErrors' \in {insertErrors, insertErrors + 1}
            \/ insertErrors' = insertErrors + 1 /\ errCh' = [errCh EXCEPT ![s] = @ + 1]
        BY <4>1, Zenon DEF Consume
      <4>4. errCh["test"] + errCh["mock"] <= insertErrors
            /\ errCh \in [Streams -> 0..InsertErrChanCap] /\ insertErrors \in Nat
        BY DEF Rest, ChannelsByPc, TypeData
      <4>5. errCh'["test"] + errCh'["mock"] <= insertErrors'
        <5>1. CASE errCh' = errCh /\ insertErrors' \in {insertErrors, insertErrors + 1}
          BY <5>1, <4>4 DEF Streams
        <5>2. CASE insertErrors' = insertErrors + 1 /\ errCh' = [errCh EXCEPT ![s] = @ + 1]
          <6>1. CASE s = "test"
            BY <5>2, <6>1, <4>4 DEF Streams
          <6>2. CASE s = "mock"
            BY <5>2, <6>2, <4>4 DEF Streams
          <6>3. QED
            BY <6>1, <6>2 DEF Streams
        <5>3. QED
          BY <4>3, <5>1, <5>2
      <4>6. QED
        BY <4>2, <4>5, Zenon DEF Rest, ChannelsByPc
    <3>5. ResultByPc'
      BY <1>21 DEF Consume, runVars, recVars, Rest, RunRest, TypePcs, TypeData, ChannelsByPc, ResultByPc, GoroutinesByPc, StreamsByConsumer, DrainedBeforeReturn, Streams, AppErrorTypes, SelfOutcomes
    <3>6. GoroutinesByPc'
      BY <1>21 DEF Consume, runVars, recVars, Rest, RunRest, TypePcs, TypeData, ChannelsByPc, ResultByPc, GoroutinesByPc, StreamsByConsumer, DrainedBeforeReturn, Streams, AppErrorTypes, SelfOutcomes
    <3>7. StreamsByConsumer'
      BY <1>21 DEF Consume, runVars, recVars, Rest, RunRest, TypePcs, TypeData, ChannelsByPc, ResultByPc, GoroutinesByPc, StreamsByConsumer, DrainedBeforeReturn, Streams, AppErrorTypes, SelfOutcomes
    <3>8. DrainedBeforeReturn'
      BY <1>21 DEF Consume, runVars, recVars, Rest, RunRest, TypePcs, TypeData, ChannelsByPc, ResultByPc, GoroutinesByPc, StreamsByConsumer, DrainedBeforeReturn, Streams, AppErrorTypes, SelfOutcomes
    <3>9. QED
      BY <3>1, <3>2, <3>3, <3>4, <3>5, <3>6, <3>7, <3>8 DEF Rest
  <2>3. QED
    BY <2>1, <2>2
<1>22. CASE \E s \in Streams : ConsumerEnds(s)
  <2>1. Flags'
    BY <1>22, Zenon DEF ConsumerEnds, runVars, recVars, Flags, TypeFlags
  <2>2. Rest'
    BY <1>22 DEF ConsumerEnds, runVars, recVars, Rest, RunRest, TypePcs, TypeData, ChannelsByPc, ResultByPc, GoroutinesByPc, StreamsByConsumer, DrainedBeforeReturn, Streams, AppErrorTypes, SelfOutcomes
  <2>3. QED
    BY <2>1, <2>2
<1>23. CASE \E s \in Streams : Capture(s)
  <2>1. Flags'
    BY <1>23, Zenon DEF Capture, runVars, recVars, Flags, TypeFlags
  <2>2. Rest'
    BY <1>23 DEF Capture, runVars, recVars, Rest, RunRest, TypePcs, TypeData, ChannelsByPc, ResultByPc, GoroutinesByPc, StreamsByConsumer, DrainedBeforeReturn, Streams, AppErrorTypes, SelfOutcomes
  <2>3. QED
    BY <2>1, <2>2
<1>24. CASE ProxyStop
  <2>1. Flags'
    BY <1>24, Zenon DEF ProxyStop, runVars, recVars, Flags, TypeFlags
  <2>2. Rest'
    BY <1>24 DEF ProxyStop, runVars, recVars, Rest, RunRest, TypePcs, TypeData, ChannelsByPc, ResultByPc, GoroutinesByPc, StreamsByConsumer, DrainedBeforeReturn, Streams, AppErrorTypes, SelfOutcomes
  <2>3. QED
    BY <2>1, <2>2
<1>25. CASE HooksUnload
  <2>1. Flags'
    BY <1>25, Zenon DEF HooksUnload, runVars, recVars, Flags, TypeFlags
  <2>2. Rest'
    BY <1>25 DEF HooksUnload, runVars, recVars, Rest, RunRest, TypePcs, TypeData, ChannelsByPc, ResultByPc, GoroutinesByPc, StreamsByConsumer, DrainedBeforeReturn, Streams, AppErrorTypes, SelfOutcomes
  <2>3. QED
    BY <2>1, <2>2
<1>26. CASE TimerFires
  <2>1. Flags'
    BY <1>26, Zenon DEF TimerFires, runVars, recVars, Flags, TypeFlags
  <2>2. Rest'
    BY <1>26 DEF TimerFires, runVars, recVars, Rest, RunRest, TypePcs, TypeData, ChannelsByPc, ResultByPc, GoroutinesByPc, StreamsByConsumer, DrainedBeforeReturn, Streams, AppErrorTypes, SelfOutcomes
  <2>3. QED
    BY <2>1, <2>2
<1>27. CASE TimerCtxDone
  <2>1. Flags'
    BY <1>27, Zenon DEF TimerCtxDone, runVars, recVars, Flags, TypeFlags
  <2>2. Rest'
    BY <1>27 DEF TimerCtxDone, runVars, recVars, Rest, RunRest, TypePcs, TypeData, ChannelsByPc, ResultByPc, GoroutinesByPc, StreamsByConsumer, DrainedBeforeReturn, Streams, AppErrorTypes, SelfOutcomes
  <2>3. QED
    BY <2>1, <2>2
<1>28. CASE CancelCtx
  <2>1. Flags'
    BY <1>28, Zenon DEF CancelCtx, runVars, recVars, Flags, TypeFlags
  <2>2. Rest'
    BY <1>28 DEF CancelCtx, runVars, recVars, Rest, RunRest, TypePcs, TypeData, ChannelsByPc, ResultByPc, GoroutinesByPc, StreamsByConsumer, DrainedBeforeReturn, Streams, AppErrorTypes, SelfOutcomes
  <2>3. QED
    BY <2>1, <2>2
<1>29. CASE UNCHANGED vars
  <2>1. Flags'
    BY <1>29, Zenon DEF vars, runVars, recVars, Flags, TypeFlags
  <2>2. Rest'
    BY <1>29 DEF vars, runVars, recVars, Rest, RunRest, TypePcs, TypeData, ChannelsByPc, ResultByPc, GoroutinesByPc, StreamsByConsumer, DrainedBeforeReturn, Streams, AppErrorTypes, SelfOutcomes
  <2>3. QED
    BY <2>1, <2>2
<1>30. QED
  BY <1>1, <1>2, <1>3, <1>4, <1>5, <1>6, <1>7, <1>8, <1>9, <1>10, <1>11, <1>12, <1>13, <1>14, <1>15, <1>16, <1>17, <1>18, <1>19, <1>20, <1>21, <1>22, <1>23, <1>24, <1>25, <1>26, <1>27, <1>28, <1>29 DEF Next, MainStep, OtherStep, RunGoroutines

(* In every reachable state of a recording session the channels, results, *)
(* goroutines and streams agree with the program counters (IInv): each    *)
(* one-value channel of Core.Run is empty until its sender has finished,  *)
(* a consumer is done only once its stream is closed and drained,          *)
(* and the insert errors sent never exceed the failed inserts.             *)
THEOREM AlwaysIInv == Spec => []IInv
BY InitIInv, NextIInv, PTL DEF Spec

(* Every reachable state of a session is well typed: in particular         *)
(* appErrCh, inodeErrCh and appErrChan never hold more than their one      *)
(* value, and the insert error buffers never overflow.                     *)
THEOREM RecordTypeCorrect == Spec => []TypeOK
<1>1. IInv => TypeOK
  BY DEF IInv
<1>2. QED
  BY <1>1, AlwaysIInv, PTL

(* Whatever the order in which the application, the hooks, the timer and   *)
(* the user end the session, Start returns (its deferred errGrp.Wait,      *)
(* lines 88-92) only after both streams are closed and every captured test *)
(* case and mock has been received by its consumer.                         *)
THEOREM Drained == Spec => []DrainedBeforeReturn
<1>1. IInv => DrainedBeforeReturn
  BY DEF IInv
<1>2. QED
  BY <1>1, AlwaysIInv, PTL
-----------------------------------------------------------------------------
(* The hooks' context starts uncancelled and Core.Hook's shutdown          *)
(* goroutine has not started.                                              *)
LEMMA InitOrder == Init => HookOrder
BY DEF Init, HookOrder

(* Every step keeps the order of Start's deferred calls: hookCtxCancel     *)
(* after runAppErrGrp.Wait, the shutdown goroutine after hookCtxCancel.    *)
LEMMA NextOrder == IInv /\ HookOrder /\ [Next]_vars => HookOrder'
<1> SUFFICES ASSUME Rest, HookOrder, [Next]_vars PROVE HookOrder'
  BY IInvParts
<1>1. CASE StartSetup
  BY <1>1 DEF StartSetup, runVars, recVars, HookOrder, Rest, TypePcs
<1>2. CASE GetIncoming
  BY <1>2 DEF GetIncoming, GetStream, runVars, recVars, HookOrder, Rest, TypePcs
<1>3. CASE GetOutgoing
  BY <1>3 DEF GetOutgoing, GetStream, runVars, recVars, HookOrder, Rest, TypePcs
<1>4. CASE SpawnRunApp
  BY <1>4 DEF SpawnRunApp, runVars, recVars, HookOrder, Rest, TypePcs
<1>5. CASE MainSelect
  BY <1>5 DEF MainSelect, StopReasonOf, runVars, recVars, HookOrder, Rest, TypePcs
<1>6. CASE CloseChans
  BY <1>6 DEF CloseChans, runVars, recVars, HookOrder, Rest, TypePcs
<1>7. CASE Stopping
  BY <1>7 DEF Stopping, runVars, recVars, HookOrder, Rest, TypePcs
<1>8. CASE WaitRun
  BY <1>8 DEF WaitRun, runVars, recVars, HookOrder, Rest, TypePcs
<1>9. CASE WaitHook
  BY <1>9 DEF WaitHook, runVars, recVars, HookOrder, Rest, TypePcs
<1>10. CASE WaitErrGrp
  BY <1>10 DEF WaitErrGrp, runVars, recVars, HookOrder, Rest, TypePcs
<1>11. CASE RecRunCall
  BY <1>11 DEF RecRunCall, RunStart, runVars, recVars, HookOrder, Rest, TypePcs
<1>12. CASE RecRunReturns
  BY <1>12 DEF RecRunReturns, runVars, recVars, HookOrder, Rest, TypePcs
<1>13. CASE InRun(InodeStart)
  BY <1>13 DEF InodeStart, InRun, runVars, recVars, HookOrder, Rest, TypePcs
<1>14. CASE InRun(AppStart)
  BY <1>14 DEF AppStart, InRun, runVars, recVars, HookOrder, Rest, TypePcs
<1>15. CASE InRun(InodeHandoff)
  BY <1>15 DEF InodeHandoff, InRun, runVars, recVars, HookOrder, Rest, TypePcs
<1>16. CASE \E ok \in BOOLEAN : InRun(SendInode(ok))
  BY <1>16 DEF SendInode, InRun, runVars, recVars, HookOrder, Rest, TypePcs
<1>17. CASE InRun(AppExit)
  BY <1>17 DEF AppExit, InRun, AppEnds, SelfOutcomes, runVars, recVars, HookOrder, Rest, TypePcs
<1>18. CASE InRun(AppCancelled)
  BY <1>18 DEF AppCancelled, InRun, AppEnds, runVars, recVars, HookOrder, Rest, TypePcs
<1>19. CASE InRun(RunSelect)
  BY <1>19 DEF RunSelect, InRun, runVars, recVars, HookOrder, Rest, TypePcs
<1>20. CASE InRun(RunReturn)
  BY <1>20 DEF RunReturn, InRun, runVars, recVars, HookOrder, Rest, TypePcs
<1>21. CASE \E s \in Streams : Consume(s)
  BY <1>21 DEF Consume, runVars, recVars, HookOrder, Rest, TypePcs
<1>22. CASE \E s \in Streams : ConsumerEnds(s)
  BY <1>22 DEF ConsumerEnds, runVars, recVars, HookOrder, Rest, TypePcs
<1>23. CASE \E s \in Streams : Capture(s)
  BY <1>23 DEF Capture, runVars, recVars, HookOrder, Rest, TypePcs
<1>24. CASE ProxyStop
  BY <1>24 DEF ProxyStop, runVars, recVars, HookOrder, Rest, TypePcs
<1>25. CASE HooksUnload
  BY <1>25 DEF HooksUnload, runVars, recVars, HookOrder, Rest, TypePcs
<1>26. CASE TimerFires
  BY <1>26 DEF TimerFires, runVars, recVars, HookOrder, Rest, TypePcs
<1>27. CASE TimerCtxDone
  BY <1>27 DEF TimerCtxDone, runVars, recVars, HookOrder, Rest, TypePcs
<1>28. CASE CancelCtx
  BY <1>28 DEF CancelCtx, runVars, recVars, HookOrder, Rest, TypePcs
<1>29. CASE UNCHANGED vars
  BY <1>29 DEF vars, runVars, recVars, HookOrder
<1>30. QED
  BY <1>1, <1>2, <1>3, <1>4, <1>5, <1>6, <1>7, <1>8, <1>9, <1>10, <1>11, <1>12, <1>13, <1>14, <1>15, <1>16, <1>17, <1>18, <1>19, <1>20, <1>21, <1>22, <1>23, <1>24, <1>25, <1>26, <1>27, <1>28, <1>29 DEF Next, MainStep, OtherStep, RunGoroutines

(* IInv and HookOrder hold in every reachable state of a session. *)
LEMMA AlwaysOrder == Spec => [](IInv /\ HookOrder)
BY InitIInv, NextIInv, InitOrder, NextOrder, PTL DEF Spec

(* Only stopping the proxy and unloading the hooks close a stream, and     *)
(* each runs after hookCtxCancel, which follows the application's return. *)
LEMMA CloseStep == IInv /\ HookOrder /\ [Next]_vars => [StreamClosedAfterApp]_vars
<1> SUFFICES ASSUME Rest, HookOrder, [Next]_vars PROVE StreamClosedAfterApp
  BY IInvParts DEF StreamClosedAfterApp
<1>1. CASE ProxyStop \/ HooksUnload
  BY <1>1 DEF ProxyStop, HooksUnload, StreamClosedAfterApp, HookOrder
<1>2. CASE GetIncoming \/ GetOutgoing
  BY <1>2 DEF GetIncoming, GetOutgoing, GetStream, StreamClosedAfterApp, Rest, TypeData,
              Streams
<1>3. CASE ~(ProxyStop \/ HooksUnload \/ GetIncoming \/ GetOutgoing)
  <2>1. open' = open
    BY <1>3 DEF Next, MainStep, OtherStep, RunGoroutines, InRun, vars, recVars, StartSetup,
                SpawnRunApp, MainSelect, CloseChans, Stopping, WaitRun, WaitHook,
                WaitErrGrp, RecRunCall, RecRunReturns, Consume, ConsumerEnds, Capture,
                TimerFires, TimerCtxDone, CancelCtx
  <2>2. QED
    BY <2>1 DEF StreamClosedAfterApp
<1>4. QED
  BY <1>1, <1>2, <1>3

(* Whatever the order in which the application ends, the user interrupts  *)
(* and the deferred calls run, Core.Hook's shutdown goroutine closes a     *)
(* stream only after the goroutine running the application has returned   *)
(* from Core.Run (the property StreamsCloseAfterApp).                      *)
THEOREM StreamsClosedLate == Spec => StreamsCloseAfterApp
BY AlwaysOrder, CloseStep, PTL DEF Spec, StreamsCloseAfterApp
=============================================================================
