----------------------------- MODULE RecordStart -----------------------------
(***************************************************************************)
(* The recording session: recorder.Start (src/unnamed/part_001 lines       *)
(* 38-243) together with Core.Run (CoreRun) and the shutdown goroutine     *)
(* Core.Hook leaves behind (src/pkg/core/core.go lines 110-133).           *)
(*                                                                         *)
(* Start sets up the application, hooks it, and starts: a consumer that    *)
(* inserts every test case of the incoming stream, one that inserts every  *)
(* mock of the outgoing stream (each reports insert errors on a buffered   *)
(* channel), a goroutine that runs the application through Core.Run and    *)
(* forwards its AppError on appErrChan, and an optional timer.  It then    *)
(* waits for the first of: an application error, an insert error, the     *)
(* cancellation of its context.  On return its deferred calls run in LIFO  *)
(* order: the three error channels are closed, then the stop function      *)
(* asks the process to stop (utils.Stop, unless the context is already     *)
(* cancelled), cancels the application's context and waits for it,        *)
(* cancels the hooks' context and waits for them, and waits for the        *)
(* consumers and the timer.                                                *)
(*                                                                         *)
(* Not in the sources, taken from the specification: the incoming stream   *)
(* is closed when the hooks are unloaded and the outgoing stream when the  *)
(* proxy stops; utils.Stop signals the process, whose handler cancels      *)
(* Start's context.                                                        *)
(***************************************************************************)
EXTENDS CoreRun

CONSTANTS
  RecordTimer,      \* config.Record.RecordTimer # 0
  MaxItems,         \* test cases (and mocks) the hooks capture in a session
  MaxInsertErrors,  \* inserts that fail in a session
  InsertErrChanCap  \* buffer of insertTestErrChan and insertMockErrChan (10)

ASSUME RecordTimerAssumption == RecordTimer \in BOOLEAN
ASSUME ItemsAssumption == MaxItems \in Nat /\ MaxInsertErrors \in Nat
\* Fewer failed inserts than a channel holds: a consumer's send never blocks.
ASSUME CapAssumption == InsertErrChanCap \in Nat /\ MaxInsertErrors <= InsertErrChanCap

\* The two streams: test cases from the hooks, mocks from the proxy.
Streams == {"test", "mock"}

VARIABLES
  mainPc,        \* where Start is
  result,        \* what Start returns: "none", "nil" or "error"
  stopReason,    \* why it stopped: "unset" (the zero string), "setup", "app", "appStopped", "unknown", "insert"
  ctxDone,       \* Start's ctx is cancelled
  stopSent,      \* utils.Stop has signalled the process
  hookCancel,    \* hookCtxCancel has been called
  hookPc,        \* Core.Hook's shutdown goroutine: "none", "waiting", "proxyStopped", "done"
  recRunPc,      \* the goroutine running the application: "none", "spawned", "inRun", "done"
  timerPc,       \* the timer goroutine: "none", "waiting", "done"
  open,          \* open[s]: stream s is open
  pending,       \* pending[s]: items of stream s not yet received
  emitted,       \* emitted[s]: items the hooks or the proxy put on stream s
  cons,          \* cons[s]: consumer of stream s: "none", "loop", "done"
  errCh,         \* errCh[s]: errors buffered in insertTestErrChan / insertMockErrChan
  insertErrors,  \* inserts that failed so far
  recAppErrChan, \* contents of appErrChan (buffer 1)
  chansClosed,   \* the three error channels have been closed
  panicked       \* a goroutine sent on a closed channel: the process crashed

recVars == <<mainPc, result, stopReason, ctxDone, stopSent, hookCancel, hookPc, recRunPc,
             timerPc, open, pending, emitted, cons, errCh, insertErrors, recAppErrChan,
             chansClosed, panicked>>
vars == <<runVars, recVars>>

Init ==
  /\ RunInit
  /\ mainPc = "init" /\ result = "none" /\ stopReason = "unset"
  /\ ctxDone = FALSE /\ stopSent = FALSE /\ hookCancel = FALSE
  /\ hookPc = "none" /\ recRunPc = "none" /\ timerPc = "none"
  /\ open = [s \in Streams |-> FALSE] /\ pending = [s \in Streams |-> 0]
  /\ emitted = [s \in Streams |-> 0] /\ cons = [s \in Streams |-> "none"]
  /\ errCh = [s \in Streams |-> 0] /\ insertErrors = 0
  /\ recAppErrChan = <<>> /\ chansClosed = FALSE /\ panicked = FALSE

-----------------------------------------------------------------------------
(* Start up to the hooks (lines 98-130): a failure of GetAllTestSetIDs or  *)
(* Setup returns an error; a cancelled context returns nil; otherwise Hook *)
(* is called (core.go lines 71-182), which fails either before it starts   *)
(* its shutdown goroutine (line 110) or after.                             *)
StartSetup ==
  /\ ~panicked
  /\ mainPc = "init"
  /\ \/ /\ result' = "error" /\ stopReason' = "setup" /\ mainPc' = "closing"
        /\ UNCHANGED hookPc
     \/ /\ ctxDone
        /\ result' = "nil" /\ mainPc' = "closing"
        /\ UNCHANGED <<stopReason, hookPc>>
     \/ /\ ~ctxDone
        /\ hookPc' \in {"none", "waiting"}
        /\ result' = "error" /\ stopReason' = "setup" /\ mainPc' = "closing"
     \/ /\ ~ctxDone
        /\ hookPc' = "waiting"
        /\ mainPc' = "hooked"
        /\ UNCHANGED <<result, stopReason>>
  /\ UNCHANGED <<runVars, ctxDone, stopSent, hookCancel, recRunPc, timerPc, open, pending,
                 emitted, cons, errCh, insertErrors, recAppErrChan, chansClosed, panicked>>

(* GetIncoming or GetOutgoing (lines 133-182): on success the stream is   *)
(* open and its consumer started; on failure Start returns an error.       *)
GetStream(s, from, to) ==
  /\ ~panicked
  /\ mainPc = from
  /\ \/ /\ open' = [open EXCEPT ![s] = TRUE] /\ cons' = [cons EXCEPT ![s] = "loop"]
        /\ mainPc' = to
        /\ UNCHANGED <<result, stopReason>>
     \/ /\ result' = "error" /\ stopReason' = "setup" /\ mainPc' = "closing"
        /\ UNCHANGED <<open, cons>>
  /\ UNCHANGED <<runVars, ctxDone, stopSent, hookCancel, hookPc, recRunPc, timerPc, pending,
                 emitted, errCh, insertErrors, recAppErrChan, chansClosed, panicked>>

GetIncoming == GetStream("test", "hooked", "incoming")
GetOutgoing == GetStream("mock", "incoming", "outgoing")

(* The application goroutine and the timer are started (lines 185-212). *)
SpawnRunApp ==
  /\ ~panicked
  /\ mainPc = "outgoing"
  /\ recRunPc' = "spawned"
  /\ timerPc' = IF RecordTimer THEN "waiting" ELSE "none"
  /\ mainPc' = "select"
  /\ UNCHANGED <<runVars, result, stopReason, ctxDone, stopSent, hookCancel, hookPc, open,
                 pending, emitted, cons, errCh, insertErrors, recAppErrChan, chansClosed,
                 panicked>>

(* The select of lines 215-240 and the AppErrorType switch. *)
StopReasonOf(e) ==
  CASE e \in {"CommandError", "UnExpected", "Internal"} -> "app"
    [] e = "AppStopped"                                 -> "appStopped"
    [] e = "CtxCanceled"                                -> "unset"
    [] OTHER                                            -> "unknown"

MainSelect ==
  /\ ~panicked
  /\ mainPc = "select"
  /\ \/ /\ recAppErrChan # <<>>
        /\ LET e == Head(recAppErrChan)
           IN  /\ stopReason' = StopReasonOf(e)
               /\ result' = IF e \in {"AppStopped", "CtxCanceled"} THEN "nil" ELSE "error"
        /\ recAppErrChan' = Tail(recAppErrChan)
        /\ UNCHANGED errCh
     \/ \E s \in Streams :
          /\ errCh[s] > 0
          /\ errCh' = [errCh EXCEPT ![s] = @ - 1]
          /\ result' = "error" /\ stopReason' = "insert"
          /\ UNCHANGED recAppErrChan
     \/ /\ ctxDone
        /\ result' = "nil"
        /\ UNCHANGED <<stopReason, errCh, recAppErrChan>>
  /\ mainPc' = "closing"
  /\ UNCHANGED <<runVars, ctxDone, stopSent, hookCancel, hookPc, recRunPc, timerPc, open,
                 pending, emitted, cons, insertErrors, chansClosed, panicked>>

(* The deferred close(...) calls of lines 94-96, which run first. *)
CloseChans ==
  /\ ~panicked
  /\ mainPc = "closing"
  /\ chansClosed' = TRUE
  /\ mainPc' = "stopping"
  /\ UNCHANGED <<runVars, result, stopReason, ctxDone, stopSent, hookCancel, hookPc,
                 recRunPc, timerPc, open, pending, emitted, cons, errCh, insertErrors,
                 recAppErrChan, panicked>>

(* Seeded fault: the stop function never calls runAppCtxCancel. *)
StoppingNoCancel ==
  /\ ~panicked
  /\ mainPc = "stopping"
  /\ stopSent' = (stopSent \/ ~ctxDone)
  /\ mainPc' = "waitRun"
  /\ UNCHANGED <<runVars, result, stopReason, ctxDone, hookCancel, hookPc, recRunPc,
                 timerPc, open, pending, emitted, cons, errCh, insertErrors, recAppErrChan,
                 chansClosed, panicked>>

(* The deferred stop function (lines 68-79): utils.Stop unless the context *)
(* is already cancelled, then runAppCtxCancel.                             *)
Stopping ==
  /\ ~panicked
  /\ mainPc = "stopping"
  /\ stopSent' = (stopSent \/ ~ctxDone)
  /\ runCtxDone' = TRUE
  /\ mainPc' = "waitRun"
  /\ UNCHANGED <<kind, runPc, runResult, inodePc, appPc, appOutcome, appErrCh, appErrClosed,
                 inodeErrCh, result, stopReason, ctxDone, hookCancel, hookPc, recRunPc,
                 timerPc, open, pending, emitted, cons, errCh, insertErrors, recAppErrChan,
                 chansClosed, panicked>>

(* Seeded fault: hookCtxCancel without waiting for runAppErrGrp. *)
WaitRunNoWait ==
  /\ ~panicked
  /\ mainPc = "waitRun"
  /\ hookCancel' = TRUE
  /\ mainPc' = "waitHook"
  /\ UNCHANGED <<runVars, result, stopReason, ctxDone, stopSent, hookPc, recRunPc, timerPc,
                 open, pending, emitted, cons, errCh, insertErrors, recAppErrChan,
                 chansClosed, panicked>>

(* runAppErrGrp.Wait(), then hookCtxCancel (lines 79-83). *)
WaitRun ==
  /\ ~panicked
  /\ mainPc = "waitRun"
  /\ recRunPc \in {"none", "done"}
  /\ hookCancel' = TRUE
  /\ mainPc' = "waitHook"
  /\ UNCHANGED <<runVars, result, stopReason, ctxDone, stopSent, hookPc, recRunPc, timerPc,
                 open, pending, emitted, cons, errCh, insertErrors, recAppErrChan,
                 chansClosed, panicked>>

(* hookErrGrp.Wait() (lines 84-88). *)
WaitHook ==
  /\ ~panicked
  /\ mainPc = "waitHook"
  /\ hookPc \in {"none", "done"}
  /\ mainPc' = "waitErrGrp"
  /\ UNCHANGED <<runVars, result, stopReason, ctxDone, stopSent, hookCancel, hookPc,
                 recRunPc, timerPc, open, pending, emitted, cons, errCh, insertErrors,
                 recAppErrChan, chansClosed, panicked>>

(* Seeded fault: errGrp.Wait() does not wait for the consumers. *)
WaitErrGrpSkipsConsumers ==
  /\ ~panicked
  /\ mainPc = "waitErrGrp"
  /\ timerPc \in {"none", "done"}
  /\ mainPc' = "done"
  /\ UNCHANGED <<runVars, result, stopReason, ctxDone, stopSent, hookCancel, hookPc,
                 recRunPc, timerPc, open, pending, emitted, cons, errCh, insertErrors,
                 recAppErrChan, chansClosed, panicked>>

(* errGrp.Wait() (lines 89-92): the consumers and the timer have ended. *)
WaitErrGrp ==
  /\ ~panicked
  /\ mainPc = "waitErrGrp"
  /\ \A s \in Streams : cons[s] \in {"none", "done"}
  /\ timerPc \in {"none", "done"}
  /\ mainPc' = "done"
  /\ UNCHANGED <<runVars, result, stopReason, ctxDone, stopSent, hookCancel, hookPc,
                 recRunPc, timerPc, open, pending, emitted, cons, errCh, insertErrors,
                 recAppErrChan, chansClosed, panicked>>

-----------------------------------------------------------------------------
(* The application goroutine (lines 185-192): it calls Core.Run, and       *)
(* forwards every result but ErrCtxCanceled on appErrChan.  If Start has  *)
(* already closed appErrChan the send panics; there is no recover.          *)
RecRunCall ==
  /\ ~panicked
  /\ recRunPc = "spawned"
  /\ RunStart
  /\ recRunPc' = "inRun"
  /\ UNCHANGED <<mainPc, result, stopReason, ctxDone, stopSent, hookCancel, hookPc, timerPc,
                 open, pending, emitted, cons, errCh, insertErrors, recAppErrChan,
                 chansClosed, panicked>>

RecRunReturns ==
  /\ ~panicked
  /\ recRunPc = "inRun" /\ runPc = "returned"
  /\ recRunPc' = "done"
  /\ \/ /\ runResult = "CtxCanceled"
        /\ UNCHANGED <<recAppErrChan, panicked>>
     \/ /\ runResult # "CtxCanceled" /\ ~chansClosed
        /\ recAppErrChan' = Append(recAppErrChan, runResult)
        /\ UNCHANGED panicked
     \/ /\ runResult # "CtxCanceled" /\ chansClosed
        /\ panicked' = TRUE
        /\ UNCHANGED recAppErrChan
  /\ UNCHANGED <<runVars, mainPc, result, stopReason, ctxDone, stopSent, hookCancel, hookPc,
                 timerPc, open, pending, emitted, cons, errCh, insertErrors, chansClosed>>

(* A step A of Core.Run's goroutines, with the rest of the session unchanged. *)
InRun(A) == ~panicked /\ A /\ UNCHANGED recVars

RunGoroutines ==
  \/ InRun(InodeStart) \/ InRun(AppStart) \/ InRun(InodeHandoff)
  \/ \E ok \in BOOLEAN : InRun(SendInode(ok))
  \/ InRun(AppExit) \/ InRun(AppCancelled) \/ InRun(RunSelect) \/ InRun(RunReturn)

-----------------------------------------------------------------------------
(* Seeded fault: a consumer takes an item whether or not one is pending. *)
ConsumeNoGuard(s) ==
  /\ ~panicked
  /\ cons[s] = "loop"
  /\ pending' = [pending EXCEPT ![s] = @ - 1]
  /\ \/ UNCHANGED <<errCh, insertErrors, panicked>>                 \* inserted
     \/ /\ ctxDone                                                   \* context.Canceled
        /\ UNCHANGED <<errCh, insertErrors, panicked>>
     \/ /\ insertErrors < MaxInsertErrors                            \* an insert error
        /\ insertErrors' = insertErrors + 1
        /\ IF chansClosed
             THEN panicked' = TRUE /\ UNCHANGED errCh
             ELSE errCh' = [errCh EXCEPT ![s] = @ + 1] /\ UNCHANGED panicked
  /\ UNCHANGED <<runVars, mainPc, result, stopReason, ctxDone, stopSent, hookCancel, hookPc,
                 recRunPc, timerPc, open, emitted, cons, recAppErrChan, chansClosed>>

(* A consumer (lines 143-157 and 168-182) receives an item and inserts it. *)
(* A failed insert is sent on the insert error channel, which panics once  *)
(* Start has closed it; a context.Canceled failure is skipped.             *)
Consume(s) ==
  /\ ~panicked
  /\ cons[s] = "loop" /\ pending[s] > 0
  /\ pending' = [pending EXCEPT ![s] = @ - 1]
  /\ \/ UNCHANGED <<errCh, insertErrors, panicked>>                 \* inserted
     \/ /\ ctxDone                                                   \* context.Canceled
        /\ UNCHANGED <<errCh, insertErrors, panicked>>
     \/ /\ insertErrors < MaxInsertErrors                            \* an insert error
        /\ insertErrors' = insertErrors + 1
        /\ IF chansClosed
             THEN panicked' = TRUE /\ UNCHANGED errCh
             ELSE errCh' = [errCh EXCEPT ![s] = @ + 1] /\ UNCHANGED panicked
  /\ UNCHANGED <<runVars, mainPc, result, stopReason, ctxDone, stopSent, hookCancel, hookPc,
                 recRunPc, timerPc, open, emitted, cons, recAppErrChan, chansClosed>>

(* Seeded fault: the range loop ends once the stream is drained, closed or not. *)
ConsumerEndsOpen(s) ==
  /\ ~panicked
  /\ cons[s] = "loop" /\ pending[s] = 0
  /\ cons' = [cons EXCEPT ![s] = "done"]
  /\ UNCHANGED <<runVars, mainPc, result, stopReason, ctxDone, stopSent, hookCancel, hookPc,
                 recRunPc, timerPc, open, pending, emitted, errCh, insertErrors,
                 recAppErrChan, chansClosed, panicked>>

(* The range loop ends once the stream is closed and drained. *)
ConsumerEnds(s) ==
  /\ ~panicked
  /\ cons[s] = "loop" /\ pending[s] = 0 /\ ~open[s]
  /\ cons' = [cons EXCEPT ![s] = "done"]
  /\ UNCHANGED <<runVars, mainPc, result, stopReason, ctxDone, stopSent, hookCancel, hookPc,
                 recRunPc, timerPc, open, pending, emitted, errCh, insertErrors,
                 recAppErrChan, chansClosed, panicked>>

(* While hooked, the hooks and the proxy put captured items on the open streams. *)
Capture(s) ==
  /\ ~panicked
  /\ hookPc = "waiting" /\ open[s] /\ emitted[s] < MaxItems
  /\ pending' = [pending EXCEPT ![s] = @ + 1]
  /\ emitted' = [emitted EXCEPT ![s] = @ + 1]
  /\ UNCHANGED <<runVars, mainPc, result, stopReason, ctxDone, stopSent, hookCancel, hookPc,
                 recRunPc, timerPc, open, cons, errCh, insertErrors, recAppErrChan,
                 chansClosed, panicked>>

-----------------------------------------------------------------------------
(* Core.Hook's shutdown goroutine (core.go lines 110-133): once hookCtx is *)
(* cancelled it stops the proxy and waits for it, which ends the outgoing  *)
(* stream, then unloads the hooks and waits, which ends the incoming one.  *)
ProxyStop ==
  /\ ~panicked
  /\ hookPc = "waiting" /\ hookCancel
  /\ hookPc' = "proxyStopped"
  /\ open' = [open EXCEPT !["mock"] = FALSE]
  /\ UNCHANGED <<runVars, mainPc, result, stopReason, ctxDone, stopSent, hookCancel,
                 recRunPc, timerPc, pending, emitted, cons, errCh, insertErrors,
                 recAppErrChan, chansClosed, panicked>>

HooksUnload ==
  /\ ~panicked
  /\ hookPc = "proxyStopped"
  /\ hookPc' = "done"
  /\ open' = [open EXCEPT !["test"] = FALSE]
  /\ UNCHANGED <<runVars, mainPc, result, stopReason, ctxDone, stopSent, hookCancel,
                 recRunPc, timerPc, pending, emitted, cons, errCh, insertErrors,
                 recAppErrChan, chansClosed, panicked>>

(* The timer goroutine (lines 195-212): when the timer fires it calls      *)
(* utils.Stop; it returns at once if ctx is cancelled first.               *)
TimerFires ==
  /\ ~panicked
  /\ timerPc = "waiting"
  /\ timerPc' = "done" /\ stopSent' = TRUE
  /\ UNCHANGED <<runVars, mainPc, result, stopReason, ctxDone, hookCancel, hookPc, recRunPc,
                 open, pending, emitted, cons, errCh, insertErrors, recAppErrChan,
                 chansClosed, panicked>>

TimerCtxDone ==
  /\ ~panicked
  /\ timerPc = "waiting" /\ ctxDone
  /\ timerPc' = "done"
  /\ UNCHANGED <<runVars, mainPc, result, stopReason, ctxDone, stopSent, hookCancel, hookPc,
                 recRunPc, open, pending, emitted, cons, errCh, insertErrors,
                 recAppErrChan, chansClosed, panicked>>

(* Start's ctx is cancelled: by the user's interrupt at any time, or by    *)
(* the signal utils.Stop sends to the process.                             *)
CancelCtx ==
  /\ ~panicked
  /\ ~ctxDone
  /\ ctxDone' = TRUE
  /\ UNCHANGED <<runVars, mainPc, result, stopReason, stopSent, hookCancel, hookPc, recRunPc,
                 timerPc, open, pending, emitted, cons, errCh, insertErrors, recAppErrChan,
                 chansClosed, panicked>>

-----------------------------------------------------------------------------
MainStep ==
  \/ StartSetup \/ GetIncoming \/ GetOutgoing \/ SpawnRunApp \/ MainSelect
  \/ CloseChans \/ Stopping \/ WaitRun \/ WaitHook \/ WaitErrGrp

OtherStep ==
  \/ RecRunCall \/ RecRunReturns \/ RunGoroutines
  \/ \E s \in Streams : Consume(s) \/ ConsumerEnds(s) \/ Capture(s)
  \/ ProxyStop \/ HooksUnload \/ TimerFires \/ TimerCtxDone \/ CancelCtx

(* Every action requires ~panicked: a panic ends the process. *)
Next == MainStep \/ OtherStep

Spec == Init /\ [][Next]_vars

(* Every goroutine is scheduled, Core.Run's included, and a cancelled     *)
(* application stops; the signal utils.Stop sends is delivered. *)
(* Captures, insert outcomes, the timer and the user's interrupt are the  *)
(* environment's choice and get no fairness.                               *)
Fairness ==
  /\ WF_vars(MainStep)
  /\ WF_vars(RecRunCall \/ RecRunReturns)
  /\ \A s \in Streams : WF_vars(Consume(s) \/ ConsumerEnds(s))
  /\ WF_vars(ProxyStop \/ HooksUnload)
  /\ WF_vars(TimerCtxDone)
  /\ WF_vars(stopSent /\ CancelCtx)
  /\ WF_vars(InRun(InodeStart))
  /\ WF_vars(InRun(AppStart))
  /\ WF_vars(InRun(InodeHandoff))
  /\ WF_vars(\E ok \in BOOLEAN : InRun(SendInode(ok)))
  /\ WF_vars(InRun(AppCancelled))
  /\ WF_vars(InRun(RunSelect))
  /\ WF_vars(InRun(RunReturn))

FairSpec == Spec /\ Fairness

-----------------------------------------------------------------------------
TypePcs ==
  /\ mainPc \in {"init", "hooked", "incoming", "outgoing", "select", "closing", "stopping",
                 "waitRun", "waitHook", "waitErrGrp", "done"}
  /\ result \in {"none", "nil", "error"}
  /\ stopReason \in {"unset", "setup", "app", "appStopped", "unknown", "insert"}
  /\ hookPc \in {"none", "waiting", "proxyStopped", "done"}
  /\ recRunPc \in {"none", "spawned", "inRun", "done"}
  /\ timerPc \in {"none", "waiting", "done"}
TypeFlags ==
  /\ ctxDone \in BOOLEAN /\ stopSent \in BOOLEAN /\ hookCancel \in BOOLEAN
  /\ chansClosed \in BOOLEAN /\ panicked \in BOOLEAN
TypeData ==
  /\ open \in [Streams -> BOOLEAN]
  /\ pending \in [Streams -> Nat] /\ emitted \in [Streams -> 0..MaxItems]
  /\ cons \in [Streams -> {"none", "loop", "done"}]
  /\ errCh \in [Streams -> 0..InsertErrChanCap]
  /\ insertErrors \in 0..MaxInsertErrors
  /\ recAppErrChan \in Seq(AppErrorTypes) /\ Len(recAppErrChan) <= 1
TypeOK == RunTypeOK /\ TypePcs /\ TypeFlags /\ TypeData

(* Safety, about the deferred shutdown of Start (lines 68-96): when Start  *)
(* returns, every test case and mock the hooks and the proxy captured has  *)
(* been received by its consumer, and both streams are closed.  It needs  *)
(* the LIFO order of the deferred calls: the hooks are cancelled only      *)
(* after the application, and errGrp.Wait comes after hookErrGrp.Wait.     *)
DrainedBeforeReturn ==
  mainPc = "done" => \A s \in Streams : pending[s] = 0 /\ ~open[s]

(* The inductive strengthening of TypeOK and DrainedBeforeReturn, about   *)
(* the channels of Start and Run and the consumers' range loops (lines    *)
(* 143-182): appErrCh, inodeErrCh and appErrChan stay empty until their    *)
(* one sender has run, so their buffer of one never overflows; the insert  *)
(* error buffers hold no more than the failed inserts; Run has a result   *)
(* once its select has run; a consumer that is not looping has an empty,   *)
(* closed stream (which DrainedBeforeReturn needs after WaitErrGrp); the   *)
(* application goroutine is spawned only once Start has both streams, and  *)
(* Run's goroutines are idle until Run is called.                           *)
ChannelsByPc ==
  /\ appPc \in {"idle", "start", "starting", "running"} => appErrCh = <<>>
  /\ inodePc # "done" => inodeErrCh = <<>>
  /\ recRunPc # "done" => recAppErrChan = <<>>
  /\ errCh["test"] + errCh["mock"] <= insertErrors
ResultByPc == runPc \in {"wait", "returned"} => runResult \in AppErrorTypes
StreamsByConsumer ==
  \A s \in Streams : cons[s] \in {"none", "done"} => pending[s] = 0 /\ ~open[s]
GoroutinesByPc ==
  /\ mainPc \in {"init", "hooked", "incoming", "outgoing"} => recRunPc = "none"
  /\ runPc = "idle" => appPc = "idle" /\ inodePc = "idle"
IInv ==
  /\ TypeOK /\ ChannelsByPc /\ ResultByPc /\ GoroutinesByPc /\ StreamsByConsumer
  /\ DrainedBeforeReturn

(* Safety, about the sends of lines 150, 175 and 190: no goroutine sends   *)
(* on an error channel after Start's deferred close (lines 94-96), which   *)
(* would panic and crash the process.                                      *)
NoSendOnClosedChannel == ~panicked

(* Action property, about the LIFO order of Start's deferred calls (lines  *)
(* 68-87) and Core.Hook's shutdown goroutine (core.go lines 110-133): a    *)
(* stream is closed, by stopping the proxy or unloading the hooks, only    *)
(* once the goroutine running the application has returned from Core.Run, *)
(* so no traffic of the application is cut off while it runs.              *)
StreamClosedAfterApp ==
  \A s \in Streams : open[s] /\ ~open'[s] => recRunPc \in {"none", "done"}
StreamsCloseAfterApp == [][StreamClosedAfterApp]_vars

\* What StreamsCloseAfterApp rests on, with IInv: the hooks' context is
\* cancelled only after the application goroutine has returned, and the
\* shutdown goroutine acts only once it is cancelled.
HookOrder ==
  /\ hookCancel => recRunPc \in {"none", "done"} /\ mainPc \in {"waitHook", "waitErrGrp", "done"}
  /\ hookPc \in {"proxyStopped", "done"} => hookCancel

(* Liveness, about the whole shutdown path: once Start's context is        *)
(* cancelled or Start has left its select, Start returns (or the process  *)
(* has crashed): no goroutine waits forever on another.                    *)
ShutdownBegun == ctxDone \/ mainPc \in {"closing", "stopping", "waitRun", "waitHook", "waitErrGrp"}
StartTerminates == ShutdownBegun ~> (mainPc = "done" \/ panicked)

=============================================================================
