------------------------------ MODULE CoreRun ------------------------------
(***************************************************************************)
(* Core.Run (src/pkg/core/core.go lines 184-239): runs the user           *)
(* application and reports how it ended.  Run starts two goroutines in    *)
(* runAppErrGrp: one that, for a docker application, receives the         *)
(* container's inode on the unbuffered inodeChan and passes it to the     *)
(* kernel hooks; and one that runs the application (app.Run) and reports  *)
(* an error on appErrCh (buffer 1) before closing it.  Run then selects   *)
(* on the cancellation of its context, appErrCh and inodeErrCh, and its   *)
(* deferred function waits for both goroutines before returning.          *)
(*                                                                         *)
(* The package app is not part of the sources: what app.Run does (send the *)
(* inode once the container is up, exit with an outcome, return           *)
(* ErrCtxCanceled when its context is cancelled) is taken from the        *)
(* specification's description of the run operation.                       *)
(***************************************************************************)
EXTENDS Naturals, Sequences

CONSTANTS
  AppKinds,            \* kinds the application may have: "native", "docker"
  AppFailsBeforeInode  \* whether a docker application may end before its
                       \* container reports an inode

ASSUME AppKindsAssumption == AppKinds \subseteq {"native", "docker"} /\ AppKinds # {}
ASSUME AppFailsAssumption == AppFailsBeforeInode \in BOOLEAN

\* models.AppErrorType values, and "zero" for the zero AppError a receive
\* from the closed appErrCh yields.
AppErrorTypes == {"CommandError", "UnExpected", "Internal", "AppStopped", "CtxCanceled", "zero"}
\* How the application ends by itself: "clean" is an exit with a nil error.
SelfOutcomes == {"clean", "CommandError", "UnExpected", "AppStopped", "Internal"}

VARIABLES
  kind,          \* a.Kind(ctx)
  runPc,         \* Run: "idle", "select", "wait" (deferred Wait), "returned"
  runResult,     \* the AppError type Run returns, "none" before
  inodePc,       \* inode goroutine: "idle", "start", "recv", "sendInode", "done"
  appPc,         \* app goroutine: "idle", "start", "starting" (docker, no inode yet), "running", "done"
  appOutcome,    \* how app.Run ended, "none" before
  appErrCh,      \* contents of appErrCh (buffer 1)
  appErrClosed,  \* appErrCh closed
  inodeErrCh,    \* contents of inodeErrCh (buffer 1)
  runCtxDone     \* the context Run was given is cancelled

runVars == <<kind, runPc, runResult, inodePc, appPc, appOutcome, appErrCh,
             appErrClosed, inodeErrCh, runCtxDone>>

RunInit ==
  /\ kind \in AppKinds
  /\ runPc = "idle" /\ runResult = "none"
  /\ inodePc = "idle" /\ appPc = "idle" /\ appOutcome = "none"
  /\ appErrCh = <<>> /\ appErrClosed = FALSE /\ inodeErrCh = <<>>
  /\ runCtxDone = FALSE

-----------------------------------------------------------------------------
(* Run is called (lines 184-229): both goroutines are started. *)
RunStart ==
  /\ runPc = "idle"
  /\ runPc' = "select"
  /\ inodePc' = "start" /\ appPc' = "start"
  /\ UNCHANGED <<kind, runResult, appOutcome, appErrCh, appErrClosed, inodeErrCh, runCtxDone>>

(* The inode goroutine returns at once for a native application          *)
(* (lines 206-210) and otherwise blocks on <-inodeChan (line 211).         *)
InodeStart ==
  /\ inodePc = "start"
  /\ inodePc' = IF kind = "native" THEN "done" ELSE "recv"
  /\ UNCHANGED <<kind, runPc, runResult, appPc, appOutcome, appErrCh, appErrClosed,
                 inodeErrCh, runCtxDone>>

(* app.Run starts the application; a docker one first waits for its      *)
(* container and hands its inode over inodeChan.                           *)
AppStart ==
  /\ appPc = "start"
  /\ appPc' = IF kind = "docker" THEN "starting" ELSE "running"
  /\ UNCHANGED <<kind, runPc, runResult, inodePc, appOutcome, appErrCh, appErrClosed,
                 inodeErrCh, runCtxDone>>

(* The unbuffered send of the inode meets the receive of line 211. *)
InodeHandoff ==
  /\ appPc = "starting" /\ inodePc = "recv"
  /\ appPc' = "running" /\ inodePc' = "sendInode"
  /\ UNCHANGED <<kind, runPc, runResult, appOutcome, appErrCh, appErrClosed,
                 inodeErrCh, runCtxDone>>

(* hook.SendInode (lines 212-216): on failure an error goes to inodeErrCh. *)
SendInode(ok) ==
  /\ inodePc = "sendInode"
  /\ inodePc' = "done"
  /\ inodeErrCh' = IF ok THEN inodeErrCh ELSE Append(inodeErrCh, "Internal")
  /\ UNCHANGED <<kind, runPc, runResult, appPc, appOutcome, appErrCh, appErrClosed,
                 runCtxDone>>

(* app.Run returns (lines 220-229): a non-nil error is sent on appErrCh,  *)
(* and the deferred close(appErrCh) follows.  A clean exit sends nothing.  *)
AppEnds(outcome) ==
  /\ appPc' = "done"
  /\ appOutcome' = outcome
  /\ appErrCh' = IF outcome = "clean" THEN appErrCh ELSE Append(appErrCh, outcome)
  /\ appErrClosed' = TRUE
  /\ UNCHANGED <<kind, runPc, runResult, inodePc, inodeErrCh, runCtxDone>>

(* The application exits by itself, once running or, if allowed, while   *)
(* its container is still starting.                                        *)
AppExit ==
  /\ \/ appPc = "running"
     \/ appPc = "starting" /\ AppFailsBeforeInode
  /\ \E o \in SelfOutcomes : AppEnds(o)

(* app.Run sees its context cancelled and returns ErrCtxCanceled. *)
AppCancelled ==
  /\ runCtxDone
  /\ \/ appPc = "running"
     \/ appPc = "starting" /\ AppFailsBeforeInode
  /\ AppEnds("CtxCanceled")

(* The select of lines 231-238: any ready case may be taken.  A closed,   *)
(* empty appErrCh yields the zero AppError.                                *)
RunSelect ==
  /\ runPc = "select"
  /\ \/ /\ runCtxDone
        /\ runResult' = "CtxCanceled"
        /\ UNCHANGED <<appErrCh, inodeErrCh>>
     \/ /\ appErrCh # <<>>
        /\ runResult' = Head(appErrCh) /\ appErrCh' = Tail(appErrCh)
        /\ UNCHANGED inodeErrCh
     \/ /\ appErrCh = <<>> /\ appErrClosed
        /\ runResult' = "zero"
        /\ UNCHANGED <<appErrCh, inodeErrCh>>
     \/ /\ inodeErrCh # <<>>
        /\ runResult' = "Internal" /\ inodeErrCh' = Tail(inodeErrCh)
        /\ UNCHANGED appErrCh
  /\ runPc' = "wait"
  /\ UNCHANGED <<kind, inodePc, appPc, appOutcome, appErrClosed, runCtxDone>>

(* The deferred function (lines 197-204): runAppErrGrp.Wait() for both    *)
(* goroutines, then the channels are closed and Run returns.               *)
RunReturn ==
  /\ runPc = "wait"
  /\ inodePc = "done" /\ appPc = "done"
  /\ runPc' = "returned"
  /\ UNCHANGED <<kind, runResult, inodePc, appPc, appOutcome, appErrCh, appErrClosed,
                 inodeErrCh, runCtxDone>>

RunTypeOK ==
  /\ kind \in AppKinds
  /\ runPc \in {"idle", "select", "wait", "returned"}
  /\ runResult \in AppErrorTypes \cup {"none"}
  /\ inodePc \in {"idle", "start", "recv", "sendInode", "done"}
  /\ appPc \in {"idle", "start", "starting", "running", "done"}
  /\ appOutcome \in SelfOutcomes \cup {"CtxCanceled", "none"}
  /\ appErrCh \in Seq(AppErrorTypes) /\ Len(appErrCh) <= 1
  /\ appErrClosed \in BOOLEAN
  /\ inodeErrCh \in Seq({"Internal"}) /\ Len(inodeErrCh) <= 1
  /\ runCtxDone \in BOOLEAN
=============================================================================
