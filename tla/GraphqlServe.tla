----------------------------- MODULE GraphqlServe -----------------------------
(***************************************************************************)
(* The serve command (server.Serve, src/pkg/service/replay/service.go      *)
(* lines 107-278): it loads the eBPF hooks, boots the proxy, starts the    *)
(* GraphQL server in a goroutine and launches the user's application in    *)
(* another, then waits for the first of an interrupt signal (the buffered  *)
(* stopper channel) or the application goroutine's abortStopHooksInterrupt *)
(* handshake.  Both the main goroutine and the application goroutine may   *)
(* stop the hooks and the proxy; the unbuffered abortStopHooksInterrupt    *)
(* and exitCmd channels and the abortStopHooksForcefully flag decide which. *)
(*                                                                         *)
(* Not in the sources, taken from the specification: a hooks call (load,  *)
(* send a port or the proxy's address) succeeds or fails; the user's       *)
(* application ends with ErrInterrupted only once keploy has stopped the  *)
(* hooks, which kills it.                                                  *)
(***************************************************************************)
EXTENDS Naturals

CONSTANTS
  MaxSignals,     \* interrupts the user may send during a run
  HooksMayFail,   \* LoadHooks and the Send* calls may return an error
  ListenMayFail   \* ListenAndServe may fail (port in use): log.Fatalf

ASSUME SignalsAssumption == MaxSignals \in Nat
ASSUME FlagsAssumption == HooksMayFail \in BOOLEAN /\ ListenMayFail \in BOOLEAN

\* What LaunchUserApplication returns: nil, or an error of package hooks.
AppErrors == {"nil", "ErrInterrupted", "ErrFailedUnitTest", "ErrUnExpected", "other"}

VARIABLES
  mainPc,      \* where Serve is
  appPc,       \* the application goroutine: "none", "running", "checkFlag",
               \* "sendAbort", "stopping", "sendExit", "done"
  srvPc,       \* the GraphQL server goroutine: "none", "serving", "shutdown", "stopped"
  stopper,     \* signals buffered in stopper (capacity 1)
  signals,     \* interrupts sent so far
  forcefully,  \* abortStopHooksForcefully
  hooksLoaded, \* LoadHooks succeeded
  proxyUp,     \* BootProxy was called
  stopCalls,   \* calls of loadedHooks.Stop
  proxyStops,  \* calls of ps.StopProxyServer
  fatal        \* log.Fatalf ended the process

vars == <<mainPc, appPc, srvPc, stopper, signals, forcefully, hooksLoaded, proxyUp,
          stopCalls, proxyStops, fatal>>

Init ==
  /\ mainPc = "newHook" /\ appPc = "none" /\ srvPc = "none"
  /\ stopper = 0 /\ signals = 0 /\ forcefully = FALSE
  /\ hooksLoaded = FALSE /\ proxyUp = FALSE
  /\ stopCalls = 0 /\ proxyStops = 0 /\ fatal = FALSE

\* One call of a hooks method: it fails only if failures are allowed.
Outcomes == IF HooksMayFail THEN {TRUE, FALSE} ELSE {TRUE}

\* A select on stopper with a default case takes the signal iff one is buffered.
Signalled == stopper > 0

-----------------------------------------------------------------------------
(* Lines 127-131: hooks.NewHook; a failure returns before any defer is set. *)
NewHook ==
  /\ ~fatal /\ mainPc = "newHook"
  /\ \E ok \in Outcomes : mainPc' = IF ok THEN "selectLoad" ELSE "done"
  /\ UNCHANGED <<appPc, srvPc, stopper, signals, forcefully, hooksLoaded, proxyUp,
                 stopCalls, proxyStops, fatal>>

\* Mutant: the signal case before LoadHooks stops the hooks, as line 156 does.
SelectLoadStopsUnloaded ==
  /\ ~fatal /\ mainPc = "selectLoad"
  /\ \/ /\ Signalled
        /\ stopper' = 0 /\ mainPc' = "return" /\ stopCalls' = stopCalls + 1
        /\ UNCHANGED hooksLoaded
     \/ /\ ~Signalled
        /\ \E ok \in Outcomes :
             /\ hooksLoaded' = ok
             /\ mainPc' = IF ok THEN "sendPort" ELSE "return"
        /\ UNCHANGED <<stopper, stopCalls>>
  /\ UNCHANGED <<appPc, srvPc, signals, forcefully, proxyUp, proxyStops, fatal>>

(* Lines 139-147: return on a signal, otherwise load the hooks; a failure *)
(* returns.                                                                *)
SelectLoad ==
  /\ ~fatal /\ mainPc = "selectLoad"
  /\ \/ /\ Signalled
        /\ stopper' = 0 /\ mainPc' = "return"
        /\ UNCHANGED hooksLoaded
     \/ /\ ~Signalled
        /\ \E ok \in Outcomes :
             /\ hooksLoaded' = ok
             /\ mainPc' = IF ok THEN "sendPort" ELSE "return"
        /\ UNCHANGED stopper
  /\ UNCHANGED <<appPc, srvPc, signals, forcefully, proxyUp, stopCalls, proxyStops, fatal>>

(* Lines 150-152: SendKeployServerPort; a failure returns. *)
SendPort ==
  /\ ~fatal /\ mainPc = "sendPort"
  /\ \E ok \in Outcomes : mainPc' = IF ok THEN "selectProxy" ELSE "return"
  /\ UNCHANGED <<appPc, srvPc, stopper, signals, forcefully, hooksLoaded, proxyUp,
                 stopCalls, proxyStops, fatal>>

(* Lines 154-162: on a signal stop the hooks and return, otherwise boot   *)
(* the proxy.                                                              *)
SelectProxy ==
  /\ ~fatal /\ mainPc = "selectProxy"
  /\ \/ /\ Signalled
        /\ stopper' = 0 /\ stopCalls' = stopCalls + 1 /\ mainPc' = "return"
        /\ UNCHANGED proxyUp
     \/ /\ ~Signalled
        /\ proxyUp' = TRUE /\ mainPc' = "sendProxyInfo"
        /\ UNCHANGED <<stopper, stopCalls>>
  /\ UNCHANGED <<appPc, srvPc, signals, forcefully, hooksLoaded, proxyStops, fatal>>

(* Lines 166-168: SendProxyInfo; a failure returns. *)
SendProxyInfo ==
  /\ ~fatal /\ mainPc = "sendProxyInfo"
  /\ \E ok \in Outcomes : mainPc' = IF ok THEN "sendPassThrough" ELSE "return"
  /\ UNCHANGED <<appPc, srvPc, stopper, signals, forcefully, hooksLoaded, proxyUp,
                 stopCalls, proxyStops, fatal>>

(* Lines 170-216: SendPassThroughPorts, a failure returns; then the       *)
(* GraphQL server goroutine is started and its shutdown deferred.         *)
SendPassThrough ==
  /\ ~fatal /\ mainPc = "sendPassThrough"
  /\ \E ok \in Outcomes :
       /\ mainPc' = IF ok THEN "selectApp" ELSE "return"
       /\ srvPc' = IF ok THEN "serving" ELSE srvPc
  /\ UNCHANGED <<appPc, stopper, signals, forcefully, hooksLoaded, proxyUp, stopCalls,
                 proxyStops, fatal>>

(* Lines 223-255: on a signal stop the hooks and the proxy and return,     *)
(* otherwise start the application goroutine.                               *)
SelectApp ==
  /\ ~fatal /\ mainPc = "selectApp"
  /\ \/ /\ Signalled
        /\ stopper' = 0 /\ stopCalls' = stopCalls + 1 /\ proxyStops' = proxyStops + 1
        /\ mainPc' = "return"
        /\ UNCHANGED appPc
     \/ /\ ~Signalled
        /\ appPc' = "running" /\ mainPc' = "waitApp"
        /\ UNCHANGED <<stopper, stopCalls, proxyStops>>
  /\ UNCHANGED <<srvPc, signals, forcefully, hooksLoaded, proxyUp, fatal>>

(* Lines 256-261: the signal case of the last select sets the flag, stops *)
(* the hooks and the proxy and returns.                                    *)
WaitAppSignal ==
  /\ ~fatal /\ mainPc = "waitApp" /\ Signalled
  /\ stopper' = 0 /\ forcefully' = TRUE
  /\ stopCalls' = stopCalls + 1 /\ proxyStops' = proxyStops + 1
  /\ mainPc' = "return"
  /\ UNCHANGED <<appPc, srvPc, signals, hooksLoaded, proxyUp, fatal>>

\* Mutant: abortStopHooksInterrupt made with a buffer of one, so the send no
\* longer waits for Serve's select.
AbortHandshakeBuffered ==
  /\ ~fatal /\ appPc = "sendAbort"
  /\ mainPc' = IF mainPc = "waitApp" THEN "waitExit" ELSE mainPc
  /\ appPc' = "stopping"
  /\ UNCHANGED <<srvPc, stopper, signals, forcefully, hooksLoaded, proxyUp, stopCalls,
                 proxyStops, fatal>>

(* Lines 262-264 and 244: the unbuffered abortStopHooksInterrupt send of   *)
(* the application goroutine meets the receive of the select.             *)
AbortHandshake ==
  /\ ~fatal /\ mainPc = "waitApp" /\ appPc = "sendAbort"
  /\ mainPc' = "waitExit" /\ appPc' = "stopping"
  /\ UNCHANGED <<srvPc, stopper, signals, forcefully, hooksLoaded, proxyUp, stopCalls,
                 proxyStops, fatal>>

\* Mutant: Serve stops the hooks and the proxy itself after <-exitCmd.
ExitHandshakeStopsAgain ==
  /\ ~fatal /\ mainPc = "waitExit" /\ appPc = "sendExit"
  /\ mainPc' = "return" /\ appPc' = "done"
  /\ stopCalls' = stopCalls + 1 /\ proxyStops' = proxyStops + 1
  /\ UNCHANGED <<srvPc, stopper, signals, forcefully, hooksLoaded, proxyUp, fatal>>

(* Lines 265 and 248: exitCmd meets its receive and Serve returns. *)
ExitHandshake ==
  /\ ~fatal /\ mainPc = "waitExit" /\ appPc = "sendExit"
  /\ mainPc' = "return" /\ appPc' = "done"
  /\ UNCHANGED <<srvPc, stopper, signals, forcefully, hooksLoaded, proxyUp, stopCalls,
                 proxyStops, fatal>>

(* Serve returns; the deferred stopGraphqlServer (lines 268-278) shuts the *)
(* GraphQL server down if it was started; loadedHooks.Recover does nothing *)
(* without a panic.                                                        *)
ServeReturn ==
  /\ ~fatal /\ mainPc = "return"
  /\ mainPc' = "done"
  /\ srvPc' = IF srvPc = "serving" THEN "shutdown" ELSE srvPc
  /\ UNCHANGED <<appPc, stopper, signals, forcefully, hooksLoaded, proxyUp, stopCalls,
                 proxyStops, fatal>>

-----------------------------------------------------------------------------
\* Mutant: every error case of the switch returns, as ErrInterrupted does.
AppEndsReturnsOnError ==
  /\ ~fatal /\ appPc = "running"
  /\ \E e \in AppErrors :
       /\ e = "ErrInterrupted" => stopCalls > 0
       /\ appPc' = IF e = "nil" THEN "checkFlag" ELSE "done"
  /\ UNCHANGED <<mainPc, srvPc, stopper, signals, forcefully, hooksLoaded, proxyUp,
                 stopCalls, proxyStops, fatal>>

(* The application goroutine (lines 229-254).  LaunchUserApplication       *)
(* returns; ErrInterrupted, which it returns once keploy has killed the    *)
(* application, ends the goroutine at once.                                 *)
AppEnds ==
  /\ ~fatal /\ appPc = "running"
  /\ \E e \in AppErrors :
       /\ e = "ErrInterrupted" => stopCalls > 0
       /\ appPc' = IF e = "ErrInterrupted" THEN "done" ELSE "checkFlag"
  /\ UNCHANGED <<mainPc, srvPc, stopper, signals, forcefully, hooksLoaded, proxyUp,
                 stopCalls, proxyStops, fatal>>

(* Line 243: the goroutine reads abortStopHooksForcefully, which the main  *)
(* goroutine writes without synchronisation.                               *)
AppCheckFlag ==
  /\ ~fatal /\ appPc = "checkFlag"
  /\ appPc' = IF forcefully THEN "done" ELSE "sendAbort"
  /\ UNCHANGED <<mainPc, srvPc, stopper, signals, forcefully, hooksLoaded, proxyUp,
                 stopCalls, proxyStops, fatal>>

(* Lines 246-247: after the handshake it stops the hooks and the proxy. *)
AppStopping ==
  /\ ~fatal /\ appPc = "stopping"
  /\ stopCalls' = stopCalls + 1 /\ proxyStops' = proxyStops + 1
  /\ appPc' = "sendExit"
  /\ UNCHANGED <<mainPc, srvPc, stopper, signals, forcefully, hooksLoaded, proxyUp, fatal>>

-----------------------------------------------------------------------------
(* The GraphQL server goroutine (lines 205-214): ListenAndServe returns     *)
(* ErrServerClosed after Shutdown; any other error is log.Fatalf, which    *)
(* ends the process.                                                       *)
ServerStops ==
  /\ ~fatal /\ srvPc = "shutdown"
  /\ srvPc' = "stopped"
  /\ UNCHANGED <<mainPc, appPc, stopper, signals, forcefully, hooksLoaded, proxyUp,
                 stopCalls, proxyStops, fatal>>

ListenFails ==
  /\ ~fatal /\ ListenMayFail /\ srvPc = "serving"
  /\ fatal' = TRUE
  /\ UNCHANGED <<mainPc, appPc, srvPc, stopper, signals, forcefully, hooksLoaded, proxyUp,
                 stopCalls, proxyStops>>

(* The user interrupts (line 116): signal.Notify does not block, so a      *)
(* signal is dropped when stopper is full.                                 *)
Interrupt ==
  /\ ~fatal /\ signals < MaxSignals
  /\ signals' = signals + 1 /\ stopper' = 1
  /\ UNCHANGED <<mainPc, appPc, srvPc, forcefully, hooksLoaded, proxyUp, stopCalls,
                 proxyStops, fatal>>

-----------------------------------------------------------------------------
MainStep ==
  \/ NewHook \/ SelectLoad \/ SendPort \/ SelectProxy \/ SendProxyInfo \/ SendPassThrough
  \/ SelectApp \/ WaitAppSignal \/ AbortHandshake \/ ExitHandshake \/ ServeReturn

AppStep == AppEnds \/ AppCheckFlag \/ AppStopping

Next == MainStep \/ AppStep \/ ServerStops \/ ListenFails \/ Interrupt

Spec == Init /\ [][Next]_vars

(* The Go scheduler runs every runnable goroutine: Serve's, the            *)
(* application goroutine's steps after the application has ended, and the *)
(* server's.  When the application ends, interrupts and a failing listen   *)
(* are the environment's choice, with no fairness.                         *)
Fairness ==
  /\ WF_vars(MainStep)
  /\ WF_vars(AppCheckFlag) /\ WF_vars(AppStopping)
  /\ WF_vars(ServerStops)

FairSpec == Spec /\ Fairness

-----------------------------------------------------------------------------
TypePcs ==
  /\ mainPc \in {"newHook", "selectLoad", "sendPort", "selectProxy", "sendProxyInfo",
                 "sendPassThrough", "selectApp", "waitApp", "waitExit", "return", "done"}
  /\ appPc \in {"none", "running", "checkFlag", "sendAbort", "stopping", "sendExit", "done"}
  /\ srvPc \in {"none", "serving", "shutdown", "stopped"}
TypeCounts ==
  /\ stopper \in 0..1 /\ signals \in 0..MaxSignals
  /\ stopCalls \in Nat /\ proxyStops \in Nat
TypeFlags ==
  /\ forcefully \in BOOLEAN /\ hooksLoaded \in BOOLEAN /\ proxyUp \in BOOLEAN
  /\ fatal \in BOOLEAN
TypeOK == TypePcs /\ TypeCounts /\ TypeFlags

(* Safety, about the two stop paths of lines 256-261 and 243-248: the     *)
(* hooks and the proxy are stopped at most once, whichever of an interrupt *)
(* and the end of the application comes first and however they overlap   *)
(* with the unsynchronised read of abortStopHooksForcefully.               *)
StopAtMostOnce == stopCalls <= 1 /\ proxyStops <= 1

(* The inductive strengthening of StopAtMostOnce, about the same two stop  *)
(* paths: nothing is stopped before Serve waits for the application; while *)
(* the application goroutine holds the stop path (after the handshake)     *)
(* Serve waits on exitCmd; once Serve has returned by another path the     *)
(* goroutine can no longer reach its stop path, as the handshake that      *)
(* leads there needs Serve's receive.  abortStopHooksForcefully plays no   *)
(* part: it only spares the goroutine from blocking on that handshake.    *)
EarlyPcs == {"newHook", "selectLoad", "sendPort", "selectProxy", "sendProxyInfo",
             "sendPassThrough", "selectApp"}
StopsByPc ==
  /\ mainPc \in EarlyPcs \cup {"waitApp"} => stopCalls = 0 /\ proxyStops = 0
  /\ mainPc \in EarlyPcs => appPc = "none"
  /\ mainPc = "waitApp" => appPc \notin {"stopping", "sendExit"}
  /\ mainPc = "waitExit" =>
        \/ appPc = "stopping" /\ stopCalls = 0 /\ proxyStops = 0
        \/ appPc = "sendExit" /\ stopCalls = 1 /\ proxyStops = 1
  /\ mainPc \in {"return", "done"} =>
        /\ stopCalls <= 1 /\ proxyStops <= 1
        /\ appPc \notin {"stopping", "sendExit"}
\* Which resources Serve holds at each of its steps: the hooks from a
\* successful LoadHooks on, the proxy from BootProxy on.
ResourcesByPc ==
  /\ mainPc \in {"newHook", "selectLoad"} => ~hooksLoaded
  /\ mainPc \in {"sendPort", "selectProxy", "sendProxyInfo", "sendPassThrough",
                 "selectApp", "waitApp", "waitExit"} => hooksLoaded
  /\ mainPc \in {"newHook", "selectLoad", "sendPort", "selectProxy"} => ~proxyUp
  /\ mainPc \in {"sendProxyInfo", "sendPassThrough", "selectApp", "waitApp",
                 "waitExit"} => proxyUp
IInv == TypeOK /\ StopsByPc /\ ResourcesByPc

(* The hooks and the proxy as ServeResources sees them. *)
HooksState == IF stopCalls > 0 THEN "stopped" ELSE IF hooksLoaded THEN "loaded" ELSE "none"
ProxyState == IF proxyStops > 0 THEN "stopped" ELSE IF proxyUp THEN "up" ELSE "none"
Resources == INSTANCE ServeResources
               WITH hooks <- HooksState, proxy <- ProxyState, returned <- (mainPc = "done")

(* Refinement, about every call of loadedHooks.Stop and StopProxyServer    *)
(* (lines 156, 225-226, 246-247, 259-260) and the returns of Serve: Serve *)
(* implements ServeResources, so it never stops the hooks before           *)
(* LoadHooks succeeded or the proxy before BootProxy, stops each at most   *)
(* once, and stops nothing after it has returned.                           *)
ImplementsResources == Resources!Spec

(* Liveness, about the handshake of lines 243-265: once the user's         *)
(* application has ended, Serve returns (unless log.Fatalf ended the       *)
(* process): the application goroutine never leaves Serve waiting.         *)
AppEnded == appPc \notin {"none", "running"}
ServeReturns == AppEnded ~> (mainPc = "done" \/ fatal)
=============================================================================
