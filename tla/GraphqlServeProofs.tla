------------------------ MODULE GraphqlServeProofs --------------------------
(***************************************************************************)
(* Proofs about Serve (GraphqlServe), for every bound on interrupts and   *)
(* every choice of failing calls: IInv is inductive, so the hooks and the  *)
(* proxy are stopped at most once, and Serve implements ServeResources.    *)
(***************************************************************************)
EXTENDS GraphqlServe, TLAPS

(* Serve starts in a state of the strengthened invariant: nothing is        *)
(* loaded, stopped or running yet.                                          *)
LEMMA InitIInv == Init => IInv
<1> SUFFICES ASSUME Init PROVE IInv
  OBVIOUS
<1>1. TypeFlags
  BY Zenon DEF Init, TypeFlags
<1>2. TypePcs /\ TypeCounts /\ StopsByPc
  BY SignalsAssumption DEF Init, TypePcs, TypeCounts, StopsByPc, EarlyPcs
<1>3. ResourcesByPc
  BY Zenon DEF Init, ResourcesByPc
<1>4. QED
  BY <1>1, <1>2, <1>3 DEF IInv, TypeOK

(* Every step of Serve's goroutines, of the server goroutine and of the    *)
(* user's interrupts keeps the strengthened invariant.  Each case proves   *)
(* the Boolean variables' types (Zenon), the pcs and counts (SMT) and the  *)
(* resources held at each pc apart.                                         *)
LEMMA NextIInv == IInv /\ [Next]_vars => IInv'
<1> SUFFICES ASSUME IInv, [Next]_vars PROVE IInv'
  OBVIOUS
<1> DEFINE Rest == TypePcs /\ TypeCounts /\ StopsByPc
<1>0. IInv' <=> TypeFlags' /\ Rest' /\ ResourcesByPc'
  BY Zenon DEF IInv, TypeOK, Rest
<1> USE SignalsAssumption, <1>0
<1>1. CASE NewHook
  <2>1. TypeFlags'
    BY <1>1, Zenon DEF NewHook, IInv, TypeOK, TypeFlags
  <2>2. Rest'
    BY <1>1 DEF NewHook, Outcomes, Rest, IInv, TypeOK, TypePcs, TypeCounts, StopsByPc, ResourcesByPc, EarlyPcs
  <2>3. ResourcesByPc'
    BY <1>1 DEF NewHook, Outcomes, IInv, TypeOK, TypePcs, TypeCounts, StopsByPc, ResourcesByPc, EarlyPcs
  <2>4. QED
    BY <2>1, <2>2, <2>3
<1>2. CASE SelectLoad
  <2>0. Rest /\ mainPc = "selectLoad"
    BY <1>2, Zenon DEF SelectLoad, Rest, IInv, TypeOK
  <2>1. TypeFlags'
    BY <1>2, Zenon DEF SelectLoad, Outcomes, IInv, TypeOK, TypeFlags
  <2>2. CASE Signalled
    <3>1. mainPc' = "return" /\ stopper' = 0
      BY <1>2, <2>2, Zenon DEF SelectLoad
    <3>2. UNCHANGED <<appPc, srvPc, signals, hooksLoaded, proxyUp, stopCalls, proxyStops>>
      BY <1>2, <2>2, Zenon DEF SelectLoad
    <3>3. Rest'
      BY <2>0, <3>1, <3>2 DEF Rest, TypePcs, TypeCounts, StopsByPc, EarlyPcs
    <3>4. ResourcesByPc'
      BY <3>1, <3>2, Zenon DEF ResourcesByPc
    <3>5. QED
      BY <2>1, <3>3, <3>4
  <2>3. CASE ~Signalled
    <3>1. PICK ok \in Outcomes : hooksLoaded' = ok /\ mainPc' = IF ok THEN "sendPort" ELSE "return"
      BY <1>2, <2>3, Zenon DEF SelectLoad
    <3>2. UNCHANGED <<stopper, appPc, srvPc, signals, proxyUp, stopCalls, proxyStops>>
      BY <1>2, <2>3, Zenon DEF SelectLoad
    <3>3. mainPc' \in {"sendPort", "return"}
      BY <3>1, Zenon
    <3>4. Rest'
      BY <2>0, <3>2, <3>3 DEF Rest, TypePcs, TypeCounts, StopsByPc, EarlyPcs
    <3>5. ResourcesByPc'
      <4>1. CASE ok
        <5>1. mainPc' = "sendPort" /\ hooksLoaded'
          BY <3>1, <4>1, Zenon
        <5>2. ~proxyUp'
          BY <1>2, <2>0, <3>2, Zenon DEF IInv, ResourcesByPc
        <5>3. QED
          BY <5>1, <5>2, Zenon DEF ResourcesByPc
      <4>2. CASE ~ok
        BY <3>1, <4>2, Zenon DEF ResourcesByPc
      <4>3. QED
        BY <4>1, <4>2
    <3>6. QED
      BY <2>1, <3>4, <3>5
  <2>4. QED
    BY <2>2, <2>3
<1>3. CASE SendPort
  <2>1. TypeFlags'
    BY <1>3, Zenon DEF SendPort, IInv, TypeOK, TypeFlags
  <2>2. Rest'
    BY <1>3 DEF SendPort, Outcomes, Rest, IInv, TypeOK, TypePcs, TypeCounts, StopsByPc, ResourcesByPc, EarlyPcs
  <2>3. ResourcesByPc'
    BY <1>3 DEF SendPort, Outcomes, IInv, TypeOK, TypePcs, TypeCounts, StopsByPc, ResourcesByPc, EarlyPcs
  <2>4. QED
    BY <2>1, <2>2, <2>3
<1>4. CASE SelectProxy
  <2>1. TypeFlags'
    BY <1>4, Zenon DEF SelectProxy, IInv, TypeOK, TypeFlags
  <2>2. Rest'
    BY <1>4 DEF SelectProxy, Signalled, Rest, IInv, TypeOK, TypePcs, TypeCounts, StopsByPc, ResourcesByPc, EarlyPcs
  <2>3. ResourcesByPc'
    BY <1>4 DEF SelectProxy, Signalled, IInv, TypeOK, TypePcs, TypeCounts, StopsByPc, ResourcesByPc, EarlyPcs
  <2>4. QED
    BY <2>1, <2>2, <2>3
<1>5. CASE SendProxyInfo
  <2>1. TypeFlags'
    BY <1>5, Zenon DEF SendProxyInfo, IInv, TypeOK, TypeFlags
  <2>2. Rest'
    BY <1>5 DEF SendProxyInfo, Outcomes, Rest, IInv, TypeOK, TypePcs, TypeCounts, StopsByPc, ResourcesByPc, EarlyPcs
  <2>3. ResourcesByPc'
    BY <1>5 DEF SendProxyInfo, Outcomes, IInv, TypeOK, TypePcs, TypeCounts, StopsByPc, ResourcesByPc, EarlyPcs
  <2>4. QED
    BY <2>1, <2>2, <2>3
<1>6. CASE SendPassThrough
  <2>1. TypeFlags'
    BY <1>6, Zenon DEF SendPassThrough, IInv, TypeOK, TypeFlags
  <2>2. Rest'
    BY <1>6 DEF SendPassThrough, Outcomes, Rest, IInv, TypeOK, TypePcs, TypeCounts, StopsByPc, ResourcesByPc, EarlyPcs
  <2>3. ResourcesByPc'
    BY <1>6 DEF SendPassThrough, Outcomes, IInv, TypeOK, TypePcs, TypeCounts, StopsByPc, ResourcesByPc, EarlyPcs
  <2>4. QED
    BY <2>1, <2>2, <2>3
<1>7. CASE SelectApp
  <2>1. TypeFlags'
    BY <1>7, Zenon DEF SelectApp, IInv, TypeOK, TypeFlags
  <2>2. Rest'
    BY <1>7 DEF SelectApp, Signalled, Rest, IInv, TypeOK, TypePcs, TypeCounts, StopsByPc, ResourcesByPc, EarlyPcs
  <2>3. ResourcesByPc'
    BY <1>7 DEF SelectApp, Signalled, IInv, TypeOK, TypePcs, TypeCounts, StopsByPc, ResourcesByPc, EarlyPcs
  <2>4. QED
    BY <2>1, <2>2, <2>3
<1>8. CASE WaitAppSignal
  <2>1. TypeFlags'
    BY <1>8, Zenon DEF WaitAppSignal, IInv, TypeOK, TypeFlags
  <2>2. Rest'
    BY <1>8 DEF WaitAppSignal, Signalled, Rest, IInv, TypeOK, TypePcs, TypeCounts, StopsByPc, ResourcesByPc, EarlyPcs
  <2>3. ResourcesByPc'
    BY <1>8 DEF WaitAppSignal, Signalled, IInv, TypeOK, TypePcs, TypeCounts, StopsByPc, ResourcesByPc, EarlyPcs
  <2>4. QED
    BY <2>1, <2>2, <2>3
<1>9. CASE AbortHandshake
  <2>1. TypeFlags'
    BY <1>9, Zenon DEF AbortHandshake, IInv, TypeOK, TypeFlags
  <2>2. Rest'
    BY <1>9 DEF AbortHandshake, Rest, IInv, TypeOK, TypePcs, TypeCounts, StopsByPc, ResourcesByPc, EarlyPcs
  <2>3. ResourcesByPc'
    BY <1>9 DEF AbortHandshake, IInv, TypeOK, TypePcs, TypeCounts, StopsByPc, ResourcesByPc, EarlyPcs
  <2>4. QED
    BY <2>1, <2>2, <2>3
<1>10. CASE ExitHandshake
  <2>1. TypeFlags'
    BY <1>10, Zenon DEF ExitHandshake, IInv, TypeOK, TypeFlags
  <2>2. Rest'
    BY <1>10 DEF ExitHandshake, Rest, IInv, TypeOK, TypePcs, TypeCounts, StopsByPc, ResourcesByPc, EarlyPcs
  <2>3. ResourcesByPc'
    BY <1>10 DEF ExitHandshake, IInv, TypeOK, TypePcs, TypeCounts, StopsByPc, ResourcesByPc, EarlyPcs
  <2>4. QED
    BY <2>1, <2>2, <2>3
<1>11. CASE ServeReturn
  <2>1. TypeFlags'
    BY <1>11, Zenon DEF ServeReturn, IInv, TypeOK, TypeFlags
  <2>2. Rest'
    BY <1>11 DEF ServeReturn, Rest, IInv, TypeOK, TypePcs, TypeCounts, StopsByPc, ResourcesByPc, EarlyPcs
  <2>3. ResourcesByPc'
    BY <1>11 DEF ServeReturn, IInv, TypeOK, TypePcs, TypeCounts, StopsByPc, ResourcesByPc, EarlyPcs
  <2>4. QED
    BY <2>1, <2>2, <2>3
<1>12. CASE AppEnds
  <2>1. TypeFlags'
    BY <1>12, Zenon DEF AppEnds, IInv, TypeOK, TypeFlags
  <2>2. Rest'
    BY <1>12 DEF AppEnds, AppErrors, Rest, IInv, TypeOK, TypePcs, TypeCounts, StopsByPc, ResourcesByPc, EarlyPcs
  <2>3. ResourcesByPc'
    BY <1>12 DEF AppEnds, AppErrors, IInv, TypeOK, TypePcs, TypeCounts, StopsByPc, ResourcesByPc, EarlyPcs
  <2>4. QED
    BY <2>1, <2>2, <2>3
<1>13. CASE AppCheckFlag
  <2>1. TypeFlags'
    BY <1>13, Zenon DEF AppCheckFlag, IInv, TypeOK, TypeFlags
  <2>2. Rest'
    BY <1>13 DEF AppCheckFlag, Rest, IInv, TypeOK, TypePcs, TypeCounts, StopsByPc, ResourcesByPc, EarlyPcs
  <2>3. ResourcesByPc'
    BY <1>13 DEF AppCheckFlag, IInv, TypeOK, TypePcs, TypeCounts, StopsByPc, ResourcesByPc, EarlyPcs
  <2>4. QED
    BY <2>1, <2>2, <2>3
<1>14. CASE AppStopping
  <2>1. TypeFlags'
    BY <1>14, Zenon DEF AppStopping, IInv, TypeOK, TypeFlags
  <2>2. Rest'
    BY <1>14 DEF AppStopping, Rest, IInv, TypeOK, TypePcs, TypeCounts, StopsByPc, ResourcesByPc, EarlyPcs
  <2>3. ResourcesByPc'
    BY <1>14 DEF AppStopping, IInv, TypeOK, TypePcs, TypeCounts, StopsByPc, ResourcesByPc, EarlyPcs
  <2>4. QED
    BY <2>1, <2>2, <2>3
<1>15. CASE ServerStops
  <2>1. TypeFlags'
    BY <1>15, Zenon DEF ServerStops, IInv, TypeOK, TypeFlags
  <2>2. Rest'
    BY <1>15 DEF ServerStops, Rest, IInv, TypeOK, TypePcs, TypeCounts, StopsByPc, ResourcesByPc, EarlyPcs
  <2>3. ResourcesByPc'
    BY <1>15 DEF ServerStops, IInv, TypeOK, TypePcs, TypeCounts, StopsByPc, ResourcesByPc, EarlyPcs
  <2>4. QED
    BY <2>1, <2>2, <2>3
<1>16. CASE ListenFails
  <2>1. TypeFlags'
    BY <1>16, Zenon DEF ListenFails, IInv, TypeOK, TypeFlags
  <2>2. Rest'
    BY <1>16 DEF ListenFails, Rest, IInv, TypeOK, TypePcs, TypeCounts, StopsByPc, ResourcesByPc, EarlyPcs
  <2>3. ResourcesByPc'
    BY <1>16 DEF ListenFails, IInv, TypeOK, TypePcs, TypeCounts, StopsByPc, ResourcesByPc, EarlyPcs
  <2>4. QED
    BY <2>1, <2>2, <2>3
<1>17. CASE Interrupt
  <2>1. TypeFlags'
    BY <1>17, Zenon DEF Interrupt, IInv, TypeOK, TypeFlags
  <2>2. Rest'
    BY <1>17 DEF Interrupt, Rest, IInv, TypeOK, TypePcs, TypeCounts, StopsByPc, ResourcesByPc, EarlyPcs
  <2>3. ResourcesByPc'
    BY <1>17 DEF Interrupt, IInv, TypeOK, TypePcs, TypeCounts, StopsByPc, ResourcesByPc, EarlyPcs
  <2>4. QED
    BY <2>1, <2>2, <2>3
<1>18. CASE UNCHANGED vars
  <2>1. TypeFlags'
    BY <1>18, Zenon DEF vars, IInv, TypeOK, TypeFlags
  <2>2. Rest'
    BY <1>18 DEF vars, Rest, IInv, TypeOK, TypePcs, TypeCounts, StopsByPc, ResourcesByPc, EarlyPcs
  <2>3. ResourcesByPc'
    BY <1>18 DEF vars, IInv, TypeOK, TypePcs, TypeCounts, StopsByPc, ResourcesByPc, EarlyPcs
  <2>4. QED
    BY <2>1, <2>2, <2>3
<1>19. QED
  BY <1>1, <1>2, <1>3, <1>4, <1>5, <1>6, <1>7, <1>8, <1>9, <1>10, <1>11, <1>12, <1>13, <1>14, <1>15, <1>16, <1>17, <1>18 DEF Next, MainStep, AppStep

(* In every reachable state of Serve, the stop counts and the hooks and    *)
(* proxy flags agree with where the main goroutine is (IInv): loadedHooks *)
(* and the proxy are up exactly from LoadHooks and BootProxy on, neither  *)
(* Stop runs before Serve waits on the application, and each runs at most *)
(* once.                                                                   *)
THEOREM AlwaysIInv == Spec => []IInv
BY InitIInv, NextIInv, PTL DEF Spec

(* Whatever the interleaving of an interrupt with the end of the user's    *)
(* application and the unsynchronised read of abortStopHooksForcefully     *)
(* (service.go lines 243 and 256-261), loadedHooks.Stop and                 *)
(* StopProxyServer are each called at most once.                           *)
THEOREM StopOnce == Spec => []StopAtMostOnce
<1>1. IInv => StopAtMostOnce
  BY DEF IInv, StopAtMostOnce, StopsByPc, TypeOK, TypePcs, TypeCounts, EarlyPcs
<1>2. QED
  BY <1>1, AlwaysIInv, PTL

(* Every reachable state of Serve is well typed: the stopper buffer never  *)
(* holds more than one signal, for every bound on interrupts.              *)
THEOREM ServeTypeCorrect == Spec => []TypeOK
<1>1. IInv => TypeOK
  BY DEF IInv
<1>2. QED
  BY <1>1, AlwaysIInv, PTL

-----------------------------------------------------------------------------
(* Serve starts where ServeResources starts: nothing loaded or booted. *)
LEMMA InitRefines == Init => Resources!Init
BY DEF Init, Resources!Init, HooksState, ProxyState

(* Every step of Serve is a step of ServeResources or leaves the hooks,    *)
(* the proxy and whether Serve returned as they were.                      *)
LEMMA NextRefines == IInv /\ [Next]_vars => [Resources!Next]_Resources!vars
<1> SUFFICES ASSUME IInv, [Next]_vars PROVE [Resources!Next]_Resources!vars
  OBVIOUS
<1> USE SignalsAssumption
<1>1. CASE NewHook
  BY <1>1 DEF NewHook, Outcomes, Resources!Next, Resources!vars, HooksState, ProxyState, IInv, TypeOK, TypePcs, TypeCounts, StopsByPc, ResourcesByPc, EarlyPcs, Resources!Return
<1>2. CASE SelectLoad
  BY <1>2 DEF SelectLoad, Outcomes, Signalled, Resources!Next, Resources!vars, HooksState, ProxyState, IInv, TypeOK, TypePcs, TypeCounts, StopsByPc, ResourcesByPc, EarlyPcs, Resources!Load
<1>3. CASE SendPort
  BY <1>3 DEF SendPort, Outcomes, Resources!Next, Resources!vars, HooksState, ProxyState, IInv, TypeOK, TypePcs, TypeCounts, StopsByPc, ResourcesByPc, EarlyPcs
<1>4. CASE SelectProxy
  BY <1>4 DEF SelectProxy, Signalled, Resources!Next, Resources!vars, HooksState, ProxyState, IInv, TypeOK, TypePcs, TypeCounts, StopsByPc, ResourcesByPc, EarlyPcs, Resources!StopHooks, Resources!Boot
<1>5. CASE SendProxyInfo
  BY <1>5 DEF SendProxyInfo, Outcomes, Resources!Next, Resources!vars, HooksState, ProxyState, IInv, TypeOK, TypePcs, TypeCounts, StopsByPc, ResourcesByPc, EarlyPcs
<1>6. CASE SendPassThrough
  BY <1>6 DEF SendPassThrough, Outcomes, Resources!Next, Resources!vars, HooksState, ProxyState, IInv, TypeOK, TypePcs, TypeCounts, StopsByPc, ResourcesByPc, EarlyPcs
<1>7. CASE SelectApp
  BY <1>7 DEF SelectApp, Signalled, Resources!Next, Resources!vars, HooksState, ProxyState, IInv, TypeOK, TypePcs, TypeCounts, StopsByPc, ResourcesByPc, EarlyPcs, Resources!StopBoth
<1>8. CASE WaitAppSignal
  BY <1>8 DEF WaitAppSignal, Signalled, Resources!Next, Resources!vars, HooksState, ProxyState, IInv, TypeOK, TypePcs, TypeCounts, StopsByPc, ResourcesByPc, EarlyPcs, Resources!StopBoth
<1>9. CASE AbortHandshake
  BY <1>9 DEF AbortHandshake, Resources!Next, Resources!vars, HooksState, ProxyState, IInv, TypeOK, TypePcs, TypeCounts, StopsByPc, ResourcesByPc, EarlyPcs
<1>10. CASE ExitHandshake
  BY <1>10 DEF ExitHandshake, Resources!Next, Resources!vars, HooksState, ProxyState, IInv, TypeOK, TypePcs, TypeCounts, StopsByPc, ResourcesByPc, EarlyPcs
<1>11. CASE ServeReturn
  BY <1>11 DEF ServeReturn, Resources!Next, Resources!vars, HooksState, ProxyState, IInv, TypeOK, TypePcs, TypeCounts, StopsByPc, ResourcesByPc, EarlyPcs, Resources!Return
<1>12. CASE AppEnds
  BY <1>12 DEF AppEnds, AppErrors, Resources!Next, Resources!vars, HooksState, ProxyState, IInv, TypeOK, TypePcs, TypeCounts, StopsByPc, ResourcesByPc, EarlyPcs
<1>13. CASE AppCheckFlag
  BY <1>13 DEF AppCheckFlag, Resources!Next, Resources!vars, HooksState, ProxyState, IInv, TypeOK, TypePcs, TypeCounts, StopsByPc, ResourcesByPc, EarlyPcs
<1>14. CASE AppStopping
  BY <1>14 DEF AppStopping, Resources!Next, Resources!vars, HooksState, ProxyState, IInv, TypeOK, TypePcs, TypeCounts, StopsByPc, ResourcesByPc, EarlyPcs, Resources!StopBoth
<1>15. CASE ServerStops
  BY <1>15 DEF ServerStops, Resources!Next, Resources!vars, HooksState, ProxyState, IInv, TypeOK, TypePcs, TypeCounts, StopsByPc, ResourcesByPc, EarlyPcs
<1>16. CASE ListenFails
  BY <1>16 DEF ListenFails, Resources!Next, Resources!vars, HooksState, ProxyState, IInv, TypeOK, TypePcs, TypeCounts, StopsByPc, ResourcesByPc, EarlyPcs
<1>17. CASE Interrupt
  BY <1>17 DEF Interrupt, Resources!Next, Resources!vars, HooksState, ProxyState, IInv, TypeOK, TypePcs, TypeCounts, StopsByPc, ResourcesByPc, EarlyPcs
<1>18. CASE UNCHANGED vars
  BY <1>18 DEF vars, Resources!Next, Resources!vars, HooksState, ProxyState
<1>19. QED
  BY <1>1, <1>2, <1>3, <1>4, <1>5, <1>6, <1>7, <1>8, <1>9, <1>10, <1>11, <1>12, <1>13, <1>14, <1>15, <1>16, <1>17, <1>18 DEF Next, MainStep, AppStep

(* Serve implements ServeResources (the property ImplementsResources): it  *)
(* stops the hooks only after LoadHooks succeeded and the proxy only after *)
(* BootProxy, each at most once, and nothing after it has returned.        *)
THEOREM Refinement == Spec => ImplementsResources
<1>1. QED
  BY InitRefines, NextRefines, AlwaysIInv, PTL DEF Spec, ImplementsResources, Resources!Spec
=============================================================================
