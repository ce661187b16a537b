---------------------------- MODULE ServeResources ----------------------------
(***************************************************************************)
(* What the serve command promises about the two resources it holds, the   *)
(* loaded eBPF hooks and the booted proxy, whatever its goroutines do: the *)
(* hooks are loaded before the proxy is booted, each resource is stopped   *)
(* only once it is up and at most once, the two are stopped together once *)
(* the proxy is up, and nothing is stopped after Serve has returned.       *)
(* GraphqlServe implements this specification.                             *)
(***************************************************************************)
VARIABLES
  hooks,     \* "none", "loaded" or "stopped"
  proxy,     \* "none", "up" or "stopped"
  returned   \* Serve has returned

vars == <<hooks, proxy, returned>>

Init == hooks = "none" /\ proxy = "none" /\ returned = FALSE

Load ==
  /\ ~returned /\ hooks = "none"
  /\ hooks' = "loaded"
  /\ UNCHANGED <<proxy, returned>>

Boot ==
  /\ ~returned /\ hooks = "loaded" /\ proxy = "none"
  /\ proxy' = "up"
  /\ UNCHANGED <<hooks, returned>>

\* Stopping the hooks before the proxy was booted.
StopHooks ==
  /\ ~returned /\ hooks = "loaded" /\ proxy = "none"
  /\ hooks' = "stopped"
  /\ UNCHANGED <<proxy, returned>>

\* Stopping the hooks and the proxy.
StopBoth ==
  /\ ~returned /\ hooks = "loaded" /\ proxy = "up"
  /\ hooks' = "stopped" /\ proxy' = "stopped"
  /\ UNCHANGED returned

Return ==
  /\ ~returned /\ returned' = TRUE
  /\ UNCHANGED <<hooks, proxy>>

Next == Load \/ Boot \/ StopHooks \/ StopBoth \/ Return

Spec == Init /\ [][Next]_vars
=============================================================================
