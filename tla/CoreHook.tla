------------------------------- MODULE CoreHook -------------------------------
(***************************************************************************)
(* Core.Setup, Core.Hook and the nsswitch.conf handling of test mode       *)
(* (src/pkg/core/core.go lines 38-182 and 253-312).  Hook loads the hooks, *)
(* starts the proxy once per Core and, in test mode, rewrites the "hosts:" *)
(* lines of /etc/nsswitch.conf to "hosts: files dns", saving the old line  *)
(* in hostConfigStr.  Each Hook call also starts a shutdown goroutine      *)
(* that, once the caller's context is cancelled, stops the proxy and the   *)
(* hooks and writes hostConfigStr back into the file if it is non-empty.   *)
(*                                                                         *)
(* The file is abstracted to the sequence of its "hosts:" lines: the other *)
(* lines pass through both rewrites untouched.  The caller (not under      *)
(* src/) cancels the context at any moment.                                *)
(***************************************************************************)
EXTENDS Naturals, Sequences

CONSTANTS
  Mode,          \* opts.Mode: "record" or "test"
  OrigHosts,     \* the "hosts:" lines of /etc/nsswitch.conf before keploy
  FileExists,    \* os.Stat finds /etc/nsswitch.conf
  CallsMayFail,  \* a.Setup, hook.Load, StartProxy and file reads and writes may fail
  MaxHooks,      \* Hook calls of the caller
  Ids,           \* app ids the caller may pass
  Empty,         \* the empty string
  FilesDns       \* the line "hosts: files dns"

VARIABLES
  nextId,        \* c.id
  apps,          \* the ids stored in c.apps
  proxyStarted,  \* c.proxyStarted
  hostConfigStr, \* c.hostConfigStr
  file,          \* the "hosts:" lines of /etc/nsswitch.conf
  ctxDone,       \* the caller cancelled ctx
  calls,         \* Hook calls made
  hookPc,        \* where the running Hook call is
  hookLines,     \* setupNsswitchConfig's lines, between read and write
  shutPc,        \* shutPc[k]: the shutdown goroutine of the k-th Hook call
  shutLines      \* shutLines[k]: resetNsSwitchConfig's lines, between read and write

vars == <<nextId, apps, proxyStarted, hostConfigStr, file, ctxDone, calls, hookPc,
          hookLines, shutPc, shutLines>>

Calls == 1..MaxHooks

Init ==
  /\ nextId = 1 /\ apps = {} /\ proxyStarted = FALSE /\ hostConfigStr = Empty
  /\ file = OrigHosts /\ ctxDone = FALSE /\ calls = 0 /\ hookPc = "idle"
  /\ hookLines = <<>>
  /\ shutPc = [k \in Calls |-> "none"] /\ shutLines = [k \in Calls |-> <<>>]

Outcomes == IF CallsMayFail THEN {TRUE, FALSE} ELSE {TRUE}

\* Replace every line of ls by l, as the loops of lines 267-272 and 297-301 do.
ReplaceAll(ls, l) == [i \in 1..Len(ls) |-> l]

-----------------------------------------------------------------------------
(* Setup (lines 38-54): the app is stored under the next id before         *)
(* a.Setup runs, and stays stored when it fails, so its result changes    *)
(* nothing here.                                                            *)
Setup ==
  /\ hookPc = "idle" /\ nextId \in Ids
  /\ apps' = apps \cup {nextId} /\ nextId' = nextId + 1
  /\ UNCHANGED <<proxyStarted, hostConfigStr, file, ctxDone, calls, hookPc, hookLines,
                 shutPc, shutLines>>

(* Hook, lines 71-133: getApp (lines 56-69) fails for an unknown id; a    *)
(* cancelled context returns; otherwise the shutdown goroutine is started. *)
HookStart ==
  /\ hookPc = "idle" /\ calls < MaxHooks
  /\ \E id \in Ids :
       /\ calls' = calls + 1
       /\ IF id \in apps /\ ~ctxDone
            THEN /\ shutPc' = [shutPc EXCEPT ![calls + 1] = "wait"]
                 /\ hookPc' = "load"
            ELSE UNCHANGED <<shutPc, hookPc>>
  /\ UNCHANGED <<nextId, apps, proxyStarted, hostConfigStr, file, ctxDone, hookLines,
                 shutLines>>

(* Lines 136-156: hook.Load, a failure returns hookErr; a proxy already    *)
(* started returns nil; a cancelled context returns its error.             *)
HookLoad ==
  /\ hookPc = "load"
  /\ \E ok \in Outcomes :
       hookPc' = IF ok /\ ~proxyStarted /\ ~ctxDone THEN "startProxy" ELSE "idle"
  /\ UNCHANGED <<nextId, apps, proxyStarted, hostConfigStr, file, ctxDone, calls,
                 hookLines, shutPc, shutLines>>

(* Lines 162-178: StartProxy, a failure returns hookErr; then the proxy is *)
(* marked started and, in test mode, setupNsswitchConfig runs.             *)
HookStartProxy ==
  /\ hookPc = "startProxy"
  /\ \E ok \in Outcomes :
       /\ proxyStarted' = ok
       /\ hookPc' = IF ok /\ Mode = "test" THEN "setupRead" ELSE "idle"
  /\ UNCHANGED <<nextId, apps, hostConfigStr, file, ctxDone, calls, hookLines, shutPc,
                 shutLines>>

(* setupNsswitchConfig, lines 253-272: without the file nothing happens;   *)
(* a failed read returns an error; otherwise every "hosts:" line is saved *)
(* in hostConfigStr, the last one staying, and replaced.                  *)
SetupRead ==
  /\ hookPc = "setupRead"
  /\ \E ok \in Outcomes :
       IF FileExists /\ ok
         THEN /\ hostConfigStr' = IF file = <<>> THEN hostConfigStr ELSE file[Len(file)]
              /\ hookLines' = ReplaceAll(file, FilesDns)
              /\ hookPc' = "setupWrite"
         ELSE /\ hookPc' = "idle"
              /\ UNCHANGED <<hostConfigStr, hookLines>>
  /\ UNCHANGED <<nextId, apps, proxyStarted, file, ctxDone, calls, shutPc, shutLines>>

(* Lines 275-283: the lines are written back; a failed write returns. *)
SetupWrite ==
  /\ hookPc = "setupWrite"
  /\ \E ok \in Outcomes : file' = IF ok THEN hookLines ELSE file
  /\ hookPc' = "idle"
  /\ UNCHANGED <<nextId, apps, proxyStarted, hostConfigStr, ctxDone, calls, hookLines,
                 shutPc, shutLines>>

-----------------------------------------------------------------------------
(* The shutdown goroutine, lines 110-124: once ctx is cancelled it cancels *)
(* the proxy's and the hooks' contexts and waits for their groups.         *)
ShutdownDrain(k) ==
  /\ shutPc[k] = "wait" /\ ctxDone
  /\ shutPc' = [shutPc EXCEPT ![k] = "check"]
  /\ UNCHANGED <<nextId, apps, proxyStarted, hostConfigStr, file, ctxDone, calls, hookPc,
                 hookLines, shutLines>>

(* Line 126: in test mode, with a saved hosts line, restore it. *)
ShutdownCheck(k) ==
  /\ shutPc[k] = "check"
  /\ shutPc' = [shutPc EXCEPT ![k] = IF Mode = "test" /\ hostConfigStr # Empty
                                      THEN "resetRead" ELSE "done"]
  /\ UNCHANGED <<nextId, apps, proxyStarted, hostConfigStr, file, ctxDone, calls, hookPc,
                 hookLines, shutLines>>

(* resetNsSwitchConfig, lines 287-301: read the file and put hostConfigStr *)
(* in place of every "hosts:" line; a failed read returns.                 *)
ResetRead(k) ==
  /\ shutPc[k] = "resetRead"
  /\ \E ok \in Outcomes :
       /\ shutPc' = [shutPc EXCEPT ![k] = IF ok THEN "resetWrite" ELSE "done"]
       /\ shutLines' = IF ok THEN [shutLines EXCEPT ![k] = ReplaceAll(file, hostConfigStr)]
                             ELSE shutLines
  /\ UNCHANGED <<nextId, apps, proxyStarted, hostConfigStr, file, ctxDone, calls, hookPc,
                 hookLines>>

(* Lines 303-311: write the lines back; a failed write returns. *)
ResetWrite(k) ==
  /\ shutPc[k] = "resetWrite"
  /\ \E ok \in Outcomes : file' = IF ok THEN shutLines[k] ELSE file
  /\ shutPc' = [shutPc EXCEPT ![k] = "done"]
  /\ UNCHANGED <<nextId, apps, proxyStarted, hostConfigStr, ctxDone, calls, hookPc,
                 hookLines, shutLines>>

(* The caller cancels ctx: the user stops keploy. *)
Cancel ==
  /\ ~ctxDone /\ ctxDone' = TRUE
  /\ UNCHANGED <<nextId, apps, proxyStarted, hostConfigStr, file, calls, hookPc,
                 hookLines, shutPc, shutLines>>

Next ==
  \/ Setup \/ HookStart \/ HookLoad \/ HookStartProxy \/ SetupRead \/ SetupWrite
  \/ Cancel
  \/ \E k \in Calls : ShutdownDrain(k) \/ ShutdownCheck(k) \/ ResetRead(k) \/ ResetWrite(k)

Spec == Init /\ [][Next]_vars

-----------------------------------------------------------------------------
TypeOK ==
  /\ nextId \in Nat /\ apps \subseteq Nat /\ proxyStarted \in BOOLEAN
  /\ ctxDone \in BOOLEAN /\ calls \in 0..MaxHooks
  /\ hookPc \in {"idle", "load", "startProxy", "setupRead", "setupWrite"}
  /\ shutPc \in [Calls -> {"none", "wait", "check", "resetRead", "resetWrite", "done"}]

\* Keploy has stopped: ctx is cancelled, no Hook call runs and every
\* shutdown goroutine has finished.
Stopped ==
  /\ ctxDone /\ hookPc = "idle"
  /\ \A k \in Calls : shutPc[k] \in {"none", "done"}

(* Safety, about the comment of line 125 and setupNsswitchConfig: once     *)
(* keploy has stopped, /etc/nsswitch.conf has its original "hosts:" lines  *)
(* again.  It can fail when the shutdown goroutine checks hostConfigStr    *)
(* (line 126) before Hook's setupNsswitchConfig writes it (line 269).      *)
NsswitchRestored == Stopped => file = OrigHosts
=============================================================================
