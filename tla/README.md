# TLA+ models of keploy's recording and serving paths

These modules model the parts of keploy that record traffic and run the
serve command:
* the ingress connection tracker;
* the record session and `Core.Run`;
* `Core.Hook`, with its test-mode rewrite of `/etc/nsswitch.conf`;
* the HTTP parser in record mode;
* `server.Serve`.

They model the concurrency and the framing logic of those parts from the Go
sources under `src/`. TLC checks them on small instances. TLAPS proves, for
all values of the constants:
* the tracker's type invariant and queue alignment;
* the record session's type invariant, and that Start returns only with both
  streams closed and drained;
* that Serve stops the hooks and the proxy at most once;
* that Serve implements `ServeResources`, an abstract specification of the
  resources it holds.

## The system and how its parts interact

* **`recorder.Start`** (`src/unnamed/part_001`, lines 38-243) drives a
  session. It:
  * sets up the application;
  * starts the hooks and the proxy through `Core.Hook` (`src/pkg/core/core.go`, 71-182);
  * obtains the incoming (test case) and outgoing (mock) streams;
  * starts a consumer goroutine for each stream, an application goroutine
    (`Core.Run`) and a record timer;
  * waits in a `select` for an application error, an insert error or
    cancellation.

  Its deferred functions run in LIFO order:
  1. close the three error channels;
  2. stop keploy unless the context is cancelled;
  3. cancel the application's context and wait for it;
  4. cancel the hooks and wait for them;
  5. wait for the consumers and the timer.
* **`Core.Run`** (`core.go` 184-239) runs the application.
  * Its inode goroutine receives a docker container's inode on the unbuffered
    `inodeChan` and hands it to the hooks.
  * Its app goroutine reports the way the application ended on `appErrCh`,
    then closes it.
* **`Core.Hook`'s shutdown goroutine** (`core.go` 110-133) waits for the
  session's context to be cancelled, then stops the proxy and unloads the
  hooks. Those two steps close the outgoing and incoming streams.
* **The connection `Tracker`** (`src/unnamed/part_002`) is fed by the eBPF probe.
  * It receives open, close and data events of one application connection.
  * It cuts the stream of reads and writes into requests and responses.
  * The factory polls `IsComplete` to take out validated pairs, which become
    test cases.
* **`Core.Hook`** itself (`core.go` 71-182) does the following:
  * finds the app stored by `Core.Setup` (38-54);
  * loads the hooks;
  * starts the proxy once per `Core` (`proxyStarted`);
  * in test mode, runs `setupNsswitchConfig` (253-284). This saves the
    `hosts:` line of `/etc/nsswitch.conf` in `hostConfigStr` and replaces the
    line by `hosts: files dns`.

  The shutdown goroutine writes `hostConfigStr` back with
  `resetNsSwitchConfig` (287-312), but only if `hostConfigStr` is non-empty
  when the goroutine looks.
* **`server.Serve`** (`src/pkg/service/replay/service.go` 107-278) is the
  serve command.
  * It loads the hooks, sends ports to the eBPF program, boots the proxy, and
    starts a GraphQL server goroutine and an application goroutine.
  * An interrupt on the `stopper` channel can arrive at any point. Before
    each step, a `select` with a default case returns on one.
  * The application goroutine and Serve's last `select` decide who stops the
    hooks and the proxy. They use the flag `abortStopHooksForcefully` and the
    unbuffered channels `abortStopHooksInterrupt` and `exitCmd`.
* **The HTTP parser** (`src/pkg/proxy/integrations/httpparser/httpparser.go`)
  relays one outgoing HTTP connection of the application through the proxy.
  * It frames the messages by `Content-Length`, chunked encoding and
    `Expect: 100-continue`.
  * It hands every exchange to an `AppendMocks` goroutine, which stores it as
    a mock.

## Modules

| module | models | source |
|---|---|---|
| `ConnTracker` | `Tracker`: `NewTracker`, `AddDataEvent` (both directions), `AddOpenEvent`, `AddCloseEvent`, `IsComplete` (queued / malformed / idle / idle-malformed), `resetConnection`; and the application and kernel as environment | part_002 |
| `ConnTrackerProofs` | the inductive invariant and the TLAPS proofs | – |
| `ConnTrackerFaithfulProofs` | the inductive invariant `FInv` and the TLAPS proof that recorded exchanges are faithful | – |
| `ConnTrackerRequestsProofs` | the inductive invariant `RInv` and the TLAPS proof that recorded requests are whole when requests are read in several reads | – |
| `CoreRun` | `Core.Run`: inode and app goroutines, the three channels, the select, the deferred `Wait` | core.go |
| `RecordStart` | `recorder.Start`, with `CoreRun` for its application goroutine and `Core.Hook`'s shutdown goroutine | part_001, core.go |
| `RecordStartProofs` | the inductive invariant of the record session and its TLAPS proofs | – |
| `HttpRecord` | `encodeOutgoingHttp` and its helpers, `ParseFinalHttp`'s completeness check, the `AppendMocks` goroutines; the client and the server as environment | httpparser.go |
| `CoreHook` | `Core.Setup`, `getApp`, every step of `Core.Hook`, its shutdown goroutine, `setupNsswitchConfig`, `resetNsSwitchConfig`; the caller's cancel as environment | core.go |
| `GraphqlServe` | `server.Serve` whole: main, application and GraphQL server goroutines, `stopper`, the handshakes, the deferred `stopGraphqlServer` | replay/service.go |
| `ServeResources` | what Serve promises about the hooks and the proxy: loaded, booted, stopped, returned | – (abstract) |
| `GraphqlServeProofs` | the inductive invariant of Serve, the refinement of `ServeResources` and their TLAPS proofs | – |
| `MC_ConnTracker`, `MC_ConnTrackerProofs`, `MC_HttpRecord`, `MC_CoreHook`, `MC_GraphqlServe` | the instances TLC runs (`MC_HttpRecord` gives the message shapes) | – |

### ConnTracker

The variables are the `Tracker` fields (`Tracker` struct, lines 18-49):
* the six queues;
* `sentBytes`, `recvBytes`, `SentBuf` and `RecvBuf`;
* the three flags;
* `recordTestCountAtomic`.

Timestamps are replaced by:
* `opened` and `closed`;
* `idle`, which means at least 4 s have passed since the last activity.

A chunk of data is the record `[ex, n, len]`: the n-th read or write of
exchange `ex`, of which `len` bytes reached the event. A recorded buffer can
therefore be compared with what the application really exchanged:
* `appReq[i]` and `appResp[i]` are the sizes the application read and wrote;
* `kread` and `kwritten` are the kernel's counts of the current read and write
  runs.

Every method holds the tracker's mutex for its whole body, so each method is
one atomic action:
* `Ingress(size)` is a read plus the `AddDataEvent` ingress branch;
* `Egress(size)` is a write plus the egress branch, including the trailing
  `UpdateTimestamps`;
* `IsComplete` is split into its four exits, which are mutually exclusive by
  their guards. Each includes `resetConnection` where the code calls it.

### CoreRun and RecordStart

Each goroutine has a program counter. The modelled goroutines are:
* Start's main goroutine (`mainPc`, including its deferred calls in LIFO order);
* the application goroutine of Start (`recRunPc`);
* Run's own goroutines (`runPc`, `inodePc`, `appPc`);
* the two consumers (`cons[s]`);
* the timer (`timerPc`);
* Hook's shutdown goroutine (`hookPc`).

Channels are modelled as follows:
* a buffered channel is a sequence or a count plus a closed flag;
* an unbuffered send meets its receive in one action (`InodeHandoff`);
* a `select` is a disjunction of its ready cases.

A send on a closed channel sets `panicked`. Every action is guarded by
`~panicked`, since a Go panic in a goroutine ends the process.

Each stream is abstracted to two numbers:
* `pending[s]`, the items in flight;
* `emitted[s]`, the items captured so far.

The insert outcomes are ok, `context.Canceled` or an error. Errors are bounded
by `MaxInsertErrors`, which the assumption `CapAssumption` keeps within the
channel buffer of 10.

`app.Run` is not in the sources. What it does (`AppStart`, `InodeHandoff`,
`AppExit`, `AppCancelled`) is taken from the specification; those definitions
are marked `spec_modelled` in `PROJECT.json`.

### HttpRecord

Messages are sequences of segments `[id, hdr, body, term]`. The shapes are
constants:
* `ReqShape[i]` and `RespShape[i]` give each message's framing
  (`length`/`chunked`, `expect`, `pass`) and how the peer splits it into
  writes;
* the header flag `hdr` says whether a segment ends the header block;
* `body` counts body bytes;
* `term` says whether a segment carries the terminating chunk, either alone
  or joined to other data.

`util.ReadBytes` (not in the sources) is modelled by `Reads`. A read returns:
* the data queued on the wire;
* data together with EOF once the peer has closed;
* a bare EOF;
* with `SlowPeers`, a timeout once a read deadline has been set.

There is one proxy action per read of `encodeOutgoingHttp` and its helpers.
Each covers everything the code does up to the next read, including writes to
the other peer and early returns. `Complete` mirrors what `ParseFinalHttp`
needs before it records:
* complete headers;
* a `Content-Length` body that is all there;
* a chunked body ending in the terminating chunk.

### CoreHook

The variables are:
* the `Core` fields `id`, `apps`, `proxyStarted` and `hostConfigStr`;
* the file, reduced to the sequence of its `hosts:` lines, because the other
  lines pass through both rewrites unchanged;
* the caller's `ctxDone`;
* a pc for the running `Hook` call;
* a pc for each shutdown goroutine.

Both nsswitch functions are split into a read step and a write step. A
shutdown goroutine can then interleave between them. `ShutdownCheck` is line
126's test of `hostConfigStr`. The caller that cancels the context in test
mode is outside the sources, so `Cancel` may happen at any time.

### GraphqlServe

`mainPc` follows Serve from `hooks.NewHook` to its return. Each hooks call
with an early return (`NewHook`, `SelectLoad`, `SendPort`, `SendProxyInfo`,
`SendPassThrough`) succeeds or fails when `HooksMayFail` is set.

The three `select`s with a default case take a signal iff one is buffered
(`Signalled`). `Interrupt` models `signal.Notify`: it fills the one-slot
`stopper` and drops the signal when the slot is full.

The application goroutine works as follows:
* `AppEnds` chooses what `LaunchUserApplication` returns;
* `ErrInterrupted` is possible only after a `Stop`, because that is what
  kills the application;
* `AppCheckFlag` reads the unsynchronised flag.

Each unbuffered send meets its receive in one action (`AbortHandshake`,
`ExitHandshake`). `ServeReturn` runs the deferred `stopGraphqlServer`.
`ListenFails` is `log.Fatalf`, which ends the process; every action is guarded
by `~fatal`.

`ServeResources` is the abstract specification of Serve. Its variables are
`hooks` (none, loaded or stopped), `proxy` (none, up or stopped) and
`returned`. Its actions are:
* `Load` and `Boot`;
* `StopHooks`: stop the hooks alone, before the proxy is up;
* `StopBoth`: stop the hooks and the proxy together;
* `Return`.

`GraphqlServe` maps onto it through `HooksState` and `ProxyState`:
* a resource is stopped once its stop count is positive;
* otherwise it is loaded or up when its flag is set;
* `returned` is `mainPc = "done"`.

The property `ImplementsResources` is `Resources!Spec`, with `Resources` the
`INSTANCE ... WITH` of that mapping. Under the mapping:
* `SelectLoad` is `Load`;
* `SelectProxy` is `Boot`, or `StopHooks` on a signal;
* the interrupt paths and `AppStopping` are `StopBoth`;
* `NewHook`'s failure and `ServeReturn` are `Return`;
* every other step stutters.

## Runs

| run | cfg | expect | shows |
|---|---|---|---|
| conn_single_read | ConnTrackerSingleRead | pass | `TypeOK`, `QueuesAligned`, `RecordedExchangesFaithful`: every recorded pair is one exchange's whole request and a prefix of its response; `FInv`, the inductive invariant of the faithfulness proof (it contains `IInv`, that of the alignment proof), on every reachable state; `EveryExchangeRecorded` under fair polling |
| conn_split_requests | ConnTrackerSplitRequests | pass | with requests split over reads, every recorded request is still whole (`RecordedRequestsFaithful`); `RInv`, the inductive invariant of its proof, on every reachable state |
| conn_split_pairing | ConnTrackerSplitPairing | violation | split requests make the tracker pair a request with another exchange's response |
| record_shutdown | RecordShutdown | pass | `DrainedBeforeReturn`: Start returns only after both streams are closed and drained; `IInv`, the proofs' inductive invariant, on every reachable state; `StreamsCloseAfterApp` (action property): Core.Hook's shutdown goroutine closes a stream only after the application goroutine has returned; `StartTerminates`: once shutdown begins, Start returns (or the process panics) |
| record_send_on_closed | RecordSendOnClosed | violation | the deferred closes run before the consumers finish, so an insert error is sent on a closed channel |
| record_docker_hang | RecordDockerHang | violation | a docker app ending before its inode leaves Run's inode goroutine blocked, so Start hangs |
| http_all_paths | HttpAllPaths | pass | `MocksFaithful`: each mock is one whole exchange, never pass-through, never duplicated, through slow, closing and aborting peers |
| http_liveness | HttpLiveness | pass | `RelayFaithful`: each peer receives a prefix of what the other sent; `ExchangesRecorded`: each delivered exchange is eventually stored as a mock. Both hold with slow peers and a client that may abort |
| http_relay_duplicate | HttpRelayDuplicate | violation | line 349 writes `resp` instead of `respHeader`: the client receives bytes twice |
| http_chunk_stall | HttpChunkStall | violation | a terminating chunk joined to other data is never recognised |
| serve_shutdown | ServeShutdown | pass | `StopAtMostOnce`: `loadedHooks.Stop` and `StopProxyServer` are called at most once whichever of an interrupt and the application's end comes first; `IInv`, its inductive strengthening, on every reachable state; `ServeReturns`: once the application has ended, Serve returns; `ImplementsResources`: Serve implements `ServeResources` |
| core_hook_nsswitch | CoreHookNsswitch | violation | a cancel after `Hook`'s context check lets the shutdown goroutine finish before `setupNsswitchConfig` saves the hosts line, which then stays rewritten after keploy stopped |

Each property of a passing run has a mutant in `PROJECT.json`: a variant of a
mapped action with a plausible bug that TLC must catch with that run's cfg.
Examples:
* a consumer that receives without an item;
* `errGrp.Wait` that does not wait for the consumers;
* a deferred stop that does not cancel the application;
* `Parse` that does not reset `finalReq`;
* a chunked-response loop that stops only on EOF.

The findings are listed with their source lines in `PROJECT.json`.

Five further disagreements are recorded as hazards rather than runs:
* **Truncation:** a chunk larger than `EventBodyMaxSize` is truncated in the
  event, but its full size is counted, so a truncated request passes
  validation.
* **Lost events:** the byte counts do not catch a data event lost at a
  direction flip.
* **Clean exit:** a clean application exit reaches Start's select as the zero
  `AppError`, which Start reports as "unknown error". Whether this happens
  depends on `app.Run`, which is outside the sources.
* **EOF with a response:** a response whose first read returns data with EOF
  is relayed but not recorded (httpparser.go 666). TLC finds it with
  `ServerMayClose` and prompt peers. When the data comes with EOF while
  `handleChunkedResponses` is still reading headers (line 349), the write of
  `resp` resets `err` to nil. The helper then returns nil, and
  `encodeOutgoingHttp` parses and goes on with the chain. `RespHeadRead`
  models this by moving to `parse`.
* **Several `hosts:` lines:** `setupNsswitchConfig` keeps only the last
  `hosts:` line. `resetNsSwitchConfig` then writes that one line over every
  `hosts:` line. TLC finds this with two lines and the cancel held back until
  `Hook` returns.
* **Serve's early returns** after `SendKeployServerPort`, `SendProxyInfo` or
  `SendPassThroughPorts` fails leave the hooks loaded and the proxy booted. The
  interrupt path of line 156 stops them.

### Bounds and why they suffice

* **Tracker:** three exchanges, chunk sizes {1, 2}, at most two chunks per
  request or response, and `EventBodyMaxSize` 2. This
  covers:
  * each flip combination (request after response, response after response,
    a split request after a response);
  * the queue holding two exchanges while a third is being assembled;
  * chunks at the event-size limit.
* **Record session:**
  * one item and one insert error per stream;
  * native and docker applications;
  * with and without the timer's goroutine racing.

  One item is enough for every drain and close order, and one error is enough
  for every send-after-close. More items only repeat the same orders.
* **HTTP:** two exchanges on one connection, the first with a
  `Content-Length` body and `Expect: 100-continue` (body split in two), the
  second chunked. This reaches:
  * both framing paths and the keep-alive loop;
  * the reset between exchanges;
  * the continue handshake, including a server that skips it.

  The server may close, the client may abort, and reads may time out after a
  deadline has been set.

* **Serve:** two interrupts and every hooks call failing or not. Two
  interrupts let a signal be dropped by the full `stopper` buffer. They also
  let one arrive while the application goroutine is between its flag read and
  its handshake, at every step of Serve.
* **Core.Hook:** two `Hook` calls, an unknown id, one `hosts:` line and no
  failing calls. These let the counterexample be the race alone, since with
  the cancel held back until `Hook` returns the line is restored.

### Fairness

* **Tracker:** weak fairness on the `IsComplete` actions, because the
  connection factory polls every tracker in a loop. Weak fairness also applies
  to `Tick`, because time passes. The application and the kernel have none:
  they may stop at any point.
* **Record session:** weak fairness on:
  * Start's main goroutine;
  * the application goroutine, consumers, timer and Hook's shutdown goroutine;
  * Run's goroutines (except the application's own decision to exit);
  * cancelling the context once `utils.Stop` has signalled the process.

  These are the Go runtime's scheduling of runnable goroutines. Nothing is
  assumed of the environment's captures or errors.
* **HTTP:** weak fairness on:
  * the proxy goroutine;
  * the `AppendMocks` goroutines;
  * both peers' normal progress;
  * the client closing after its last exchange.

  Early closes and aborts are choices with no fairness.
* **Serve:** weak fairness on Serve's steps, on the application goroutine
  after the application has ended, and on the GraphQL server's shutdown. These
  are runnable goroutines. The application's end, interrupts and a failing
  listen have no fairness.

## What is proved

`ConnTrackerProofs` proves two theorems with TLAPS, for every value of the
constants permitted by `ChunkSizeAssumption`, `MaxSizeAssumption` and
`BoundsAssumption`:

* `TypeCorrect`: `Spec => []TypeOK`. The step lemma `TypeStep` has one case
  per action. `TypeOK` is cut into `TypeData`, `TypeFlags` and `TypeApp` so
  that each leaf sees only the conjuncts it needs. Lemmas `QueueOps`,
  `ChunkType` and `FlagsStep` carry the sequence facts.
* `QueuesAlignedTheorem`: under `MaxReqChunks = 1`, `Spec => []QueuesAligned`.
  * `QueuesAligned` alone is not inductive. Whether the ingress branch rotates
    depends on the three flags, which in turn depend on where the application
    is in the exchange.
  * The strengthening `IInv` adds:
    * `Lockstep`: the queue pairs have equal lengths;
    * `FlagsConsistent`: after the first request exactly one direction flag
      is set;
    * `AppLink`: the flags agree with the application's phase.
  * TLC checks `IInv` on every reachable state (`conn_single_read` checks
    `FInv`, which contains it).
  * `IInvStep` proves it is preserved by every action, with lemmas
    `ReadChunkEffect`, `WriteChunkEffect` and `FlagCases` for the
    application's effect and the flag case split.
  * The restriction to single-read requests is needed, not only for the
    proof: with `MaxReqChunks = 2`, TLC finds `QueuesAligned` itself violated
    within a few steps. The second read of a request after a response rotates
    the exchange again, which is the rotation behind `conn_split_pairing`.

`ConnTrackerFaithfulProofs` proves the tracker's main promise:

* `ExchangesFaithfulTheorem`: under `MaxReqChunks = 1` and `ChunksFit` (every
  chunk size is at most `EventBodyMaxSize`), `Spec => []RecordedExchangesFaithful`.
  Every pair IsComplete hands out, through the queues or the 4 s idle rule, is
  the whole request of one exchange and a non-empty beginning of that same
  exchange's response. This holds for every number of exchanges, of response
  chunks and of chunk sizes.
* Why the two assumptions are needed:
  * `ChunksFit`: with a chunk larger than an event, TLC finds requests recorded
    truncated (the numeric_edge hazard at part_002:288).
  * `MaxReqChunks = 1`: with split reads, `conn_split_pairing` shows the
    property violated.
* The property speaks only of `recorded`, so it is far from inductive. The
  strengthening `FInv` follows an exchange from the read that begins it to the
  pair that is recorded. It is `IInv` plus:
  * `Future`: exchanges not yet begun have read and written nothing. This
    lets a read of a new exchange start from an empty request.
  * `BufLockstep`: the buffer queues have the lengths of the byte-count queues,
    so IsComplete's `haveBufs` always holds when the counts are queued.
  * `Assembling`: while a request is read, `RecvBuf` is exactly it and
    `recvBytes` equals the kernel's count. Once the response is written,
    `RecvBuf` is empty, and `SentBuf` is empty until the first response chunk
    after a rotation.
  * `Pending`: if the last queued request's counts agree, it is the current
    exchange's request and `SentBuf` is that exchange's whole response so far.
    This is what the idle path hands out.
  * `Queued`: every queued pair whose request counts agree is an earlier
    exchange's request with a non-empty prefix of its response. This is what
    the queued path hands out.
  * `Recorded`: `RecordedExchangesFaithful` with the request known to be
    non-empty.
* TLC checks `FInv` on all 213,684 reachable states of `conn_single_read`.
* The proof has one step lemma per action:
  * `IngressStep` and `EgressStep` follow a chunk into the buffers and the
    rotation into the queues.
  * `QueuedStep` shifts `Queued` down by one.
  * `IdleStep` uses `Pending`.
  * `FRestFrame` covers the actions that touch none of this state.
  * `IdleMalformedImpossible` shows the "malformed request" branch of the idle
    path cannot be taken under `FInv`.
  * `FInvStep` combines them with `IInvStep`.
* `FInvTheorem` states `Spec => []FInv` under the same two assumptions.
* Sequence lemmas (`ChunksAppend`, `PrefixRefl`, `PrefixAppend`, `TailAt`)
  carry the facts about chunk sequences and prefixes.

`ConnTrackerRequestsProofs` proves the request half of that promise without
the single-read restriction:

* `RequestsFaithfulTheorem`: under `ChunksFit` alone,
  `Spec => []RecordedRequestsFaithful`. However many reads a request takes,
  every request IsComplete hands out, through the queues or the 4 s idle rule,
  is the whole request of one exchange, for every number of exchanges, request
  and response chunks and chunk sizes. The responses may be paired wrongly
  (`conn_split_pairing`), but the requests are never cut in the wrong place.
* Why it holds: `RecvBuf` is rotated only by the first response chunk after a
  request, so it holds exactly the current request however many reads it took.
  A rotation right after an idle reset pushes an empty `RecvBuf` with
  `recvBytes = 0` against a kernel count of at least 1, so the byte-count
  check rejects it.
* The strengthening `RInv` is `TypeOK`, `FlagsConsistent`, `Lockstep`,
  `BufLockstep` and `Future` (all from the earlier proofs), plus:
  * `ReqAssembling`: while a request is read, `RecvBuf` is exactly it and
    `recvBytes` equals the kernel's count. Once the response is written,
    `RecvBuf` is empty, `recvBytes` is 0 and the kernel has read at least one
    byte. A set `gotResponseDataEvent` means the response is being written.
  * `WholeRequest(rq)`: `rq` is the request of an exchange up to the current
    one, and the current one only if its response has begun, so no read will
    extend it.
  * `ReqQueued`: every queued request whose counts agree is whole.
  * `ReqRecorded`: every recorded request is whole.
  * `RInv` drops `QueuesAligned` and `AppLink`, which split reads break.
    `BufLockstep` alone makes `haveBufs` hold on the queued path.
* TLC checks `RInv` on all 272,924 reachable states of `conn_split_requests`,
  where requests take up to two reads. `RInvTheorem` proves
  `Spec => []RInv` under `ChunksFit`.
* The proof has one step lemma per action:
  * `ReqIngressStep` and `ReqEgressStep` follow a read into `RecvBuf` and the
    rotation into the queues.
  * `PopRequest` shifts `ReqQueued` down by one; the queued and idle paths
    both use it.
  * `RecordRequest` appends a whole request to `recorded`.
  * `ReqIdleMalformedStep` covers the idle "malformed request" branch, which
    split reads can reach.
  * `RRestFrame` covers the actions that touch none of this state.
* `WholeKept` and `WholeStable` say when being whole survives a step. Each is
  stated for a bound name, because priming `WholeRequest(e)` would also prime
  `e`.

`GraphqlServeProofs` proves four theorems for every `MaxSignals` and every
choice of failing calls (`SignalsAssumption`, `FlagsAssumption`):
* `AlwaysIInv`: `Spec => []IInv`, the invariant `serve_shutdown` checks;
* `StopOnce`: `Spec => []StopAtMostOnce`;
* `ServeTypeCorrect`: `Spec => []TypeOK`. No run checks `TypeOK` on its own;
  `serve_shutdown` checks it as part of `IInv`;
* `Refinement`: `Spec => ImplementsResources`, i.e. Serve implements
  `ServeResources`.

`StopAtMostOnce` is not inductive by itself. The strengthening `IInv` adds
`StopsByPc`, which ties the stop counts to the pcs:
* nothing is stopped before Serve waits on the application;
* while Serve waits on `exitCmd`, the application goroutine is at its stop
  step (counts 0) or past it (counts 1);
* once Serve has returned, the goroutine is not on its stop path. It can
  reach that path only through the handshake, which needs Serve's receive.

The proof shows that `abortStopHooksForcefully` plays no part in this. The
flag only spares the goroutine from blocking on a handshake nobody receives.
`NextIInv` has one case per action. In each case Zenon proves the Boolean
variables' types and SMT proves the rest. `SelectLoad` is split on whether a
signal is buffered and on the outcome of `LoadHooks`.

The refinement needs a third part of `IInv`, `ResourcesByPc`, which says
which resources Serve holds at each pc:
* the hooks are loaded from a successful `LoadHooks` to the wait on the
  application;
* the proxy is up from `BootProxy` on.

Without it, a stop step could not be shown to be `StopBoth` of a state in
which both resources are up. `StopsByPc` gives the zero stop counts that make
the abstract state "loaded" and "up" rather than "stopped".

The proof follows the usual pattern:
* `InitRefines`: `Init => Resources!Init`;
* `NextRefines`: `IInv /\ [Next]_vars => [Resources!Next]_Resources!vars`,
  with one case per action, each naming the abstract step it maps to;
* the theorem follows from these and `AlwaysIInv` by PTL.

TLC checks the same property on `serve_shutdown`. Its mutant stops the hooks
on the interrupt path of `SelectLoad`, before they were loaded.

`RecordStartProofs` proves four theorems for every `MaxItems`,
`MaxInsertErrors` and `InsertErrChanCap` allowed by `ItemsAssumption` and
`CapAssumption` (at most as many failed inserts as an insert error buffer
holds), and for every kind of application:
* `AlwaysIInv`: `Spec => []IInv`, the invariant `record_shutdown` checks;
* `RecordTypeCorrect`: `Spec => []TypeOK`;
* `Drained`: `Spec => []DrainedBeforeReturn`;
* `StreamsClosedLate`: `Spec => StreamsCloseAfterApp`, the action property
  that no step closes a stream while the application goroutine is still in
  `Core.Run`.

Neither invariant is inductive alone. `TypeOK` bounds each one-slot channel
(`appErrCh`, `inodeErrCh`, `appErrChan`) to one value. That holds only
because each channel has one sender that runs once. `IInv` therefore adds:
* `ChannelsByPc`: each of these channels is empty until its sender has run,
  and the two insert error buffers together hold no more than the failed
  inserts;
* `ResultByPc`: Run has a result once its select has run, so what the
  application goroutine forwards is an `AppErrorType`;
* `GoroutinesByPc`:
  * the application goroutine is spawned only after both streams are open;
  * Run's goroutines are idle until Run is called.

  Proving the step lemma found that this was missing. Without it, a state
  with a full `appErrChan` before the spawn would be consistent with the rest;
* `StreamsByConsumer`: a consumer that is not looping has an empty, closed
  stream. `WaitErrGrp` waits for exactly that, so `DrainedBeforeReturn` holds
  when Start returns. It stays true afterwards because `Capture` needs an
  open stream.

The proof of `NextIInv` has one case per action: Zenon proves the Boolean
variables' types, and SMT proves the rest. The sends and receives on the
one-slot channels go through two lemmas:
* `SendOnEmpty`: a send fills an empty buffer of one;
* `ReceiveShortens`.

These rest on `SequenceTheorems`.

`StreamsClosedLate` rests on `IInv` and `HookOrder`:
* `hookCtxCancel` (set by `WaitRun`) comes after the application goroutine
  has returned, and after Start has left the states in which it spawns it;
* the shutdown goroutine stops the proxy only once `hookCtxCancel` was
  called.

`CloseStep` then shows that the only steps that close a stream (`ProxyStop`,
`HooksUnload`) run in such states. `HookOrder` is not part of the `IInv` that
`record_shutdown` checks. The mutant of that property (`WaitRunNoWait`, a
`hookCtxCancel` that does not wait for `runAppErrGrp`) breaks `HookOrder` one
step before a stream closes, so TLC would report it there instead of against
the action property. TLC checked `IInv /\ HookOrder` as invariants on the
`record_shutdown` instance (104,661 states) before the proof. Go's zero string for `stopReason` is the
value `"unset"` in the model. The provers' SMT backend rejects the empty
string literal.

Only TLC checks the following:
* `StartTerminates` and `NoSendOnClosedChannel` of the record session (the
  latter is violated);
* `Core.Run`;
* the HTTP parser;
* `Core.Hook`;
* the violation of `RecordedExchangesFaithful` with requests split over
  several reads (`conn_split_pairing`);
* `RecordedRequestsFaithful` with chunks larger than an event. It is violated
  there (the hazard at part_002:288), and the theorem assumes `ChunksFit`.

TLC checks them on the instances above. Liveness (`EveryExchangeRecorded`,
`StartTerminates`, `ExchangesRecorded`) is out of TLAPS's reach. `HttpRecord`
computes body lengths with a recursive function over segments and builds on
`SequencesExt`, which reaches the RECURSIVE folds, so it carries no theorems.

## Not modelled

* **`recorder.StartMock`** (part_001 245-311) has the same shape as Start with
  one stream. Its unbuffered `insertMockErrChan` hazard is listed in
  `PROJECT.json`.
* **Test mode of the HTTP parser** (`decodeOutgoingHttp`) is data matching of
  headers and bodies.
* **CLI and provider** (`cli/provider/cmd.go`, `cmd/root.go`, part_003),
  **configuration**, **yaml utilities**, **hooks
  utilities** and **the issue template** (part_000) are either sequential input
  handling and data conversion, with no state worth exploring, or not program
  code.
* **Loading the eBPF programs and starting the proxy inside `Core.Hook`** is
  reduced to success or failure.
* **The GraphQL resolvers** that Serve's server runs call the tester and the
  stores outside the sources.
* **The data races** on `testCount` and `mockCountMap` are listed as hazards
  but not modelled.
