# TLA+ models of edge-conductor

These are TLA+ models of the concurrent and protocol-bearing parts of edge-conductor, each checked with TLC. The models are written from the Go sources under `src/`. Where a collaborator is not in `src/`, its behaviour is taken from `spec.md`: the workflow server, the plugin runner and `StringOverrideWithNode`. `PROJECT.json` maps every definition to the lines it models and lists every run, mutant, finding and hazard.

## 1. The system and its parts

edge-conductor is an orchestrator. A workflow server drives *plugins*. Each plugin talks to the server over gRPC through a *plugin session*. An *executor* runs remote commands on a topology of nodes, one of which is the bootstrap node, "day-0".

| Part | Source | State it keeps | Operations |
|---|---|---|---|
| Plugin session | `pkg/plugin/grpc_handler.go` | `conn`, `client`, `finished`, `data`, `plugin_data` | `New`, `Connect`, `Complete` |
| Command templating | `pkg/executor/helper.go` `CmdOverrideWithNode` | none (pure) | substitute node placeholders in each argument; the first failure returns |
| Fan-out primitive | `helperShell` | `finalErr` (shared by goroutines), `sync.WaitGroup` | one goroutine per node: Connect, CmdWithAttachIO, Disconnect; then join |
| Stream bridging | `helperCopyFromDay0/ToDay0`, `runPipeFrom/To` | `finalErr`, WaitGroup, one `io.Pipe` per node, the shared day-0 transport | a node goroutine and a peer goroutine per node, joined by a synchronous pipe |
| Registry / repository | `helperPushImage`, `helperCreateProjectOnHarbor`, `helperPushFile`, `helperPullFile` | none; calls external registry and repository | a day-0 policy check, argument checks, templating, then a sequence of external calls |
| `ep init` | `cmd/ep/app/init.go` | config files, the runtime directory | defaulting and validation of the configuration, then starting the workflow |
| Plugins | `pkg/epplugins/*/main.go` | workflow data | one `PluginMain` per plugin, mostly calls into external tools |
| Cluster lookups | `pkg/eputils/conductorutils/cluster.go` | none | first-match lookups in the cluster manifest |

**How the parts interact.**
- The workflow server runs each plugin.
- The plugin runner calls `Connect`, runs the plugin body, then calls `Complete(err)`. The server records the outcome.
- Executor operations are dispatched per command. Each uses `CmdOverrideWithNode` to build the command for each node, then the fan-out or the stream bridge to run it on the node transports.

**What makes it hard.**
- Goroutines write one `finalErr` variable with no lock. In Go a write to an interface value is two machine words, so concurrent writes can tear.
- The WaitGroup is raised twice: for all nodes before the loop, and again inside each node goroutine for its peer.
- When templating fails, the loop returns early and skips `wg.Wait()`.
- The pipe is synchronous: a write blocks until it is read. If nobody closes the read end, the writer blocks forever.
- The day-0 transport is shared by every peer goroutine.
- The gRPC calls have deadlines (`CONNECT_TIMEOUT` 3600 s, `DEFAULT_TIMEOUT` 5 s). A call can time out after the server has already acted on it.
- `Complete` closes the channel in a `defer`. `Connect` never closes it.

**What makes each part correct.**
- Fan-out:
  - it returns only after every goroutine has finished;
  - it reports an error exactly when some step failed;
  - each node runs its own templated command;
  - a node's transport is left connected only when one of its steps failed.
- Stream bridge:
  - everything above;
  - success means every archive was delivered whole;
  - it terminates;
  - a transport is used by one task at a time (spec §5);
  - as a whole, it implements the copy contract of spec §4.4 and §5.
- Session:
  - Connect's outcome is exclusive;
  - Complete returns nil exactly when the server recorded the report;
  - the report matches what the plugin did;
  - errors release the channel (spec §7);
  - the server learns every outcome (spec §1);
  - as a whole, the session implements the contract of spec §4.1.
- `ep init`:
  - it returns nil only after every file the config names exists and the workflow ran;
  - the workflow is torn down exactly when it was pre-initialised.
- Provider plugins:
  - capi-host-provision calls out only for an unambiguous provider.
- Registry:
  - a helper returns nil only after every external call it owes ran, in order;
  - images are pushed in order, each after it is tagged;
  - malformed commands and destinations give errors, not panics (spec §4.4, §4.5).
- Service injector: every output service is fully mirrored, and no resolvable service is dropped.
- Cluster lookups: the first entry with the name wins.

## 2. Modules

| Module | Models | Composes |
|---|---|---|
| `CmdOverride` | `CmdOverrideWithNode` as a RECURSIVE operator `OverrideFrom`, with a pointwise reference `OverrideReference` | |
| `ShellFanOut` | `helperShell`: a coordinator plus a worker per node | `INSTANCE CmdOverride` |
| `PipeFanOut` | `helperCopyFromDay0`/`ToDay0` with `runPipeFrom`/`runPipeTo` | |
| `PluginSession` | `New`, `Connect`, `Complete`, plus the server and runner from the spec | |
| `Day0Ops` | the four registry and repository helpers, and the argument checks of `helperCopyFromDay0`/`ToDay0` | |
| `AbstractCopy` | the stream-bridge contract of spec §4.4 and §5 (no code; a refinement target) | |
| `ServiceInjector` | `PluginMain` of the service-injector plugin and `getFileFromList` | |
| `ClusterManifest` | the `cluster.go` lookups as pure operators: one RECURSIVE `FirstByName` | |
| `AbstractSession` | the session contract of spec §4.1: join or fail, work, complete (no code; a refinement target) | |
| `EpInit` | `init()`, `init_usercfg`, `init_ek_config`, `pre_check` and `ep_init` of `cmd/ep/app/init.go` | |
| `ProviderPlugins` | `PluginMain` of rke-parser, kind-remover and capi-host-provision | `INSTANCE ClusterManifest` |
| `MC*` | the constants each run instantiates | |

**How state and actions correspond to the code.**

*ShellFanOut.*
- `coord` is the coordinating goroutine. It moves through "loop" (the `range nodes`), then "wait" (`wg.Wait`), then "returned".
- `pc[n]` is node n's goroutine.
- `wg` is the WaitGroup counter.
- `finalErr` is a record of the interface's two words `[ty, da]`. A failing goroutine writes them in two separate steps, `WriteErrType` and `WriteErrData`, which is where a tear can happen.
- `nodeCmd[n]` is the command the goroutine captured. `template` is a history variable holding the original argument.

*PipeFanOut.*
- Each node has two tasks: `<<n,"node">>` and `<<n,"peer">>`.
- Which task produces and which consumes depends on `dir`.
- The pipe of node n is `slot[n]` (a chunk written but not yet read), `sent[n]`, `got[n]` and `closed[n]`.
- `Produce` is guarded on an empty slot. This is the synchronous `io.Pipe` write.
- `ConsumerEnd` happens at EOF. It can also fail early when `ConsumerMayAbort` is TRUE; that constant stands for a transport command that gives up on stdin.
- `conn[Day0]` starts "up" or "down". These functions never connect the day-0 transport.

*PluginSession.*
- `cpc` is the client's position.
- `req` and `rep` are the one request and one reply in flight.
- The server's record of the plugin is `srvPlugin` and `srvResult`.
- Timeouts, corrupt payloads, marshal failures and an out-of-range server status are each switched on by a constant: `Timeouts`, `Corrupt`, `MarshalMayFail`, `Skew`.

*Day0Ops.*
- `pc` is the step.
- `calls` is the history of external calls.
- The command is abstracted to `nargs`, `revEmpty`, `toDir` (empty, ending in "/", or not) and `tmplOK`.
- Project creation is `Map` for `helperCreateProjectOnHarbor` and `MapImages` for `helperPushImage`, which goes on to retag and push the mapped images.
- `cfgSet` says whether `e.tempParams.Ekconfig.Parameters` and its `GlobalSettings` and `Customconfig` are set. `CheckEkcfg` is the nil check of `helperCreateProjectOnHarbor`; `Auth` and `Args` panic without it. `pullFile` reads only `GlobalSettings`, so lumping the four checks into one flag over-approximates its panics (a config missing only `Customconfig` panics in the model but not in the code); no passing property depends on it.
- `CopyCheck` is the prologue of the copies: `log.Debugf` reads `cmd[0]` and `cmd[1]`, then `toDir[len(toDir)-1]`. `Pipe` is the outcome of the stream bridge that `PipeFanOut` models.

*ServiceInjector.*
- `svc` is the input component list. It is rewritten in place, because go-swagger components are pointers.
- `out` holds the indices appended to the output.
- `k` is the outer loop and `j` the image loop.
- `ResolveURL` and `ResolveChart` carry the `continue` and the `break`.

*ClusterManifest.*
- It has no state. The four by-name lookups share the translated loop `FirstByName`; `GetImageListFromProvider` is a projection.
- `ProviderPlugins` instantiates it; rke-parser's two nested lookups use it. No property checks the lookups: one against a first-match reference would compare two spellings of the same loop.

*EpInit.*
- `pc` is the point `ep_init` has reached.
- `missing` is the set of files that do not exist (an input).
- The config is abstracted to `FileShape`: whether the file has cluster manifests, an OS provider, OS manifests, Parameters and GlobalSettings. `ekcfg` holds the files named after defaulting and whether GlobalSettings is set.
- `deferred` is the registered `defer EpWfTearDown`. `Return(e)` sends every return through `Teardown` when it is set.
- `calls` records the external effects in order.
- Every external call (load, Validate, certificates, workflow calls, CA copy) is an `ok` choice.

*ProviderPlugins.*
- `plugin` picks one of the three plugins; `Init` chooses only that plugin's inputs: a manifest of up to 2 providers with up to 2 binaries each, 2 system images, up to 2 files, up to 2 extensions.
- rke-parser: `RkeFindBinary` is the two nested lookups; `RkeOutput` loads the config and writes images and files. Go map order is a choice among the orderings (`SetToSeqs`).
- kind-remover: `KindPull` checks its input and pulls; `KindStep` is chmod, then delete.
- capi-host-provision: `Providers` is the nested loop over extensions and `InfraProviderList`; `CapiSelect` rejects zero or several matches; `CapiCall` runs the fixed sequence of calls (`CapiNextStep`); `CapiProvision` dispatches metal3 or byoh.

**Abstract specifications.**
- `AbstractSession` is what a plugin session promises. `PluginSession` maps onto it with `PhaseOf(cpc)`, the shared data, the plugin's failure and the server's record. `SessionRefinement == Abs!ASpec` is checked as a PROPERTY, fairness included.
- `AbstractCopy` is what a stream-bridging copy promises: validation before any stream, per-target streams that deliver writes in order, end-of-stream only after the producer's close and the last delivery, a nil result only when every target read the whole archive, and a return. Its stream is unbounded; `PipeFanOut`'s `io.Pipe` holds one write. The mapping takes `sent`, `got` and `closed` as they are and `SawEOF(n)` (the consumer returned from a closed pipe) as end-of-stream. `CopyRefinement == Copy!ACopySpec` is a PROPERTY of `pipe_fanout`, and its fairness replaces `Termination` there.
- `OverrideReference` is the abstract meaning of templating. `OverrideFrom` is checked against it through `EachNodeRunsOwnCommand`.
- The refinement holds only for a transport that reads stdin to end-of-file (`ConsumerMayAbort = FALSE`); the `pipe_hang` run shows what happens otherwise.

## 3. Runs

Pass runs:

| Run | cfg | Checks | Shows |
|---|---|---|---|
| shell_fanout | `MCShellFanOut.cfg` | TypeOK, ReturnReflectsFailures, EachNodeRunsOwnCommand, TransportReleasedUnlessFailed, Termination | 3 nodes and 2 templates, one of them with two placeholders. Every subset of unresolved nodes is explored. When `helperShell` completes its loop, it reports failure exactly when a node failed, and each node runs its own command. Transports stay connected only on a node whose step failed. |
| pipe_fanout | `MCPipeFanOut.cfg` | TypeOK, WaitJoinsAllTasks, SuccessImpliesCompleteCopy, CopyRefinement | Day-0 plus 2 nodes, 2 chunks, both directions, a consumer that reads to EOF. The copy joins all node and peer goroutines (unless it took an early return), succeeds only with all chunks delivered, and implements `AbstractCopy`, its return included. |
| plugin_session | `MCPluginSession.cfg` | TypeOK, ConnectOutcomeExclusive, ReportMatchesOutcome, SessionRefinement, StrandedOnlyAfterError | All failure sources are on. The server's record agrees with the plugin's work, and the session implements `AbstractSession`: `Complete` returns nil only after the record, and every session ends. A server left with the plugin registered and no outcome (a late Connect deadline, a failed unmarshal, a failed marshal, a lost `PluginComplete`) is always matched by an error returned to the runner. |
| day0_ops | `MCDay0Ops.cfg` | TypeOK, PushedInOrderAfterTag, SuccessMeansAllCallsMade | Six helpers, 0 to 3 arguments, 3 destination shapes, a set or missing configuration, 2 images. Every target set of 2 nodes is tried. A helper returns nil only after the calls it owes (`SuccessCalls`: auth, mapping, a retag and a push per image; the mapping; the repository call) all ran, in order. |
| service_injector | `MCServiceInjector.cfg` | TypeOK, OutputRewritten, SkippedOnlyIfUnavailable | Every input list of up to 2 services. Each service has 3 types, a listed or unlisted URL and chart, and up to 1 image. Output services are fully rewritten, and services are skipped only when they cannot be resolved. |
| ep_init | `MCEpInit.cfg` | TypeOK, TeardownIffPreInit, SuccessMeansInitialised | Every config shape, every set of missing files, every failing call. Teardown runs exactly after a successful pre-init, last; nil means all named files (defaults included) exist and the whole workflow ran. |
| provider_plugins | `MCProviderPlugins.cfg` | TypeOK, ProvisionsOnlyUnambiguous | Manifests with duplicate provider and binary names; extensions naming none, one, both or a repeated provider. capi-host-provision calls out only for one selected provider. All actions of the three plugins are exercised. |

Violation runs (each is a finding in `PROJECT.json`):

| Run | Property | What TLC finds |
|---|---|---|
| shell_early_return | JoinBeforeReturn | A templating failure returns while earlier nodes' goroutines still run. |
| shell_torn_error | ResultIsAWrittenError | Two failing goroutines tear `finalErr`. |
| pipe_hang | Termination | A consumer that fails before EOF leaves the producer blocked in `Write`, so `wg.Wait` never returns. |
| day0_panic | NoPanic | `helperCopyFromDay0` called with no arguments reads `cmd[0]` in its first log line (helper.go:172); an empty destination panics at `toDir[len(toDir)-1]`. The same property fails for `pushFile`/`pullFile` with one or two arguments (line 287) and for `pushImage`/`pullFile` with a nil configuration. |
| service_injector_dropped | NothingDroppedOnSuccess | A missing chart override `break`s the loop, so later services are dropped while `PluginMain` returns nil. |

Further divergences from the spec are recorded as hazards with notes, not as runs:
- A marshal failure in `Complete`, or a `PluginConnect` deadline that expires after the server registered the plugin, leaves the server without the plugin's outcome. The abstract contract allows this, since a failed call need not be recorded; `StrandedOnlyAfterError` checks that the runner is then always told of an error.
- `runPipeFrom`/`runPipeTo` return a templating error while earlier nodes still stream, as `helperShell` does; `shell_early_return` shows the defect on `helperShell` only.
- `init_usercfg` never sets `Customconfig`, so a config without Parameters always fails with errCustomCfg; the branches after it are dead.
- A config with Parameters but no GlobalSettings reaches a nil dereference in `GenCertAndConfig`, unless `Validate` (outside `src/`) rejects it.
- `Connect` leaves the channel open on error (§7).
- The day-0 transport is used by several goroutines at once (§5).
- An empty target set passes the day-0 check (§4.5).
- rke-parser ranges over a Go map, so its image list comes out in a different order from run to run. `RkeOutput` allows every order; comparing two runs is beyond a state invariant.
- A session that `Connect` found Completed still reports Success with its constructed private data in `Complete` (§4.1 says no data is exchanged).

**Mutants.** Every property of a pass run has a mutant: an operator defined just before the action it replaces, which changes it the way a plausible bug would. For example, it drops `wg.Add(1)`, drops the error store, reuses the outer `cmd`, skips `Disconnect` on success, lets a pipe write overwrite an unread chunk, ignores the `PluginComplete` error, or logs a marshal failure and returns nil. Each mutant makes TLC report its property violated.

**Bounds.**
- Three nodes are enough for two concurrent failures plus one success.
- Two chunks separate "part of the archive" from "all of it".
- Two images separate an in-order prefix from the whole list.
- Argument counts 0 to 3 cover every branch of the length checks.
- `ep init`: the five file kinds and all 32 config shapes are enumerated, so every defaulting branch is taken.
- Provider plugins: 2 providers of 2 binaries over 2 names give duplicates at both levels; 2 extensions over 3 values give zero, one, two and repeated matches.
- Larger bounds only repeat these cases.

**Fairness.**
- Every goroutine gets weak fairness. The Go scheduler runs every runnable goroutine, and the model assumes every remote call returns.
- The server gets weak fairness. It answers every request that reaches it; `StrandedOnlyAfterError` relies on this, as only a lost request leaves the server waiting.
- Timeouts get no fairness: they may happen but need not.
- Because the function really does return and stop, the pass runs use `CHECK_DEADLOCK FALSE` and check `Termination` as a liveness property instead. `ep init` and the plugins also stop, at "done", "panic" or "noCommand".
- `AbstractSession` asks that Connect, the work and Complete each end. `PluginSession` meets this because the server and the runner are fair and every deadline either fires or the reply arrives.

## 4. Not modelled yet, and why

- Generated registration code (`generated.go`) is not modelled. Each `init()` inserts fixed, plugin-prefixed keys into the schema registry and the plugin's Input/Output maps, and registers `PluginMain`. It has no branch, loop, error path or concurrency, so any property of it would hold by construction. The registries it writes, and the runner that reads them, are outside `src/`.
- The tests are not modelled.
- The log-scrubbing hook of `init.go` (`ReplaceMsgHook`, `logreplace`) is regular-expression text rewriting. It has no control beyond a loop, and modelling regexes faithfully is outside TLC's reach.
- Resolving a placeholder (`StringOverrideWithNode`) is outside `src/`. It is modelled from the spec as "fails for an unresolved node".
- `ekcfg.Validate` and the workflow calls of `ep init` live outside `src/`; they are nondeterministic outcomes.
- The provisioning internals of metal3 and byoh, and `InfraProviderList`, are external to the plugin; they are an outcome and a constant.

## 5. Plan for later sittings

1. A composition of `PluginSession` with several plugins sharing one server.
2. The spec divergences now recorded only as hazards (`Connect` leaving the channel open, a finished session reporting data, the empty target set) need violation runs of their own. The project is at the limit of twelve runs, so one would have to replace another.
