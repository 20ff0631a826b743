# TLA+ models of the KubeArmor log path

This project models the part of KubeArmor that is in this repository's `src/`:

- the system monitor's log builder, `SystemMonitor.UpdateLogs` and its helpers, in `src/KubeArmor/types/types.go` (lines 368-626);
- the gRPC log feeder in `src/KubeArmor/feeder/feeder.go`.

It checks these parts, each on its own and composed, against what they promise in `spec.md`.

## The system and how its parts interact

```
kernel events --ContextChan--> UpdateLogs --go PushLog(log)--> LogQueue --WatchLogs goroutines--> gRPC clients
                               (types.go)    one goroutine       (global,     one per client: lock LogLock,
                               reads mon.Containers              LogLock)     snapshot LogStructs, drain all,
                               under a copied RWMutex                         send filtered, unlock, sleep
```

**Log builder** (`UpdateLogs`, types.go 428-626). This is a `select` loop over `StopChan` and `ContextChan`. For each event it does the following:
- It calls `BuildLogBase`, which reads the container's namespace, pod and name from `mon.Containers` under a *copy* of `ContainersLock`, and converts ids with `int32(...)`.
- It shapes the operation, resource and data by syscall, using Go type assertions on the `interface{}` arguments.
- It drops open/openat denials when auditd reports them.
- It drops every syscall it has no case for (`default: continue`), execve included.
- It classifies the result.
- It launches `go PushLog(log)`.

**Log feeder** (feeder.go).
- `PushLog` completes the log's type from the policy match. It then appends the log to the global `LogQueue` under `LogLock`.
- Each `WatchLogs` RPC registers a `LogStruct` (under a different lock, `ls.LogLock`). It then loops `for Running`, doing these steps in order:
  1. lock `LogLock`;
  2. snapshot the registered subscribers;
  3. take *every* queued log off and send it to each snapshotted subscriber whose filter accepts it, ignoring `Send` errors;
  4. unlock;
  5. sleep.
- On exit, the deferred `removeLogStruct` unregisters the subscriber.
- `DestroyFeeder` clears `Running`, sleeps one second, closes the listener (so `ServeLogFeeds` returns) and waits on `WgServer`. Only `ServeLogFeeds` is counted in `WgServer`; the RPC handlers are never joined.
- The message path has the same shape without a filter. `Print/Debug/Err` call `PushMessage`, which appends to `MsgQueue` under `MsgLock`. `WatchMessages` handlers pop the queue and call `Send` while holding `MsgLock`.

**Outside `src/`** (named by the spec, modelled from the spec where they are needed):
- the eBPF event ingestor that fills `ContextChan`;
- the process tree (`GetExecPath`);
- the errno and syscall name tables;
- the policy matcher `UpdateMatchedPolicy`;
- the container watcher that writes `mon.Containers`.

## Modules

| Module | Models | State ↔ code |
|---|---|---|
| `LogFeeder` | feeder.go: `PushLog`, `addLogStruct`, `getLogStructs`, the `WatchLogs` loop, `removeLogStruct`, `DestroyFeeder`; the `go PushLog` spawn of types.go:622 | See the mapping below this table. |
| `LogBuilder` | types.go: `UpdateLogs`, `BuildLogBase`, `GetNameFromContainerID` | See the mapping below this table. |
| `LogBroadcast` | abstract promise of the log feeder (spec 4.7, section 5) | `stream` of published logs, `served` count, `subs` (client → filter), `since`, `live`, `received`. One `Serve` step hands the next log to a set of live subscribers that contains every one subscribed before it was published. `LogFeeder` instantiates it as `Broadcast` with `stream ← appended`, `served ← Dequeued`, `subs ← logStructs`, `since ← regAt`, `live ← {connected clients}`, `received ← delivered`, and checks `ImplementsLogBroadcast == Broadcast!Spec`. |
| `MsgFeeder` | feeder.go message path: `Print/Debug/Err` → `PushMessage`, `addMsgStruct`, `getMsgStructs`, the `WatchMessages` loop, `removeMsgStruct`, `DestroyFeeder` | Producers (agent goroutines) have `ppc` idle/push. `Emit` is the call to a Print helper and `PushMessage` the locked append. Handlers have `pc`, `snapshot`, `cur` (the popped message) and `toSend`. `Send(s, x)` is one `Client.Send`: it blocks while `x` is a `Staller` (a connected client that stopped reading) and fails at once for a cancelled or finished stream. `fdpc` follows `DestroyFeeder`: `DestroyFeeder` clears `Running`. `CloseListener` is the rest of the call after the sleep (listener close, `WgServer.Wait`). The one-second sleep is a thousand handler loop periods, so `CloseListener` waits until every handler has returned or is `Blocked` (in `Send` to a stalled client, or waiting for `MsgLock` held by such a handler). |
| `ContainerRegistry` | types.go 384-396 `GetNameFromContainerID` against the container watcher (spec 4.1, outside `src/`) | `CopyLock` is `ContainersLock := *(mon.ContainersLock)`: it copies the write-held bit. `RLockCopy` waits on the copy only. `Lookup` reads the map; inside the watcher's `writing` window (Go's hashWriting) it either crashes or returns the old or new entry. The watcher does `WLock`, `WriteBegin`, `WriteEnd`, `WUnlock`. |
| `LogPipeline` | the composition through `go PushLog` | Instances `LogBuilder` and `LogFeeder`. Each log built by `UpdateLogs` becomes a pending `PushLog` goroutine with id = its position in `out`. |
| `MCLogFeeder`, `MCLogBuilder`, `MCLogPipeline`, `MCMsgFeeder`, `MCLogData` | model values and input sets for TLC | — |

`LogFeeder` state and actions correspond to the code as follows:
- `Running`, `LogQueue` and `logLock` are the Go globals.
- `logStructs` is `ls.LogStructs`, as a map from subscriber to filter.
- `pending` is the set of PushLog goroutines that have been started but have not appended yet.
- `pc[s]`, `snapshot[s]` and `reqFilter[s]` are the locals of handler `s`.
- `connected[s]` is false once the client cancelled.
- The ghost variables are `appended`, `delivered`, `regAt` and `endAt`. `appended` is the append history, and `delivered[s]` is what client `s` received.
- Each action is one atomic region of the code: `AddLogStruct`, `LoopContinue`/`LoopExit` (the `for Running` test), `Lock` (lock and snapshot), `Drain` (the whole inner loop), `Unlock` (unlock and the sleep), `RemoveLogStruct` (the deferred remove and return).

`LogBuilder` state and actions correspond to the code as follows:
- `ContextChan` and `stopped` stand for the channels.
- `out` is the sequence of logs passed to `go PushLog`.
- `consumed` is the events taken off the channel.
- `Containers` is the registry.
- `UpdateLogs` is one iteration of the select loop and carries the whole shaping switch.
- `Shapes(msg)` returns the *set* of possible shapes, because `range` over a Go map has nondeterministic order.
- `SendEvent` is the ingestor, spec-modelled.

## Runs

| Run | Cfg | Expect | Shows |
|---|---|---|---|
| feeder_safety | `LogFeeder.cfg` | pass | With 2 clients and 3 filters, each client gets exactly the logs its filter accepts, in append order. No log appended while the client was registered is lost, even though several goroutines drain one queue and each sends to a possibly stale snapshot. The feeder also refines `LogBroadcast` (`ImplementsLogBroadcast`). |
| feeder_liveness | `LogFeederLive.cfg` | pass | Under fairness: `LogQueue` is eventually empty while a client is connected and the feeder runs. After `DestroyFeeder`, every handler unregisters. |
| feeder_cancel | `LogFeederCancel.cfg` | violation | A cancelled client stays in `LogStructs` (send errors are ignored). |
| builder_contract | `LogBuilder.cfg` | pass | Every event sequence of length 3 over open/openat/close/socket/connect/accept/bind, with allowed and denied results, known and unknown containers, is covered. `UpdateLogs` emits exactly the logs the spec's shaping table (4.5) prescribes, in ingestion order. Each log carries the 32 bits of the event's ids, so the overflow uid comes out as -1. |
| builder_unshaped | `LogBuilderUnshaped.cfg` | violation | Among listen and execve events, listen logs `fd=` without the fd and execve yields no log (spec scenario S5). TLC prints whichever it meets first. Each event alone violates the contract: drop the other from `MCUnshapedEvents` to see it. |
| builder_resource_order | `LogBuilderResource.cfg` | violation | Identical connect events give different resource strings. |
| pipeline_pid_order | `LogPipelineOrder.cfg` | violation | Two logs of one pid reach a client reversed because of `go PushLog`. |
| msg_safety | `MsgFeeder.cfg` | pass | 2 producers, 2 handlers, 2 messages each. Each client gets one producer's messages once and in call order (`PerProducerFIFO`). None pushed while it was registered is lost (`MsgNoLoss`). |
| msg_liveness | `MsgFeederLive.cfg` | pass | With clients that keep reading, every `Print/Debug/Err` call returns (`PushReturns`). After `DestroyFeeder`, every handler leaves its loop and unregisters (`HandlersExit`). |
| msg_stalled_client | `MsgFeederStall.cfg` | violation | A client that stops reading blocks `Send` while its handler holds `MsgLock`, so `PushMessage` and every logging call of the agent block. |
| msg_shutdown_join | `MsgFeederShutdown.cfg` | violation | `DestroyFeeder` returns while a handler is still blocked in `Send` to a stalled client, holding `MsgLock` (`HandlersJoined`), because `WgServer.Wait` joins only `ServeLogFeeds`. |
| registry_exclusion | `ContainerRegistryExclusion.cfg` | violation | `GetNameFromContainerID` reads the map inside the watcher's write-locked section, because it RLocks a copy of the RWMutex. The same model reaches a lookup stuck for ever on a copy taken while write-held. |

Each property of a passing run is paired in `PROJECT.json` with a mutant of the mapped code that TLC must catch. The mutants are:
- a dropped filter;
- PushLog appending without the lock;
- a drain that leaves one log;
- a return without the deferred remove;
- a subscriber snapshot that is not re-read;
- a pop of the newest message instead of the oldest;
- `PushMessage` without `MsgLock`;
- a handler that keeps `MsgLock` while polling;
- auditd dropping every denial;
- a `WatchMessages` loop that never tests `Running`;
- an `int32` conversion that loses the top bit of a uint32 id.

### Bounds

- **Feeder safety.** 2 subscribers, 2 logs, 3 filters and 2 origins. Every pair of interleavings between two drainers, one registration racing a push, and a cancel is reached. Symmetry over the subscribers is used for safety only.
- **Feeder liveness.** One filter and one origin, to keep the fair-cycle search small.
- **Message feeder.** 2 producers with 2 messages each, so per-producer order can be broken. 2 handlers, so two drainers and a stale snapshot can meet. Symmetry over both handlers and producers is used. One level is enumerated, because the level never influences control flow. Liveness uses 1 producer.
- **Registry.** One container id, 2 writes and 2 lookups. That is enough for a lookup to start before, during and after a write.
- **Builder.** Three events drawn from 9 tuples. These cover every syscall case, both result classes, the auditd drop, the unknown container, and `int32` of the ids. The close event runs as the overflow uid 2^32 - 1. Event ids are `[hi, lo]` records (top bit, low 31 bits), because TLC integers stop at 2^31 - 1. `LogsFollowContract` requires the log to carry the same 32 bits read as a signed int32, which is the int32 wire field of spec 4.7, so that uid must come out as -1.

## Fairness

- Each `WatchLogs` goroutine's steps are weakly fair, because the Go scheduler runs runnable goroutines.
- Taking `LogLock` is strongly fair. Go's `sync.Mutex` turns to starvation mode after 1 ms, so a goroutine that keeps retrying gets the lock.
- A started `PushLog` goroutine is weakly fair. A `PushMessage` call is strongly fair on `MsgLock`. Whether a producer logs again is not forced.
- In `ContainerRegistry`, the watcher's steps inside its critical section and the reader's steps are weakly fair. A stalled `RLockCopy` therefore shows up as a real hang, not as starvation.
- Once `DestroyFeeder` has been called, its remaining step (`CloseListener`) is weakly fair.
- Client calls, cancellations, the kernel side's sends and the call to `DestroyFeeder` are the environment and get no fairness.

## Not modelled, and why

The following are not modelled:
- `NewFeeder`/`ServeLogFeeds`, the JSON output file, and the console side (`kg.Print`) of the `Print*/Debug*/Err*` helpers. These are I/O. Their `PushMessage` side is modelled.
- The queue bound of spec section 5. The code has none: `PushLog` and `PushMessage` append unconditionally, and nothing drops or counts. This is a fact of the code, not of an interleaving, so no run states it.
- `HealthCheck`, which is stateless.
- The protobuf and deployment files, which are declarations.
- The policy index and process-tree code, which are not in `src/`.
- The comm-without-NUL panic. `CommString` models it, but spec section 3 gives `comm[16]` as NUL-terminated and the kernel always terminates it. No input the ingestor can deliver reaches it, so no run feeds one.

The following were considered and left out:
- **Type invariants.** The modules' variables range over the sets their actions build. A type invariant could only be broken by changing the model's own bounds on the environment (logs spawned, events sent, messages emitted), and the code has none of those bounds. The runs check correctness properties only.
- **Termination of `UpdateLogs` after `StopChan` closes.** In this model it would follow from the fairness of the `StopChan` case alone, whatever the loop body does. The way the loop really fails to return is a lookup stuck in `GetNameFromContainerID` on a write-held copy of `ContainersLock`. `LogBuilder` reads a fixed registry, and `ContainerRegistry` models that lookup.
- **`PushLog`'s early return for an empty `UpdatedTime`** (feeder.go:418-420). `BuildLogBase` always sets the field to the current time, so the branch cannot be taken.
- **A stalled `WatchLogs` client.** `LogFeeder`'s `Drain` sends a log to every subscriber in one step. Blocking one `Send` would mean splitting that step, which would also change the `LogBroadcast` refinement. The message path shows the same shape (`msg_stalled_client`), and the finding notes that line 197 is identical.
- **Composing `ContainerRegistry` into `LogBuilder`.** The composition would show a lookup stuck on a write-held copy of the lock stopping `UpdateLogs`. That is the second half of the `registry_exclusion` finding. It would need a further violation run for a finding that is already recorded, and `ReadExclusion` already shows the cause, the RLock on a copy.
- **A separate refinement for the message path.** `MsgFeeder` sends one message to its clients in several `Send` steps. A client may cancel between them, so the atomic `Serve` of `LogBroadcast` does not fit without a per-client abstract spec. `PerProducerFIFO` and `MsgNoLoss` state the guarantees instead.
- **Composing `LogFeeder` and `MsgFeeder`.** They share only `Running`; their queues and locks are disjoint. The composition would add states but no interaction to check.
- **The policy matcher.** `UpdateMatchedPolicy` is not in this repository, so only its effect on the log type is modelled, as a nondeterministic choice.
