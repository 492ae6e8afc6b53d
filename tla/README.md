# TLA+ models of the akri Discovery Operator and its handlers

This directory models the agent's Discovery Operator
(`src/agent/src/util/discovery_operator.rs`), the abstract lifecycle of a
registered handler that it implements, two of the Discovery Handlers at
the other end of its streams (debugEcho and ONVIF), and the string the
instance digest is computed from. The operator keeps, for each
Configuration, live streams to the Discovery Handlers of its protocol. It
reconciles their device lists against the Configuration's InstanceMap,
creates and tears down device plugins, and applies the two grace periods:
one for handlers that went away and one for shared devices that went away.

## The system and how its parts interact

- **Registered-handler map** (`RegisteredDiscoveryHandlerMap`). This map is
  shared by every Configuration of a protocol. Each entry has a connectivity
  status (`Online`, `HasClient`, `Offline(instant)`) and a `stop_discovery`
  broadcast channel. The registration server outside `src/` inserts entries
  and broadcasts `new_discovery_handler`. Sessions update entries with
  `set_discovery_handler_connectivity_status` and
  `mark_offline_or_deregister_discovery_handler`, each of them atomic under
  the map's mutex.
- **Sessions** (`do_discover`). A session task is spawned per endpoint that
  is not `HasClient` in a clone of the map. Each session loops through these
  steps:
  1. `get_stream`.
  2. On success: the `HasClient` write, then `internal_do_discover`, which
     subscribes to the stop channel and selects between a stop and the
     next stream message.
  3. On a broken pipe or a failed connect:
     `mark_offline_or_deregister_discovery_handler`, then a 60 s sleep
     unless the handler was deregistered.
  4. On a clean end or another error: the status is set back to `Online`.
- **Reconciliation** (`handle_discovery_results`,
  `update_connectivity_status`). Each response is reconciled in four steps:
  1. A first clone of the InstanceMap yields the new names.
  2. A second clone drives a per-instance rule, whose writes go to the live
     map:
     - visible and Offline: set back to Online;
     - invisible and local: removed;
     - invisible, shared and Online: set `Offline(now)`;
     - invisible, shared, Offline and past the grace period: removed.
  3. Then one `build_device_plugin` call runs for each new name.
  4. Every await between these steps lets other tasks run.
- **Supervisor** (`start_discovery`). It runs three tasks:
  - the initial `do_discover`;
  - the registration watcher: on `new_discovery_handler` it spawns another
    `do_discover`, and on the Configuration's stop it calls
    `stop_all_discovery` and joins its inner tasks;
  - the sweeper: `check_offline_status` on a clone of the InstanceMap,
    then waiting 30 s or until the stop.

  When all three tasks are joined it sends `finished_all_discovery`.
- **Environment.** The environment covers four things:
  - handler processes, which can crash, come back and register again;
  - the devices each handler sees;
  - the clock;
  - deletion of the Configuration.
- **Discovery handlers** (`debug-echo`, `onvif`, `zeroconf`, the OPC UA
  module). These are the other end of the streams. The debugEcho and ONVIF
  handlers answer a `discover` call by spawning a task that polls (a file,
  or the network), sends a `DiscoverResponse` on a bounded channel of 4
  whenever what it sees changes, and sleeps 10 s. The operator reads that
  channel as its stream, and drops it when its session ends.

## Modules

### `DiscoveryOperator.tla`

This module models one Configuration with the handlers of its protocol.

State:
- `dhStatus`, `dhSince`, `dhGen`: the handler map for this protocol.
  - `"Absent"` stands for no entry.
  - `dhGen` counts registrations. It therefore names the entry's
    `stop_discovery` channel.
- `sess`: one record per session task.
  - `pc` is the await the task is at.
  - `gen` is the channel its cloned `dh_details` holds.
  - `stop` says the channel delivered to its receiver.
  - `vis`, `newN`, `snap` and `todo` are the locals of reconciliation.
- `ddPending`: `do_discover` tasks spawned and not yet run, per owning
  supervisor task.
- `watcher`, `sweeper`, `swSnap`, `swTodo`, `finished`: the supervisor.
- `instances`: the InstanceMap, from name to InstanceInfo.
  - A name is `<<device, shared>>`, the abstraction of
    `generate_instance_digest`, which salts local ids with the node name.
  - An InstanceInfo is `[st, since]`.
- `plugins`: the device plugins alive per name.
- `reported`: a history of `(device, endpoint)` pairs some response carried.
- `clock`, `alive`, `seen`, `regNotes`, `configStop`: the environment.

Each action is one step of the code between two awaits:

| Code | Actions |
|---|---|
| `get_stream` and the `HasClient` write | `ConnectOk`, `ConnectFail` |
| 60 s sleep | `Retry` |
| `internal_do_discover` select | `StopReceived`, `StreamEnd`, `BrokenPipe`, `Receive` |
| `handle_discovery_results` / `update_connectivity_status` | `SnapshotNew`, `SnapshotConnectivity`, `UpdateOne` (one instance of the clone, any order, as the HashMap iteration order is unspecified), `BuildOne`, `ReconcileDone` |
| `do_discover` | `DoDiscover` |
| watcher | `WatchNewHandler`, `WatchStop` |
| joins and `finished_all_discovery` | `Finish` |
| sweeper | `SweepSnapshot`, `SweepOne`, `SweepWait` |

Some parts of the actions are modelled from the spec, because that code is
not under `src/`:
- The registration server's insert, in `HandlerRestart`. It inserts only
  when the endpoint has no entry.
- The device-plugin builder and `terminate_device_plugin_service`, as the
  `plugins` count in `BuildOne` and `Remove`.

`MCDiscoveryOperator.tla` gives the constants model values. There is
symmetry over session ids, because no step depends on which id a session
has.

### `DiscoveryOperatorProofs.tla`, `DebugEchoProofs.tla`, `OnvifProofs.tla`

These modules hold the TLAPS proofs (see below). Each extends the module
it proves things about.

### `HandlerRegistry.tla`

The abstract specification of the registered-handler map: each endpoint
is `Absent`, `Up` or `Down` since some instant. It enters only by a
registration (which takes the next stop channel), goes down and up, and
leaves only after being down for longer than the handler grace period.
`DiscoveryOperator` defines the refinement mapping `AbsStatus`
(`Offline` is `Down`, `Online` and `HasClient` are `Up`) and instantiates
it as `Registry`; `RegistrySpec == Registry!Spec` is checked by TLC and
proved by TLAPS.

### `DebugEchoHandler.tla`

`discover` of `debug-echo/src/discovery_handler.rs` and the task it spawns,
per call:
- `Discover`: the configuration is accepted (constant `ConfigValid`) and
  the file is read once to initialise `offline`; the receiver is returned.
- `Read`: one turn of the loop, with the two conditions of lines 87 and 97
  (availability changed, or first turn), choosing the empty or the full
  device list, or a sleep.
- `Send`: `tx.send(..).await` waits for room in the channel of 4, or fails
  once the receiver is dropped and ends the task.
- `Wake`: the 10 s delay is over.
- Environment: `Receive` and `DropStream` (the operator's end of the
  stream), `FileChange` (edits of the availability file, bounded by
  `MaxChanges`).

The file matters only through whether it contains `OFFLINE`, and a
response only through whether its device list is empty.

### `OnvifHandler.tla`

`discover` of `onvif/src/discovery_handler.rs` and its task: `Probe`
(`simple_onvif_discover(..).unwrap()` and `apply_filters`; a probe error
panics the task), `Compare` (the change test of lines 105-114, `Changed`),
`Send`, `Notify` (a failed send is reported on the shutdown sender and the
loop breaks), `Wake`. `ReRegister` is `register_again` taking the notice
(the channel made in the handler module's `main`). A probe's filtered
result is a list from the constant set `Scans`, a set of sequences over
the model values of `Cameras`.

### `InstanceDigest.tla`

The string `inner_generate_instance_digest` hashes: the id for a shared
device, the id followed by `AGENT_NODE_NAME` for a local one, over ids and
node names that are short strings of two characters.

## Runs

| Run | cfg | Result | What it shows |
|---|---|---|---|
| single_handler | `MCDiscoveryOperator.cfg` | pass | One shared handler crashes, is deregistered and registers again, with two sessions and the sweeper. The type invariant holds, so no plugin is terminated twice, and instance names come from reported devices (I2). |
| handler_reregistration | `MCHandlers.cfg` | pass | Two handlers and four sessions. However the stale sessions interleave, only a new registration brings a removed handler back, and the handler map refines `HandlerRegistry`. The refinement includes I5: removal only after the grace period, counted from the first failure. |
| mixed_local_shared | `MCMixed.cfg` | violation | A local handler `e1` and a shared handler `e2` of one protocol. `e2`'s reconcile marks `e1`'s instance Offline, so it waits out the shared grace instead of being removed (I4 broken). |
| hasclient_stream | `MCHasClient.cfg` | violation | After a broken pipe the entry stays `HasClient` with no stream. |
| one_stream | `MCOneStream.cfg` | violation | Two sessions stream from one handler (I6 broken). |
| shared_grace | `MCSharedGrace.cfg` | violation | The sweeper removes an instance that is Online again (I3 broken). |
| instances_served | `MCServed.cfg` | violation | A map entry is left with no device plugin. |
| shutdown | `MCShutdown.cfg` | violation | Under the fairness below, deleting the Configuration need not lead to `finished_all_discovery`: a session that is connecting (or sleeping) when the stop is broadcast has no receiver yet, misses it, and then streams forever. |
| double_build | `MCDoubleBuild.cfg` | violation | Two shared handlers report one device; both sessions clone the InstanceMap before either builds, and a device plugin is built twice for one name. |
| debug_echo_converges | `MCDebugEcho.cfg` | pass | Two calls, up to 5 file edits. A stream that stays open ends up reporting what the file says once it stops changing, however the edits fell between `discover`'s read and the task's reads; the channel never holds more than 4. |
| onvif_reports | `MCOnvif.cfg` | pass | Two calls, probe failures, drops. When probes never repeat a camera, a task sleeping on an open, drained stream has left the operator with exactly the cameras of its last probe. |
| digest_clash | `MCDigestClash.cfg` | violation | A local id `a` on node `n` and a shared id `an` hash the same string, as do local ids on two nodes; they get one Instance name. |

`PROJECT.json` lists the findings each violation supports, with the code
lines.

### Bounds

Time is counted in ticks, and both grace periods are 0 or 1 tick.
`MaxTime` 1–2 is enough for an entry to go Offline, outlive its grace
period and be removed. `MaxRegistrations` 1 allows one re-registration,
which is what produces stale sessions and a second `do_discover`. Two
sessions suffice for one handler. Four sessions are needed for two handlers
plus the duplicate session of a re-registration. One device suffices, since
instances never interact through their device ids. The counters are bounded
by constants in the guards:
- `clock < MaxTime`;
- `dhGen < MaxRegistrations`;
- `plugins < MaxPlugins`;
- the session pool.

### Fairness

The safety runs assume no fairness. Two runs check liveness, each under
`LiveSpec == Spec /\ Fairness`, without symmetry:
- `DiscoveryOperator!Fairness` (shutdown run) is weak fairness of every
  step of a session, of the supervisor and of the sweeper. tokio runs every
  ready task eventually, and the sleeps and the 30 s connect timeout always
  end, which justifies it. A connect attempt that can succeed infinitely
  often eventually does (strong fairness of `ConnectOk`), and a stop that
  is pending on the broadcast channel is eventually taken by the session's
  `select!` (strong fairness of `StopReceived`), since `select!` polls its
  branches in random order. No fairness is assumed of the environment:
  handlers crashing, devices appearing, registrations.
- `DebugEchoHandler!Fairness` is weak fairness of the task's `Read`, `Send`
  and `Wake`, which are a spawned tokio task and its sleeps, and of the
  operator's `Receive`. File edits, calls and drops are not forced.

The bounds (`MaxChanges` 5 edits, which fill the channel of 4; `MaxProbes`
2 probes per ONVIF task, each of which can fail) are large enough that the
channel reaches its capacity and that a task both sends and then sleeps
with nothing to send.

## Proofs

`DiscoveryOperatorProofs.tla` proves `THEOREM TypeCorrect == Spec => []TypeOK`
for every value of the constants. It relies only on the module's `ASSUME`s:
- endpoints are finite and non-empty;
- local endpoints are a subset of the endpoints;
- the session ids are finite;
- the grace periods and bounds are naturals.

The proof proceeds as follows:
- `InitTypeOK` shows the initial states are well typed.
- One lemma per action shows the action preserves `TypeOK`. Session
  actions rewrite one record of `sess`, and `SessUpdate` lifts "the new
  record is in `SessRec`" to the function.
- `UpdateInstanceType` and `RemoveType` are stated over the narrow
  `InstTyped`, the two instance-map conjuncts, so that the provers never
  see the whole of `TypeOK` at once.
- `NextTypeOK` combines the action lemmas.
- The theorem follows by PTL.

`TypeOK` is inductive as it stands: each step keeps every variable in its
set, using the bounds in the guards. No strengthening is needed.

The module also proves `THEOREM RemovedHandlerStaysRemovedHolds ==
Spec => RemovedHandlerStaysRemoved`. The argument follows how the code
writes the handler map:
- `set_discovery_handler_connectivity_status` never adds or removes an
  entry (`SetStatusHandler`).
- `mark_offline_or_deregister_discovery_handler` inserts no entry
  (`MarkHandler`).
- The registration server inserts only where no entry is, with the next
  generation (`RestartHandler`).
- Every other step leaves the map alone (`UnchangedHandler`).

`NextHandler` combines these under `TypeOK`, which is needed for the
domains of the map functions, and PTL with `TypeCorrect` gives the
theorem.

`THEOREM InstanceNamesFromReports == Spec => []InstanceNamesReported`
(spec I2) needs a strengthening, because the map is written from names
that sessions carry across awaits. The strengthening is `NamesInv`:
- the map's keys are reported names (`ReportedNames`, the names
  `generate_instance_digest` gives the reported `(device, endpoint)`
  pairs);
- so is every name in a session's `vis`, `newN` and `todo`.

Each step preserves it:
- `Receive` reports exactly the devices it names.
- `SnapshotNew` and `SnapshotConnectivity` copy subsets of `vis` and of
  the map's keys.
- `UpdateOne` and `BuildOne` write only a name taken from `todo` or `newN`.
- Terminations only remove names.

TLC checked `NamesInv` as an invariant of a shared and of a local
single-handler instance before the proof was written. The proof covers
every choice of `LocalEndpoints`, so it also covers the local branch of
the name, which no kept run exercises.

`THEOREM RegistryRefinement == Spec => RegistrySpec` shows that the
handler map implements `HandlerRegistry` under the mapping `AbsStatus`.
- The initial states map to `Registry!Init`: every endpoint is `Up`.
- `NextRefines` shows that every step, under `TypeOK`, maps to a step of
  `Registry!Next` or a stutter. It has one lemma per action that writes the
  map:
  - `SetStatusRefines`: a status change maps to `GoUp` when the entry was
    `Offline`, and to a stutter otherwise (`Online` and `HasClient` are
    both `Up`);
  - `MarkRefines`: a removal maps to `Deregister`, with the grace check of
    `Deregisters`, and an `Online` entry marked offline maps to `GoDown`;
  - `RestartRefines`: the registration server's insert maps to `Register`;
  - `RegistryStutter`: every other step leaves the map and clock alone.
- PTL with `TypeCorrect` gives the theorem.

`DebugEchoProofs.tla` proves `THEOREM TypeCorrect == Spec => []TypeOK` for
debugEcho. This type invariant bounds every channel by its capacity.
- `TypeOK` alone is not inductive. A task's `msg` may be `"none"`, and
  `Send` appends it.
- The strengthening `TypeInv` adds that a task at `"send"` holds a
  response, which `Read` always chooses.
- There is one lemma per action, and `Send` keeps the bound because it
  waits for room.

`OnvifProofs.tla` proves two theorems about the ONVIF handler.
- `THEOREM TypeCorrect == Spec => []TypeOK`. Its strengthening `TypeInv`
  adds two facts:
  - a task at `"compare"` or `"send"` holds a probed list from `Scans`;
  - `notes <= Cardinality(Ended)`, because each task notifies once, on
    its way to `"ended"`.

  The second fact bounds the notices by the number of calls, which needs
  `Calls` finite (`CallsAssumption`).
- `THEOREM ReportCurrentHolds` proves `Spec => []ReportCurrent` under the
  hypothesis `NoRepeats`: no list of `Scans` names a camera twice. That
  is the case MCOnvif.cfg checks. With repeats the change test misses a
  vanished camera (see below), so the hypothesis cannot be dropped.
  - The inductive invariant is `ReportInv`, which holds `CallInv(c)` for
    each call. `Reported(c)` is the last list buffered in the channel,
    or else the last one received.
  - `CallInv(c)` says the following. A receiver is `"none"` only before
    discover, and then nothing was sent. It is `"dropped"` whenever a
    notice is due. On an open stream:
    - a task at `"send"` has `cameras = found`;
    - a sleeping task's `found` has the same cameras as its `cameras`;
    - at every other point, `Reported(c)` equals `cameras`.
  - It is needed because `ReportCurrent` speaks only of drained
    channels. Before the channel drains, the list the operator will end
    up holding must already be tracked.
  - The lemmas rest on three facts about the operators:
    - `UnchangedSameRange`: for lists without repeats, `~Changed` means
      the two lists have the same cameras. It is proved by counting
      through `InjectiveCard` and `FS_Subset`.
    - `LastAfterRead`: `Receive` keeps `Reported`.
    - `AppendProperties`: `Send` makes `Reported` the found list.
  - TLC checked `TypeInv` and `ReportInv` as invariants of the MCOnvif
    instance before the proofs were written.

The following are checked only by TLC:
- Liveness (`ReportConverges` here, and the liveness properties the
  violation runs refute). It needs `ENABLED` and fairness, which are
  beyond TLAPS.
- Nothing about `InstanceDigest` is proved. Its one property,
  `UniqueInstanceNames`, is false, and the digest_clash run exhibits the
  clash.

## Not modelled, and why

- **Panics.** The `unwrap()` calls in the sessions, `update_connectivity_status`
  and the sweeper are not modelled as crash steps. The one exception is the
  ONVIF probe (`Probe` may end the task), which shows a panicked task
  never tells the operator to register again.
- **Instance digests.** In `DiscoveryOperator`, names are abstracted to
  `<<device, shared>>`. The concatenation itself is in `InstanceDigest`, and
  the BLAKE2b hash (3 bytes, in hex) is not modelled; it can only merge
  names further.
- **Several Configurations of one protocol.** They share the handler map and
  its stop channels. The model has one Configuration.
- **ONVIF filters and the zeroconf handler.** `apply_filters` is taken as
  any list of `Scans`. zeroconf is the same loop as ONVIF around a browse.
- **The OPC UA handler and the agent's build script.** They are pure I/O.
- **Embedded handlers** (`StreamType::Internal`). They follow the external
  path except for broken pipes, which cannot happen to them.

## Properties left out

- The finishing order of `start_discovery` (`finished_all_discovery`
  only after every session, `do_discover` and the sweeper) is not a
  property. `TaskJoined` models the nested `try_join_all` of lines 585-612,
  and any statement of the ordering restates `Finish`'s guard.
- I5 as a step property (a handler is removed only when it is Offline
  past its grace) is not a property of its own either. Its body is
  `Deregisters`, the one guard under which the map loses an entry.
  `RegistrySpec` checks what matters beyond it: `since` is set on the
  Online-to-Offline step and kept while the handler stays down.
- I4 holds when all of a protocol's handlers are local, because no step
  can then write Offline, so it is checked only where it fails:
  mixed_local_shared.

## Observed, not kept as runs

Two things were seen while building the handler models but are not kept
as runs:
- A debugEcho task whose stream is dropped while it sleeps lives on until
  its next send, because nothing else ends it.
- The ONVIF change test counts matching cameras. When a probe lists one
  camera twice, a vanished camera can go unreported. This is why `Scans`
  in `MCOnvif.cfg` holds only lists without repeats.

## Plan for later work

1. Panics as crash steps of every operator task, with their effect on
   `HasClient` and on shutdown.
2. Action properties of the handlers, proved from the invariants above.
3. Two Configurations sharing a protocol's handler map and stop channels.
4. The ONVIF filters, checked against a reference of the filter semantics.
