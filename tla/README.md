# janus-camera-stack: specifications of the control plane

TLA+ modules, TLC models and TLAPS proofs for the janus-camera-stack repository:
the autonomous fault handling of a camera node (FDIR: detection, isolation,
recovery), the lifecycle of local and remote streams, long operations on camera
nodes, runtime configuration, the writers of the Janus configuration, the frame
producer with its click-to-depth path, the bring-up layer of a camera host, and the
player in the browser.

## 1. Inventory

| Component | State | Operations | Interacts with | What makes it correct |
|---|---|---|---|---|
| Recovery ladder (`recovery_ladder.py`, `_policy`, `_state_machine`, `_persistence`) | level, attempts, stamps (memory and tmpfs), reboot counter (disk) | `escalate`, `reset`, construction | called by watchdogs and admin routes; calls executor, mode, files | budgets, order and cooldowns hold across crashes; reboots are bounded |
| Recovery executor | none | one handler per action | runs under the ladder lock; arms the gate; commands | the gate is armed exactly while a restart runs; a reboot is counted before it is commanded |
| Quiesce gate (`fdir_quiesce.py`) | deadline, domains, refcount | `quiesce`, `unquiesce` | executor, watchdogs | blindness is bounded from the first arm; the last one out opens the gate |
| System mode, mode enforcer | mode; fps profile, encoder unit | `transition`, `degrade`, `promote`; the listener | everybody changes the mode; listeners run after its lock | encoder and profile agree with the mode |
| Watchdogs, thermal monitor, FDIR routes | streaks, budgets, stamps | polls, forced modes, resets | probe, gate, ladder, mode | a persistent fault ends in SAFE or a reboot; a recovered node returns to NOMINAL |
| Mountpoint allocator, sensor lifecycle, boot reconciler | allocator file, contract files, encoder units, Janus mountpoints | allocate, ensure, initialize, stop, reconcile | web process and reconciler share the file, the dashboard writes to the same Janus | no shared mountpoint or port; encoders send where their row says; a boot brings up what is desired |
| Binding store, stream-binding services, remote monitor, firewall, node agent | topology file, Janus, iptables, encoders on nodes | create, stop, restart, remove, delete node, drift, monitor tick | request threads, monitor thread, remote hosts | slots stay disjoint; no binding without its node; a managed stream heals |
| Operation journal, runner, node provisioning | journal, node rows, secrets, tokens on nodes | begin, run, finish, reap; provision, rotate, activate | daemon threads over SSH | one operation per node; nobody stays half provisioned; tokens agree |
| Runtime configuration | revisions, environment file, process environment, cached settings | validate, apply, roll back, recover on boot | other requests read the cache | what is recorded as applied is served, now and after a restart |
| NAT, TURN | `janus.jcfg`, desired configuration, status sidecar, IP cache | NAT update, rotation, address update, console render | four writers, one flock, restarts of Janus | no patch is lost; success means live |
| Frame producer (`realsense-mux.py`, `rs-stream.sh`) | FIFO, process and unit | frame loop, restarts | camera, encoder, systemd | frames are never cut; it comes back |
| Depth queries (mux API, `textroom_relay.py`, `depth_events.py`) | queues, workers, event streams | query, forward, publish, reconnect | browser, relay, mux, page | answers go to their session, once; a burst costs its oldest messages only |
| Camera bring-up (`camera_bringup/`) | kernel, udev, venv, signed baseline of the host | eleven checks, four fixers, recovery, SAFE | operator's command and the layers above | healthy is true; exit 0 means fixed; drift closes |
| Player (`templates/player/`, JavaScript) | connection state, generation, reconnect counters and timers | buttons, page and stream events, connect flow, reconnect attempts | Janus adapter, browser | what is shown is connected and watched; a reconnect is never forgotten; nothing late wakes a stopped player |
| Clients and proxies, sessions, audit, consoles, installer | request-scoped or presentation | I/O | - | left out, see PROJECT.json |

What is hard here: threads of one process share state under several locks none of which
covers a whole reaction; a request is a sequence of short critical sections and remote
calls with nothing held in between; several processes rewrite one file; and the process
may die anywhere, while what survives is spread over memory, tmpfs, disk, Janus, systemd
and remote nodes. In the player there is one thread, but its timers and async functions
outlive the state that started them. `PROJECT.json` lists the hazards at their lines.

## 2. Modules

| Module | Models | State | Actions |
|---|---|---|---|
| `FdirThreads` | the threads that `core/events.py` starts | constant `Threads` | - |
| `FdirQuiesce` | `fdir_quiesce.py` | `left`, `quiet`, `arms`, `inside` | `Quiesce`, `Unquiesce`, time, loss of the process |
| `SystemMode` | `system_mode.py` | `mode`, `modeAge`, `callback` | operators used by the two below |
| `ModeEnforcer` | `mode_enforcer.py` | `active`, `profile` | `ChangeMode` and a step per file write or subprocess of the listener |
| `RecoveryLadder` | ladder, policy, decision, persistence | see its VARIABLES | one per outcome of `decide_escalation` and of `_reboot_node`; `Crash`, `Start`, `Boot` |
| `Fdir` | watchdogs, thermal monitor, routes, executor, composing the four above | per thread its step; the environment | one per branch of the loops and step of an action |
| `LocalStreams` | `mountpoint_allocator.py`, `sensor_lifecycle/`, `sensor_reconcile.py`, `mountpoint_admin.py` | file, contracts, units, Janus, a lock per key | one per step of `initialize`, `stop` and the reconciler; the dashboard's create and destroy; damage, crashes, boots |
| `RemoteStreams` | `stream_binding_store/`, `application/stream_bindings/`, `remote_stream_monitor.py`, `reconcile_drift.py`, `firewall_sync.py`, node agent | topology, Janus, rules, contracts, encoders, what every thread does | one per file access or remote call of a use case; the monitor's tick row by row |
| `OperationService` | abstract: what the journal promises | `status`, `busy` | start, end, death of the process, interruption, damage |
| `NodeOperations` | `operation_journal.py`, `node_operation_runner.py`, `node_provisioner.py` | rows, tokens on both sides, journal, threads, reaper | one per journal access or SSH call |
| `RuntimeConfig` | `runtime_config_*.py`, `runtime_revision_store.py`, `runtime_env_writer.py` | file, environment, cache, journal | one per step of an apply, of a settings reader, of boot recovery |
| `JanusNat` | `nat_config.py`, `update_nat_config.py`, `janus-admin.py`, rotator, updater, `jcfg_renderer.py` | `desired`, `status`, `jcfg`, `live`, `lock`, writers | one per step of the four writers |
| `FramePipe` | the frame loop of `realsense-mux.py`, `rs-stream.sh`, both units | pipe pages and fill, process, reader | start, frame, timeout, exit, restart; opens and reads of the consumer |
| `DepthQueries` | the mux's answers, the relay, `depth_events.py` | queues, workers, subscriptions, connections | query, forward, publish, yield, leave, restarts |
| `BringupChecks` | the eleven checks, the fold into a status, the promises of `CONTRACT.md` | operators on a host record | - |
| `CameraBringup` | fixers, lock, recovery, command line, SAFE | host, the two processes, lock | one per check, lock, action and verification |
| `Player` | `player_controller.js`, `state_machine_canonical.js`, `invariants.js`, `connection_policy.js`, `reconnect_coordinator.js` | the controller's and coordinator's fields in one record, connect flows, reconnect runs | one per callback: button, page event, stream event, timer, rest of an async function after an `await` |
| `MC*` | instances for TLC | | |
| `*Proofs` | theorems about the module they are named after (`FdirProofs`: about the FDIR modules and their composition; `MediaProofs`: about `FramePipe`, `DepthQueries` and `Player`) | | |

Composition. `Fdir` EXTENDS the FDIR modules and conjoins their actions: an
escalation that changes the mode is one step of `RecoveryLadder` with one of
`SystemMode`; that it never does to ladder or gate what their own modules do not
allow is checked (`LadderSpec`, `QuiesceSpec` as properties) and proved. `NodeOperations`
implements `OperationService` under the mapping in `Service`: an operation is
*forgotten* once its record is pruned or its journal quarantined, and *busy* while
its thread lives.

What is atomic. A step is what happens between two points where another thread,
another process, the clock or a crash can come in: taking or releasing a lock, a
file write, a subprocess, a remote call, an `await`. A read-modify-write under a
flock is one step, or several where the holder may die inside it. A use case that
ends early on an error ends early in the model; a failing call may have had its
effect where the code cannot tell (timeouts). The count of an attempt, its save and the
start of its action are separate in the ladder (`DecideExecute`, `BeginAction`): between
them no time passes, but the process may die. A miss of the settings cache, the build
and the store are separate for requests and for the applier, as in `lru_cache`, where the
first result stored stays and every caller gets its own. A command of `encoder-admin` may
fail with the error the pipeline handles or, timed out, with one it does not
(`TimeoutExpired` is no `RuntimeError`), done or not done. In `Player` a step is a callback, run to
its end or to an `await`; the operators map a player to the player that a transition
and the actions it asks for leave behind, so that a handler is their composition.

Time. Stamps are modelled by their *age*, counted up to the largest constant they
are compared with, or by the time left. The stamp `0.0`, which the code uses for
"never", has the age of the host. One unit is one polling interval.

Data. A port, a token or a credential is a number that can be compared; an
environment file is a record of the keys the engine manages, whether somebody
else's lines are in it, and whether it is in canonical form; the NAT block of
`janus.jcfg` is a record of credentials, mapping and ICE settings, and `turn` says
whether the TURN lines the patchers look for are there. Rendering and patching are
functions of those records (`Render`, `PatchJcfg`, `Template`). A frame is a
number of bytes, the pipe a sequence of page fills, because whether a write is cut
depends on both.

External parts, from how the code uses them: Janus (mountpoints exist until it
restarts; creating an existing one fails with "already exists"), systemd (units
stop, start, restart and hit a start limit), iptables, the node's bootstrap
script, the camera.

Left out: events, metrics, logging, alerts, wording; the read-only routes; the
mode history; pixel arithmetic and calibration.

## 3. Runs

| Run | What it asks | Bounds |
|---|---|---|
| `gateway_parts` | four machines of the gateway, each on its own (variable `part`): the ladder with a process death at every step and node reboots; three threads changing the mode; three overlapping restarts; administrator, dashboard and boot reconciler around one allocator file and one Janus | ladder: 3 threads, budgets 1/3/1/2/1, cooldowns 1..4, 2 reboots; gate: ceiling 4, windows 2 and 6; streams: color and 3 sensors, 2 dynamic mountpoints (one too few), an empty file or one with color and a sensor switched on, 2 calls of the console, 1 port the dashboard names, 1 fault, 1 reboot |
| `fdir_crash` | watchdog and thermal monitor, a crash or power cycle anywhere: refinement of ladder and gate, recovery, SAFE is left, critical temperature | budget 1 per level, one fault or temperature rise, one crash |
| `fdir_operator` | snapshot watchdog and an administrator, any command failing, reboots disabled | one fault |
| `remote_streams` | two administrators from an empty fleet, who name slots or leave them to the gateway, monitor running | 1 node, 2 sensors, windows of 2, 3 mountpoints and 4 ports to name (free to choose, below the pool, odd, in the window), 3 use cases, 1 fault |
| `remote_heals` | does a managed stream come back, and stay? | 1 live stream, 1 use case, 3 faults |
| `node_operations` | operations, exceptions in them, deletion and re-registration, damage to the journal, a crash, the reaper | 1 node, 3 operations, 1 record kept, 3 other calls, 1 fault, 1 crash |
| `runtime_config` | two applies, a reader of the settings, edits, failing writes, crashes | 3 patches, 1 of 3 edits, 3 revisions (2 kept), 2 faults |
| `camera_bringup` | recovery and operator's apply, cameras moved and swapped, deaths | 2 cameras, 2 ports, 1 fault, 1 command |
| `frame_pipe` | frames through the FIFO, camera and commands misbehaving | frames of 2 pages, pipe of 7 or 1 pages, start limit 3, 4 faults |
| `janus_nat` | two NAT updates, rotation, address update, console | 2 bodies, 1 day, 1 new address, 1 fault |
| `page_parts` | two machines behind a page, each on its own: depth queries with reconnections and restarts; the player with every callback in any order, late timers, flows and runs | depth: 2 sessions, 3 messages, 2 connections, queues of 1, 1 restart; player: 2 generations, 2 attempts, 2 runs at once, 1 orphaned timer, the ICE alarm |
| `relay_worker` | violated, section 6 | 3 messages |

Why the bounds are enough. Budgets, cooldowns and timeouts matter by their order and by
being reached; the ladder keeps the order of the code and lets every budget be used up,
twice over the reboots. The composed FDIR runs use budget 1 and durations of one unit, so
that a whole climb, a SAFE auto-reset and a second climb fit. The interleavings the other
runs are about need two actors and one failure between two of their steps: two writers of
a slot, a delete inside a create, a crash inside an apply, a second writer between patch
and restart. The streams also start from the file a former life of the node left, so that
two calls are enough to exhaust the pool. Pools, queues and the journal are small enough to run out, overflow and be
pruned. `remote_heals` has three faults because mountpoint and encoder have to be lost at
once and a call of the repair has to fail. Two nodes add nothing to `remote_streams` but
disjoint windows (`PortWindow` is a function of the node's ordinal); two sensors of one
node compete for one window. In the depth queries the third connection of a session
repeats the second. In the player the second generation makes everything of the first one
late, the second run overlaps the first, and the second attempt exhausts them; a track's
alarm does what the ICE alarm does. Every bound is a constant named `Max*`, `Window`,
`Slots`, `Throttle` or `Burst`; ages and histories saturate where no comparison can tell.

Deadlock is checked in the FDIR runs and in `remote_heals`, where somebody always
polls. The others say `CHECK_DEADLOCK FALSE`: a bounded number of requests comes
to its end and the system rests.

Fairness. `FdirFairness`: time passes, every polling loop goes on (daemon threads in
`while not _stop_event`, every subprocess and probe with a timeout, exceptions
caught), a running encoder delivers, an accepted reboot happens, systemd starts the
service again. `RemoteSpec`: the monitor thread and every request thread that has
begun go on; their HTTP and subprocess calls have timeouts. `NodeOpsSpec`: operation
threads go on while the process lives, and systemd starts it again. `BringupSpec`: a
command that runs goes on; nothing in the repository repeats `attempt_recovery`, so
`DriftCloses` speaks of behaviours in which somebody does.
`FrameSpec`: the multiplexer runs, its frame timeout fires, systemd restarts it.
Nothing is assumed about faults, repairs, administrators or the outcome of a call.

## 4. Properties

FDIR. `BlindnessBounded`, `GateFollowsHolders`; `EnforcedWhenSerial` (the proviso is
necessary, section 6); `BudgetsSurviveCrashes`, `RebootIsLastResort`, `RebootsBounded`,
`CooldownKept`, stated over histories of the actions that were *started* (`done`) and not
over the ladder's own counters, so that a count lost in a crash breaks them. A process
that dies between the save of an attempt (`recovery_ladder.py:264`) and its start loses it
(`lost`): the reboot is the last resort after `done + lost` used every budget. Of the
node: `BlindOnlyForOwnRestart`, `LockFollowsThread` (proved only); `PersistentFaultEnds`,
`Recovers`, `SafeIsLeft`, `CriticalTempAnswered`.

Local streams. `SlotsDisjoint` over everything that writes the file; `ReusedMountpointFits`:
"already exists" is taken for success without looking at the port, which is safe for
mountpoints of the pipeline itself, because it always hands out an id with the same
port, and not for one created from the dashboard (section 6); `EncoderSendsToItsRow`
relates a running encoder to the file it read earlier; `BootBringsUp`.

Remote streams. `RemoteSlotsDisjoint`, `BindingHasNode`, and `Heals`: what the monitor
is in charge of for good is delivered for good.

Node operations. `ServiceImplemented`: at most one running operation per node, an
operation that ended stays ended, one that its process took along is not called
succeeded. `ReadyMeansManageable`; `NodeUnstuck`: a node does not stay half provisioned,
except where an exception ended the operation or the reaper was cut off (section 6).

Runtime configuration. `InProgressOwned` (proved only): no revision stays in progress
without its thread; `AppliedIsServed`: at the commit of an apply that wrote the file the
environment shows the target, and so do the file, unless somebody edited it, and the
cached settings, unless a request was building settings across the clearing of the cache
(section 6); a revision found "already at target" is what the cache shows;
`RecoveryTellsTruth`.

Janus configuration. `NoLostPatch`, `ExitZeroMeansLive`, `AppliedIsLive`; all three
except a file the console has rendered (section 6).

Producers. `FramesWhole`, `MuxRecovers`; `NewestRegistered`, `OwnAnswersOnce`;
`BurstSpares`: hook and worker both end tasks of one queue, and on a topic that skips
nothing they never end one too many (on one that skips, they do: section 6).

Bring-up. `HealthyMeansDelivered` is stated against `Promise`, the table of
`CONTRACT.md` section 3 in terms of the host, not of the checks; `Waived` names the four
cases in which the checks are content with less (section 6). It speaks of a pass of the
checks. `ExitZeroMeansFixed`. `DriftCloses`: repeated calls of `attempt_recovery` close
what it has a fixer for; a fingerprint that FAILs, a swapped camera that a human has to
confirm, is not among it.

Player. `FlagsFollowState` relates desiredPlaying, the connection flags and the watchdog to
the state over every path; `ReconnectAlive`: a visible player in
RECONNECTING always has a timer or a run of its generation that can end it, except
after a run or timer of a connection given up came back (`crossed`, section 6);
`FreshStart`: a stopped player is active again only with a new generation and its own
connect flow.

Every property has a mutant: an operator next to the definition it stands in for
that changes the model the way a plausible slip in that code would; TLC finds the
property violated with it. The `*TypeOK` definitions document the state of a module;
five of them are theorems, none is a property of a run (each holds on its module's
instance when it is added to the cfg).

## 5. Proofs

Thirty-two of the properties that runs check, and two more, are theorems, for every value
of the constants that the ASSUMEs of the modules allow: finite sets of threads, nodes and
sensors, natural durations and bounds, positive budgets, queues, pages and frames,
`AgeCap` at least every compared duration, and constants that do not collide with the
names the model uses itself ("free", "rotator", "color", ...). Three say more, and come
from the code: `RemoteAssumption` (a node's window has a place for each of its sensors, as
`PortWindow` cuts them), the shapes of a patch (`RuntimeAssumption`) and of a NAT body
(`NatAssumption`), the types their request schemas parse. The inductive invariants were
tried as invariants of TLC runs before they were proved. A proof has one lemma per action,
named after it, and lemmas for the steps that leave a part alone.

`FdirProofs`, the parts. `QuiesceInv`: the refcount is the cardinality of `inside`, an
open window satisfies `windowAge + left <= Ceiling`, nothing is left when nobody is
inside. `EnforcerInv`: what a listener that runs alone has achieved at each of its steps;
`EnforcedWhenSerial` is the case in which none runs. `LadderInv`: types, phases
(`PhaseInv`), and on a disk that works `FileInv` (memory and file agree while the process
is up, which makes a crash harmless), `BudgetInv` (actions started, lost or about to start
equal counted attempts, lower levels used up), `CounterInv` (accepted reboots plus the one
in flight never exceed the counter) and `CooldownInv`. None of the ladder's properties is
inductive alone: budgets need memory and file to agree, the last resort needs the budgets,
the breaker needs to know that a reboot in flight has been counted.

`FdirProofs`, the node. `NodeImplementsLadder` and `NodeImplementsGate` are the
refinements: every step of watchdogs, thermal monitor, routes, executor, crash and
boot is a step of the ladder or leaves it alone, and the same for the gate. The first
needs no invariant. The second needs `NodeInv`: which step of a thread goes with which
phase of the ladder, who holds its lock, and that a thread inside the gate runs a
restart. Through them the node inherits the promises of the parts
(`NodeKeepsLadderPromises`, `NodeBlindnessBounded`); `LockFollowsThread` and
`BlindOnlyForOwnRestart` follow from `NodeInv` directly.

`NodeOperationsProofs`. `OpsInv`: the journal has one record per operation and at most
one running record per node, and a live operation has one unless the journal was
damaged; with it every step maps to a step of `OperationService` or a stutter
(`JournalImplementsService`). `TokenInv` adds where the token is at each step of
provisioning; it speaks of operations whose node was not deleted or registered again.

`LocalStreamsProofs`. The key is arithmetic: the lowest free mountpoint id and the
lowest free port pair always have the same offset in their pools (`PicksInStep`), so an
id determines its port for good, even across a lost file. `LocalInv` carries that to
calls under way, contracts, units and what Janus remembers of the pipeline's mountpoints;
nothing is known of the dashboard's. `BootInv` follows one
undisturbed pass of the reconciler: what is desired is still to do, in work, or up.

`RemoteStreamsProofs`. `TopologyInv` speaks of the file only: every write of it checks
what it needs under the lock, so nothing about the threads is needed.

`RuntimeConfigProofs`. `RuntimeInv`: a thread inside an apply holds the lock
(`LockInv`), a revision in progress is its work or is still before recovery
(`OwnedInv`); while nobody has edited the file, it holds the revision's base up to the
write and the target up to the rollback (`StageInv`), and so it does after a crash
(`CrashInv`), which is why the file's hash tells recovery how far a dead apply had
come. `RecoveryTellsTruth` is an action property from it. `ServedInv`, on top of it, follows
the environment through activation and verification: once every key is set, the
environment shows the patch, and the cache is in step with it if nobody built settings
across the clearing, because then every store since reads the new environment.
`AppliedIsServed` is what it says at the commit.

`JanusNatProofs`. `WritersInv`: while the file has its TURN lines, what the holder of
the lock read or wrote is still in it, because the console's file has none and only an
update under the lock brings them back. `IceInv` follows the ICE settings of an update
through file, copies and Janus to the status sidecar.

`MediaProofs`. Frames: `PipeInv`, every page in the pipe is full and at most the
first is partly read, so that the writer's count of bytes and the kernel's count of
pages agree on whether a frame fits. Depth: `DepthInv`, every message number is in one
place of its way from queue to browser, whatever hop loses it; a registered stream is
of its session; and on a topic without skips the unfinished tasks of a queue are the
messages in it and the one the worker has (`BurstSpares`). Player: the operators
are shown to keep a player all right (`PlayerOK`: flags and timers agree with the
state) and to hand on what keeps a reconnect alive (`Follows`); both compose, as the
handlers do. `PlayerInv` adds the runs: `ReconnectAlive` is not inductive, since an
attempt in flight suppresses the next one, so whoever set `inFlight` must still have a
run at work or a settle timer armed (`InFlightAwaited`). `FreshStart` needs that the
latch of the connect flow is open in every resting player.

`CameraBringupProofs`. Two arguments. About any host, without induction:
`HealthyHost`, a status of HEALTHY means that every check is OK, because the only way
for a check to be skipped is a missing camera, which `usb_enumerate` reports; each OK is
then compared with its promise, where the identity needs that exactly one camera is
plugged in (`OneCamera`).
About a run of the recovery: `BringupInv` holds the types of the settings (`HostOK`)
and, for every process whose host nobody changed since it looked (`Undisturbed`), that
its context is still the host's and that the checks behind it are still OK: no fixer
changes what an earlier check reads. With it an exit code 0 is a host on which all
checks are OK at that moment (`ExitZeroMeansFixed`). The lock is held exactly by the
process in its fixing step. `BringupAssumption` asks for one camera at least: the
layer's configuration names the expected one.

Only model-checked: the liveness properties (`PersistentFaultEnds`, `Recovers`,
`SafeIsLeft`, `CriticalTempAnswered`, `Heals`, `NodeUnstuck`, `MuxRecovers`,
`DriftCloses`), since fairness and ENABLED are beyond the prover. Types and phases of the ladder
are proved with `StorageFaults` too; no run sets it, since every other property of the
ladder is stated for a disk that works.

## 6. Where the code does not do what it says

With a run, `relay_worker`: `_forward_worker` acknowledges a message that the rate
limit or the duplicate check drops (`textroom_relay.py:227`, `:232`), and the
`finally` at `:277` acknowledges it again. If no other message is unfinished, the
second `task_done` raises, the topic's task ends, and nothing starts it again. The
comment at `:221` says "drop silently".

Stated in a module without a run: a definition that a doc or comment of the
repository makes and the model refutes. Add it to the cfg named to see the
counterexample.

| Definition (cfg) | The code | What it says |
|---|---|---|
| `SafeMeansStopped` (MCGatewayParts) | `system_mode.py:222` listeners of two changes run after the lock in either order | `mode_enforcer.py:4` |
| `SafeAlwaysLeft` (MCFdirCrash) | `watchdogs.py:208` no auto-reset while the probe raises | `watchdogs.py:49` |
| `RebootsBoundedUntilHealthy` (MCFdirCrash) | `watchdogs.py:169` the auto-reset clears the counter of a node never healthy | `recovery_policy.py:28` |
| `StoppedWhileCritical` (MCFdirCrash) | `recovery_executor.py:158` the ladder restarts the encoder that the temperature stopped | `thermal.py:8` |
| `AnyReusedMountpointFits` (MCGatewayParts) | `mountpoint_admin.py:96` the dashboard creates any id at any port; the pipeline then reuses it and its encoder sends elsewhere | `pipeline.py:171` "idempotent", `:180` "already exists, reusing" |
| `ReconcilerFailSoft` (MCGatewayParts) | an exception outside the handled kinds ends the pass with streams unvisited | `sensor_reconcile.py:9` |
| `StoppedNotResurrected` (MCRemoteHeals, `MaxOps = 3`) | the drift pass tells a stopped binding by its status, which the monitor overwrites with "down" (`remote_stream_monitor.py:105`) | `reconcile_drift.py:35` |
| `NotStuckByException` (MCNodeOperations) | `node_operation_runner.py:31` any exception of the body ends the operation as failed; the node's state stays in progress, and the reaper looks at running operations only | `core/events.py:148` |
| `NeverStuckForever` (MCNodeOperations, `MaxCrashes = 2`) | `node_operation_runner.py:62`: the record is finished before the node is released; a second crash between them leaves the node | `core/events.py:147` |
| `HealthyMeansContract` (MCCameraBringup) | OK without the modprobe file (`c03_uvcvideo.py`), with the device in use (`c06_v4l2.py`), and with `realsense-mux.service` looked up in place of the stream's unit (`c10_smoke.py:25`) | `CONTRACT.md:111`, `:114`, `:118` |
| `SwapNeedsConfirmation` (MCCameraBringup) | `api.py:661` `attempt_recovery` runs the fingerprint fixer too, which signs the camera it finds | `CONTRACT.md:309`, `api.py:715` |
| `HealthyMeansSameCamera` (MCCameraBringup) | `c11_fingerprint.py:92`: no comparison when the baseline has no serial | `CONTRACT.md:119` |
| `AppliedIsCached` (MCRuntimeConfig) | `settings.py:228`: a request that missed before the environment changed stores its old settings between the applier's own miss and store; the applier verifies its own (`runtime_config_apply.py:185`) and the old ones stay cached | `runtime_config_apply.py:5`, `docs/design/B2_RUNTIME_CONFIG_APPLY.md:235` ("Immediate") |
| `RejectedNotServedAfterRestart` (MCRuntimeConfig) | a rollback whose file restore failed is served after a restart | `runtime_config_apply.py:207` |
| `OneReconnect` (MCPageParts) | `reconnect_coordinator.js:275` looks at `_inFlight` before the awaited health check and sets it afterwards (`:309`): an `online` event or a resume in between starts a second run, and two attempts are at work | `SAFETY_LAWS.md:49`, `:93` |
| `ConnectedIsPlaying` (MCPageParts) | `player_controller.js:361`: `_recoveryNotified` is reset on RECONNECTING only, so after play, stop, play no frame takes the second connection from CONNECTING to PLAYING | `player_controller.js:78`, `:634` |
| `PlayingNotTornDown` (MCPageParts) | `reconnect_coordinator.js:309`: a frame recovers the stream during a run's health check, the run goes on, and its attempt, unexpected in PLAYING, fails closed to ERROR | `reconnect_coordinator.js:278` |
| `OneMutator` (MCJanusNat) | `jcfg_renderer.py:200` the console writes `janus.jcfg` without the lock | `CONTRACT.md:306` |

Further observations, from the models or from writing them:

- FDIR: the breaker does not hold when the counter cannot be written or is torn;
  `restart_janus` leaves the encoder stopped until a later level, a listener or a
  reboot starts it; leaving `quiesced()` ends the settle margin at once; a watchdog
  that waits for the ladder lock acts on a signal older than the restart.
- Janus configuration: the console's template drops the TURN lines, after which the
  rotator patches comments and exits 0; an empty mapping is rendered as a
  placeholder; rotator and updater change `janus.jcfg` only, so a later NAT update
  brings the old credentials and mapping back, and the updater, which compares with
  its cache, does not notice; overlapping updates or a lost sidecar write leave
  "applied" for settings that are not live; the updater caches the address before
  the restart that may fail (`janus-nat-updater.sh:94`).
- Producers: a frame that is not a whole number of pages can be cut
  (`realsense-mux.py:190`); a consumer restarted alone in the middle of a frame stays
  misaligned; a FIFO that could not be opened is not tried again; a refused pipe size
  drops every frame; the start limit of the unit can be reached; a query after a pause
  is answered from the old aligned array for up to `ALIGN_IDLE_SEC` + 1 s, flagged as
  stale, where the comment says it falls back to the reprojection (`realsense-mux.py:549`); `depth_events.py:34`
  speaks of several subscribers per session, there is one; the relay's reload
  (`textroom_relay.py:30`) does not exist.
- Runtime configuration: a reader that finishes after a rollback's cache clear can
  cache the rejected value, and a later revision with that value is then found "already
  at target" (`runtime_config_apply.py:161`) and recorded as applied although the file
  holds another one, so a restart drops it; a failing journal write between activation and commit
  leaves "applying"; a corrupt record ends `recover_on_boot` at every boot; pruning may
  remove the revision being applied.
- Bring-up: `LockBusyError` is raised by entering the lock, outside the `try`
  (`fixer.py:341` and `:359`); the command line applies in SAFE mode (`cli.py:45`);
  an exception of `plan()` (`fixer.py:326`, outside any `try`) ends the whole command: a
  baseline that is JSON but no object makes the check an ERROR and every recovery fail
  (`f11_fingerprint.py:55`); the five-second cache of `api.py:394` can store a result older
  than a change it should show.
- Player: a run or backoff timer of a connection given up can take the `_inFlight`
  latch or clear the timer of the present one, after which RECONNECTING has nothing that
  ends it; overlapping runs can exceed `maxReconnectAttempts`; the retry that entering
  ERROR schedules is cleared by the CANCEL_ALL_TIMERS that follows
  (`player_controller.js:1042` promises "full autonomy"; `run_controller_tests.js:850`
  knows); a session reset in PLAYING and an ICE failure in RECONNECTING end in ERROR;
  `stop()` and `detach()` unsubscribe the adapter from its session for good.
- Streams and nodes: the firewall is compared by tag, so a node with a new address
  keeps the old rule (`firewall_sync.py:138`); a damaged journal drops the guard per
  node (`operation_journal.py:40`); a failed rotation is recorded as succeeded
  (`node_operation_runner.py:30`); the secret of a removed node is dropped outside the
  lock (`nodes.py:261`), also when the node has been registered again; the monitor may
  restart an encoder stopped since its copy was taken.

## 7. Not modelled, and the plan

Not modelled: the depth-contract fixture `realsense_mux.py`
(tests only), request/response clients and proxies, secrets, sessions and audit,
consoles, overlays and installer; of modelled components, the quarantine of the
topology file, serial-keyed migration, `turn_probe`, metrics and report formats of
the bring-up layer, the player's rendering, statistics, back channel and the inside of
its Janus adapters. `PROJECT.json` gives the reasons.

Also left out, because no property here depends on it or the state is out of reach: what a depth
reading says, with its age and stale flag; the five-second cache in front of `status()`
(`api.py:90`, `:394`), so that a status read from it may be that much older than the pass of
checks the properties speak of; a serial that two nodes share or that moves between nodes
(`bindings.py:204`, `nodes.py:173`): in `RemoteStreams` each node has its own; the checks of
interface and address of a binding, and the union with the local allocator, whose ids and
ports end below the remote pools; ids outside the pool that the dashboard creates; a journal
whose `finish` fails with an OSError. In `Heals` a node that "answers" is one whose agent
accepts its calls: a refused call is a fault.

Next:

1. The Janus adapters of the player (`janus_session_manager.js`,
   `janus_streaming_adapter.js`): their queue of operations and handle generations, as
   the environment of `Player`.
2. The player's liveness: a player that is visible, online and not crossed leaves
   RECONNECTING, once timers and promises are fair (the browser fires armed timers, and
   health check and attempt have time limits).
