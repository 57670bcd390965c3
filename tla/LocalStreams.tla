---------------------------- MODULE LocalStreams ----------------------------
(***************************************************************************)
(* The streams of the gateway's own camera: the allocator file that gives  *)
(* every stream its Janus mountpoint and RTP port, the lifecycle pipeline  *)
(* that brings a stream up or down (initialize, stop), and the boot        *)
(* reconciler that starts what the file marks as desired.                  *)
(*                                                                         *)
(* A key is <<serial, sensor>>.  The lock of a key serialises the calls    *)
(* about that key only, while the encoder unit rs-stream@<sensor> and its  *)
(* contract file belong to the sensor: the legacy key <<"local", "color">> *)
(* and the key of the real serial share them.                              *)
(***************************************************************************)
EXTENDS Integers, FiniteSets, Sequences, TLC, FiniteSetsExt, Functions

CONSTANTS
    Serial,        \* the serial number of the attached camera
    Sensors,       \* its dynamic sensors: a subset of {"depth", "ir1", "ir2"}
    Admins,        \* request threads of the admin routes
    MpIdMax,       \* MP_ID_MAX, small enough for the pool to run out
    PortMax,       \* PORT_MAX
    DashboardPorts,\* ports the dashboard may name
    MaxFaults,     \* bound on injected failures, damage to the file included
    MaxBoots,      \* bound on reboots of the node
    MaxCalls       \* bound on calls of the admin routes

\* The dynamic sensors are those that are allocated from the pools; color has
\* a slot of its own.
ASSUME LocalAssumption ==
    /\ IsFiniteSet(Sensors) /\ "color" \notin Sensors
    /\ MpIdMax \in Nat /\ PortMax \in Nat

Reconciler == "sensor_reconcile"
Procs == Admins \cup {Reconciler}
LocalSerial == "local"
MpIdMin == 1306
PortMin == 5006
ColorMp == 1305
ColorPort == 5004

LegacyColor == <<LocalSerial, "color">>
ColorKey == <<Serial, "color">>
Keys == {LegacyColor, ColorKey} \cup ({Serial} \X Sensors)
AllSensors == {"color"} \cup Sensors
SensorOf(k) == k[2]

Rows == [mp : {ColorMp} \cup (MpIdMin .. MpIdMax),
         port : {ColorPort} \cup (PortMin .. PortMax), desired : BOOLEAN]
NoRow == [mp |-> 0, port |-> 0, desired |-> FALSE]
NoKey == <<"none", "none">>
Down == 0

VARIABLES
    corrupt,    \* the allocator file exists and does not parse
    alloc,      \* its rows, a partial function on Keys
    contract,   \* port in rs-<sensor>.contract.env, 0 without a file
    unit,       \* Down, or the port rs-stream@<sensor> sends to
    janus,      \* dynamic mountpoints of Janus: a partial function id -> port
    foreign,    \* those of them that were created from the dashboard
    lock,       \* holder of the flock of each key, or "none"
    job,        \* what each process is doing: key, rest of its program, row
    todo,       \* keys the reconciler has planned and not yet visited
    stage,      \* of the reconciler: seed, ensure, desire, plan, loop, done, died
    disturbed,  \* an administrator or a fault acted since the last boot
    damaged,    \* the file was damaged at some time
    faults, boots, calls

localVars == <<corrupt, alloc, contract, unit, janus, foreign, lock, job, todo, stage,
          disturbed, damaged, faults, boots, calls>>
store == <<corrupt, alloc>>
world == <<contract, unit, janus, foreign>>
bounds == <<damaged, faults, boots, calls>>
others == <<damaged, boots, calls>>

Idle == [key |-> NoKey, rest |-> <<>>, row |-> NoRow]

\* The node has just booted, with a file that can be read.
JustBooted ==
    /\ corrupt = FALSE
    /\ unit = [s \in AllSensors |-> Down]
    /\ janus = [m \in {} |-> 0] /\ foreign = {}
    /\ lock = [k \in Keys |-> "none"]
    /\ job = [p \in Procs |-> Idle]
    /\ todo = <<>> /\ stage = "seed"
    /\ disturbed = FALSE
    /\ damaged = FALSE /\ faults = 0 /\ boots = 0 /\ calls = 0

LocalInit ==
    /\ JustBooted
    /\ alloc = [k \in {} |-> NoRow]
    /\ contract = [s \in AllSensors |-> 0]

-----------------------------------------------------------------------------
(* The allocator file.                                                     *)

(* A mutation loads the file first: what does not parse is quarantined and *)
(* replaced by the empty map, so the write that follows drops every row.   *)
LoadForWrite == IF corrupt THEN [k \in {} |-> NoRow] ELSE alloc

(* A reader degrades to no rows at all.                                    *)
LoadForRead == IF corrupt THEN [k \in {} |-> NoRow] ELSE alloc

Persist(rows) == corrupt' = FALSE /\ alloc' = rows

WithRow(rows, k, r) == [x \in DOMAIN rows \cup {k} |-> IF x = k THEN r ELSE rows[x]]

(* Lowest free mountpoint id and lowest free even port whose RTCP          *)
(* neighbour is free too.                                                  *)
FreeMps(rows) == {i \in MpIdMin .. MpIdMax : \A k \in DOMAIN rows : rows[k].mp # i}
UsedPorts(rows) == UNION {{rows[k].port, rows[k].port + 1} : k \in DOMAIN rows}
FreePorts(rows) ==
    {p \in PortMin .. PortMax - 1 :
        (p - PortMin) % 2 = 0 /\ {p, p + 1} \cap UsedPorts(rows) = {}}
PickFreeByCount(rows) ==
    [mp |-> Min(FreeMps(rows)), port |-> PortMin + 2 * Cardinality(DOMAIN rows),
     desired |-> FALSE]
PickFree(rows) ==
    [mp |-> Min(FreeMps(rows)), port |-> Min(FreePorts(rows)), desired |-> FALSE]

(* A static slot that another row holds is refused, never taken over.      *)
ClobbersUnchecked(rows, r) == FALSE
Clobbers(rows, r) ==
    \E k \in DOMAIN rows :
        rows[k].mp = r.mp \/ {r.port, r.port + 1} \cap {rows[k].port, rows[k].port + 1} # {}

ColorRow == [mp |-> ColorMp, port |-> ColorPort, desired |-> FALSE]

-----------------------------------------------------------------------------
(* The pipeline.  A call is the sequence of steps it has still to take.    *)

InitializeStepsWithoutMountpoint(k) ==
    IF SensorOf(k) = "color"
    THEN <<"lock", "migrate", "ensure", "contract", "desire", "mux", "start", "check">>
    ELSE <<"lock", "allocate", "mux", "contract", "start", "check", "desire">>
InitializeSteps(k) ==
    IF SensorOf(k) = "color"
    THEN <<"lock", "migrate", "ensure", "contract", "desire", "mux", "start", "check">>
    ELSE <<"lock", "allocate", "mux", "contract", "create", "start", "check", "desire">>

StopSteps(k) ==
    IF SensorOf(k) = "color"
    THEN <<"lock", "migrate", "undesire", "halt">>
    ELSE <<"lock", "undesire", "halt", "destroy">>

Doing(p, step) == job[p].rest # <<>> /\ Head(job[p].rest) = step
Key(p) == job[p].key

(* The last step returns: the lock is given back on every exit path.       *)
Ends(p) ==
    /\ job' = [job EXCEPT ![p] = Idle]
    /\ lock' = [k \in Keys |-> IF lock[k] = p THEN "none" ELSE lock[k]]

(* LifecycleError is reported to the caller; the reconciler goes on.       *)
Fails(p) == Ends(p) /\ UNCHANGED stage

(* Any other exception ends the reconciler.                                *)
Raises(p) ==
    /\ Ends(p)
    /\ stage' = IF p = Reconciler THEN "died" ELSE stage

Advance(p, row) ==
    IF Len(job[p].rest) = 1
    THEN Ends(p)
    ELSE /\ job' = [job EXCEPT ![p].rest = Tail(@), ![p].row = row]
         /\ UNCHANGED lock

Goes(p) == Advance(p, job[p].row) /\ UNCHANGED stage

Fault == faults < MaxFaults /\ faults' = faults + 1 /\ disturbed' = TRUE
NoFault == UNCHANGED <<faults, disturbed>>

TakeLock(p) ==
    /\ Doing(p, "lock")
    /\ \/ /\ lock[Key(p)] = "none"
          /\ lock' = [lock EXCEPT ![Key(p)] = p]
          /\ job' = [job EXCEPT ![p].rest = Tail(@)]
          /\ NoFault
       \/ /\ lock[Key(p)] # "none"      \* busy for longer than the timeout
          /\ job' = [job EXCEPT ![p] = Idle]
          /\ UNCHANGED lock /\ NoFault
       \/ /\ Fault                      \* no lock file: go on without the lock
          /\ job' = [job EXCEPT ![p].rest = Tail(@)]
          /\ UNCHANGED lock
    /\ UNCHANGED <<store, world, todo, stage, others>>

(* local:color becomes <serial>:color, once.                               *)
MigrateColorKey(p) ==
    /\ Doing(p, "migrate")
    /\ LET rows == LoadForWrite IN
       IF Key(p) = LegacyColor
       THEN UNCHANGED store
       ELSE Persist(IF LegacyColor \in DOMAIN rows /\ ColorKey \notin DOMAIN rows
                    THEN WithRow(Restrict(rows, DOMAIN rows \ {LegacyColor}),
                                 ColorKey, rows[LegacyColor])
                    ELSE rows)
    /\ Goes(p) /\ NoFault
    /\ UNCHANGED <<world, todo, others>>

EnsureColor(p) ==
    /\ Doing(p, "ensure")
    /\ LET rows == LoadForWrite
           k == Key(p)
       IN \/ /\ k \in DOMAIN rows
             /\ Persist(rows) /\ Advance(p, rows[k]) /\ UNCHANGED stage
          \/ /\ k \notin DOMAIN rows /\ ~Clobbers(rows, ColorRow)
             /\ Persist(WithRow(rows, k, ColorRow))
             /\ Advance(p, ColorRow) /\ UNCHANGED stage
          \/ /\ k \notin DOMAIN rows /\ Clobbers(rows, ColorRow)
             /\ UNCHANGED store /\ Raises(p)
    /\ NoFault /\ UNCHANGED <<world, todo, others>>

AllocateAfresh(p) ==
    /\ Doing(p, "allocate")
    /\ LET rows == LoadForWrite IN
       /\ FreeMps(rows) # {} /\ FreePorts(rows) # {}
       /\ Persist(WithRow(rows, Key(p), PickFree(rows)))
       /\ Advance(p, PickFree(rows)) /\ UNCHANGED stage
    /\ NoFault /\ UNCHANGED <<world, todo, others>>

Allocate(p) ==
    /\ Doing(p, "allocate")
    /\ LET rows == LoadForWrite
           k == Key(p)
       IN \/ /\ k \in DOMAIN rows
             /\ Persist(rows) /\ Advance(p, rows[k]) /\ UNCHANGED stage
          \/ /\ k \notin DOMAIN rows
             /\ FreeMps(rows) # {} /\ FreePorts(rows) # {}
             /\ Persist(WithRow(rows, k, PickFree(rows)))
             /\ Advance(p, PickFree(rows)) /\ UNCHANGED stage
          \/ /\ k \notin DOMAIN rows
             /\ FreeMps(rows) = {} \/ FreePorts(rows) = {}
             /\ UNCHANGED store /\ Raises(p)
    /\ NoFault /\ UNCHANGED <<world, todo, others>>

(* set_desired(True): no row is a KeyError, which only stop() catches.     *)
SetDesired(p) ==
    /\ Doing(p, "desire")
    /\ LET rows == LoadForWrite
           k == Key(p)
       IN \/ /\ k \in DOMAIN rows
             /\ Persist([rows EXCEPT ![k].desired = TRUE]) /\ Goes(p)
          \/ k \notin DOMAIN rows /\ UNCHANGED store /\ Raises(p)
    /\ NoFault /\ UNCHANGED <<world, todo, others>>

ClearDesired(p) ==
    /\ Doing(p, "undesire")
    /\ LET rows == LoadForWrite
           k == Key(p)
       IN IF k \in DOMAIN rows
          THEN Persist([rows EXCEPT ![k].desired = FALSE])
          ELSE UNCHANGED store
    /\ Goes(p) /\ NoFault
    /\ UNCHANGED <<world, todo, others>>

WriteContract(p) ==
    /\ Doing(p, "contract")
    /\ contract' = [contract EXCEPT
                       ![SensorOf(Key(p))] = IF SensorOf(Key(p)) = "color"
                                             THEN ColorPort ELSE job[p].row.port]
    /\ Goes(p) /\ NoFault
    /\ UNCHANGED <<store, unit, janus, foreign, todo, others>>

(* A command that fails is a LifecycleError; one that runs into its        *)
(* timeout is not: TimeoutExpired is no RuntimeError.                      *)
CommandFails(p) == (Fails(p) \/ Raises(p)) /\ Fault

(* The producer that all encoders of the camera read from.                 *)
StartMux(p) ==
    /\ Doing(p, "mux")
    /\ \/ Goes(p) /\ NoFault
       \/ CommandFails(p)
    /\ UNCHANGED <<store, world, todo, others>>

(* "already exists" counts as success, without a look at the port the      *)
(* existing mountpoint listens on.                                         *)
CreateMountpoint(p) ==
    /\ Doing(p, "create")
    /\ \/ /\ janus' = [m \in DOMAIN janus \cup {job[p].row.mp} |->
                         IF m \in DOMAIN janus THEN janus[m] ELSE job[p].row.port]
          /\ Goes(p) /\ NoFault
       \/ UNCHANGED janus /\ Fails(p) /\ Fault
    /\ UNCHANGED <<store, contract, unit, foreign, todo, others>>

(* systemctl start leaves a running unit alone; a starting one reads its   *)
(* contract.                                                               *)
StartUnit(p) ==
    /\ Doing(p, "start")
    /\ LET s == SensorOf(Key(p))
           started == [unit EXCEPT ![s] = IF @ = Down THEN contract[s] ELSE @]
       IN \/ unit' = started /\ Goes(p) /\ NoFault
          \/ UNCHANGED unit /\ CommandFails(p)
          \/ unit' = started /\ Raises(p) /\ Fault     \* timed out, yet done
    /\ UNCHANGED <<store, contract, janus, foreign, todo, others>>

(* is_running: False is an error, None (the probe failed) is not, and a    *)
(* probe that times out raises; a dynamic stream then waits for media and  *)
(* goes on without it.                                                     *)
CheckUnit(p) ==
    /\ Doing(p, "check")
    /\ \/ unit[SensorOf(Key(p))] # Down /\ Goes(p) /\ NoFault
       \/ unit[SensorOf(Key(p))] = Down /\ Fails(p) /\ NoFault
       \/ (Goes(p) \/ Raises(p)) /\ Fault
    /\ UNCHANGED <<store, world, todo, others>>

StopUnit(p) ==
    /\ Doing(p, "halt")
    /\ LET stopped == [unit EXCEPT ![SensorOf(Key(p))] = Down]
       IN \/ unit' = stopped /\ Goes(p) /\ NoFault
          \/ UNCHANGED unit /\ CommandFails(p)
          \/ unit' = stopped /\ Raises(p) /\ Fault     \* timed out, yet done
    /\ UNCHANGED <<store, contract, janus, foreign, todo, others>>

(* Janus forgets mountpoints.                                              *)
Forget(ms) == janus' = Restrict(janus, DOMAIN janus \ ms) /\ foreign' = foreign \ ms

(* The mountpoint of the row as it is now; a Janus error, such as a secret *)
(* that is not the pipeline's, is only logged.                             *)
DestroyMountpoint(p) ==
    /\ Doing(p, "destroy")
    /\ LET mine == {LoadForRead[k].mp : k \in {Key(p)} \cap DOMAIN LoadForRead} IN
       \/ Forget(mine) /\ NoFault
       \/ mine \cap foreign # {} /\ UNCHANGED <<janus, foreign>> /\ NoFault
       \/ UNCHANGED <<janus, foreign>> /\ Fault
    /\ Goes(p)
    /\ UNCHANGED <<store, contract, unit, todo, others>>

PipelineStep(p) ==
    \/ TakeLock(p) \/ MigrateColorKey(p) \/ EnsureColor(p) \/ Allocate(p)
    \/ SetDesired(p) \/ ClearDesired(p) \/ WriteContract(p) \/ StartMux(p)
    \/ CreateMountpoint(p) \/ StartUnit(p) \/ CheckUnit(p) \/ StopUnit(p)
    \/ DestroyMountpoint(p)

-----------------------------------------------------------------------------
(* The admin routes.                                                       *)

Calls(p, k, steps) ==
    /\ job' = [job EXCEPT ![p] = [key |-> k, rest |-> steps, row |-> NoRow]]
    /\ disturbed' = TRUE
    /\ calls < MaxCalls /\ calls' = calls + 1
    /\ UNCHANGED <<store, world, lock, todo, stage, faults, damaged, boots>>

(* The serial is that of the allocations, else that of the probe; without  *)
(* either only color can be started, under the legacy key.                 *)
ActivateLocal(p) ==
    /\ job[p] = Idle
    /\ \E k \in Keys :
          /\ k = LegacyColor => \A r \in DOMAIN LoadForRead : r[1] # Serial
          /\ Calls(p, k, InitializeSteps(k))

(* The device routes name the serial themselves.                           *)
InitializeSensor(p) ==
    /\ job[p] = Idle
    /\ \E k \in Keys \ {LegacyColor} : Calls(p, k, InitializeSteps(k))

StopLocal(p) ==
    /\ job[p] = Idle
    /\ \E k \in Keys : Calls(p, k, StopSteps(k))

(* The dashboard creates a mountpoint with any id at any port, and         *)
(* destroys any, past the allocator and its locks.  Only the ids of the    *)
(* pool can meet the pipeline.                                             *)
DashboardCall ==
    /\ disturbed' = TRUE
    /\ calls < MaxCalls /\ calls' = calls + 1
    /\ UNCHANGED <<store, contract, unit, lock, job, todo, stage, faults, damaged, boots>>

DashboardCreates ==
    /\ \E m \in (MpIdMin .. MpIdMax) \ DOMAIN janus, port \in DashboardPorts :
          /\ janus' = [x \in DOMAIN janus \cup {m} |-> IF x = m THEN port ELSE janus[x]]
          /\ foreign' = foreign \cup {m}
    /\ DashboardCall

DashboardDestroys == (\E m \in DOMAIN janus : Forget({m})) /\ DashboardCall

-----------------------------------------------------------------------------
(* The boot reconciler.                                                    *)

SeedIfEmpty ==
    /\ stage = "seed"
    /\ stage' = IF DOMAIN LoadForRead = {} THEN "ensure" ELSE "plan"
    /\ UNCHANGED <<store, world, lock, job, todo, disturbed, bounds>>

(* The default, color on, is two separate writes of the file, and an       *)
(* administrator may be first: then the guard of ensure, or the missing    *)
(* row, ends the reconciler.                                               *)
SeedColor ==
    /\ LET rows == LoadForWrite IN
       \/ /\ stage = "ensure" /\ LegacyColor \in DOMAIN rows
          /\ Persist(rows) /\ stage' = "desire"
       \/ /\ stage = "ensure" /\ LegacyColor \notin DOMAIN rows
          /\ ~Clobbers(rows, ColorRow)
          /\ Persist(WithRow(rows, LegacyColor, ColorRow)) /\ stage' = "desire"
       \/ /\ stage = "ensure" /\ LegacyColor \notin DOMAIN rows
          /\ Clobbers(rows, ColorRow)
          /\ UNCHANGED store /\ stage' = "died"
       \/ /\ stage = "desire" /\ LegacyColor \in DOMAIN rows
          /\ Persist([rows EXCEPT ![LegacyColor].desired = TRUE]) /\ stage' = "plan"
       \/ /\ stage = "desire" /\ LegacyColor \notin DOMAIN rows
          /\ UNCHANGED store /\ stage' = "died"
    /\ UNCHANGED <<world, lock, job, todo, disturbed, bounds>>

(* Color before the others; the order of the others is that of the keys.   *)
Plan ==
    /\ stage = "plan"
    /\ LET desired == {k \in DOMAIN LoadForRead : LoadForRead[k].desired}
           orders == {q \in UNION {[1 .. n -> desired] : n \in {Cardinality(desired)}} :
                        /\ IsInjective(q)
                        /\ \A i, j \in DOMAIN q :
                             SensorOf(q[j]) = "color" /\ SensorOf(q[i]) # "color" => j < i}
       IN \E q \in orders : todo' = q
    /\ stage' = "loop"
    /\ UNCHANGED <<store, world, lock, job, disturbed, bounds>>

(* A stream whose unit already runs is left alone.  A probe that fails     *)
(* leaves it to initialize, one that times out ends the reconciler.        *)
ReconcileStream ==
    /\ stage = "loop" /\ job[Reconciler] = Idle
    /\ \/ todo = <<>> /\ stage' = "done" /\ UNCHANGED <<job, todo>> /\ NoFault
       \/ /\ todo # <<>> /\ unit[SensorOf(Head(todo))] # Down
          /\ todo' = Tail(todo) /\ UNCHANGED <<job, stage>> /\ NoFault
       \/ /\ todo # <<>>
          /\ (unit[SensorOf(Head(todo))] = Down /\ NoFault) \/ Fault
          /\ job' = [job EXCEPT ![Reconciler] =
                       [key |-> Head(todo), rest |-> InitializeSteps(Head(todo)), row |-> NoRow]]
          /\ todo' = Tail(todo) /\ UNCHANGED stage
       \/ todo # <<>> /\ stage' = "died" /\ UNCHANGED <<job, todo>> /\ Fault
    /\ UNCHANGED <<store, world, lock, others>>

-----------------------------------------------------------------------------
(* The environment.                                                        *)

(* The file is damaged from outside: a bad edit, a disk error.             *)
FileCorrupted ==
    /\ Fault /\ corrupt' = TRUE /\ damaged' = TRUE
    /\ UNCHANGED <<alloc, world, lock, job, todo, stage, boots, calls>>

(* A Janus restart forgets its dynamic mountpoints.                        *)
JanusRestarts ==
    /\ Fault /\ janus' = [m \in {} |-> 0] /\ foreign' = {}
    /\ UNCHANGED <<store, contract, unit, lock, job, todo, stage, others>>

(* An encoder dies, or its unit is restarted and reads its contract again. *)
EncoderDies ==
    /\ Fault
    /\ \E s \in AllSensors : \E port \in {Down, contract[s]} :
          unit[s] # Down /\ unit' = [unit EXCEPT ![s] = port]
    /\ UNCHANGED <<store, contract, janus, foreign, lock, job, todo, stage, others>>

(* The control-plane process dies: its flocks go with it.                  *)
ControlPlaneDies ==
    /\ Fault
    /\ job' = [p \in Procs |-> IF p = Reconciler THEN job[p] ELSE Idle]
    /\ lock' = [k \in Keys |-> IF lock[k] = Reconciler THEN Reconciler ELSE "none"]
    /\ UNCHANGED <<store, world, todo, stage, others>>

NodeBoots ==
    /\ boots < MaxBoots /\ boots' = boots + 1
    /\ unit' = [s \in AllSensors |-> Down]
    /\ janus' = [m \in {} |-> 0] /\ foreign' = {}
    /\ lock' = [k \in Keys |-> "none"] /\ job' = [p \in Procs |-> Idle]
    /\ todo' = <<>> /\ stage' = "seed" /\ disturbed' = FALSE
    /\ UNCHANGED <<store, contract, faults, damaged, calls>>

Environment ==
    FileCorrupted \/ JanusRestarts \/ EncoderDies \/ ControlPlaneDies \/ NodeBoots

LocalNext ==
    \/ \E p \in Procs : PipelineStep(p)
    \/ \E p \in Admins : ActivateLocal(p) \/ InitializeSensor(p) \/ StopLocal(p)
    \/ DashboardCreates \/ DashboardDestroys
    \/ SeedIfEmpty \/ SeedColor \/ Plan \/ ReconcileStream
    \/ Environment

LocalSpec == LocalInit /\ [][LocalNext]_localVars

-----------------------------------------------------------------------------
(* Properties.                                                             *)

(* The file, the units and the calls in flight are well formed.            *)
LocalTypeOK ==
    /\ corrupt \in BOOLEAN
    /\ DOMAIN alloc \subseteq Keys /\ \A k \in DOMAIN alloc : alloc[k] \in Rows
    /\ \A s \in AllSensors : unit[s] \in {Down} \cup Nat /\ contract[s] \in Nat
    /\ DOMAIN janus \subseteq MpIdMin .. MpIdMax /\ foreign \subseteq DOMAIN janus
    /\ damaged \in BOOLEAN /\ disturbed \in BOOLEAN
    /\ \A k \in Keys : lock[k] \in Procs \cup {"none"}
    /\ \A p \in Procs : job[p].key \in Keys \cup {NoKey}
    /\ todo \in Seq(Keys) /\ stage \in {"seed", "ensure", "desire", "plan", "loop", "done", "died"}

(* Two streams never share a mountpoint, an RTP port or the RTCP port      *)
(* beside it, whatever order activations, migrations of the color key and  *)
(* resets of a damaged file come in (mountpoint_allocator.py:187-278).     *)
SlotsDisjoint ==
    \A k1, k2 \in DOMAIN alloc :
        k1 # k2 => /\ alloc[k1].mp # alloc[k2].mp
                   /\ {alloc[k1].port, alloc[k1].port + 1}
                        \cap {alloc[k2].port, alloc[k2].port + 1} = {}

(* create_mountpoint takes "already exists" for success without comparing  *)
(* ports (pipeline.py:178-183).  For what the pipeline itself has created  *)
(* that is safe, because the allocator hands out an id with the same port  *)
(* for ever: a mountpoint left in Janus by an earlier life of the file     *)
(* listens where the new owner of its id sends.  A mountpoint that was     *)
(* created from the dashboard is excepted.                                 *)
ReusedMountpointFits ==
    \A k \in DOMAIN alloc :
        alloc[k].mp \in DOMAIN janus \ foreign => janus[alloc[k].mp] = alloc[k].port

(* The same without the exception: "idempotent" (pipeline.py:171), and     *)
(* "already exists, reusing" (:180), whoever created the mountpoint.       *)
AnyReusedMountpointFits ==
    \A k \in DOMAIN alloc :
        alloc[k].mp \in DOMAIN janus => janus[alloc[k].mp] = alloc[k].port

(* As long as the file was never damaged, every encoder that runs sends to *)
(* the port of its own row, across crashes in the middle of initialize,    *)
(* restarts of the encoder and reboots (pipeline.py:157-186).              *)
EncoderSendsToItsRow ==
    ~damaged =>
        \A k \in DOMAIN alloc :
            unit[SensorOf(k)] # Down => unit[SensorOf(k)] = alloc[k].port

(* A boot that nothing disturbs brings up every stream the file marks as   *)
(* desired, each with its mountpoint (sensor_reconcile.py:100-160).        *)
BootBringsUp ==
    stage \in {"done", "died"} /\ ~disturbed =>
        /\ stage = "done"
        /\ \A k \in DOMAIN alloc : alloc[k].desired =>
              /\ unit[SensorOf(k)] = alloc[k].port
              /\ SensorOf(k) # "color" => alloc[k].mp \in DOMAIN janus

(* "Fail-soft - one failed stream does not block siblings"                 *)
(* (sensor_reconcile.py:9): the reconciler never ends with streams of its  *)
(* plan unvisited.                                                         *)
ReconcilerFailSoft == stage = "died" => todo = <<>>
=============================================================================
