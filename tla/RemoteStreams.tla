---------------------------- MODULE RemoteStreams ---------------------------
(***************************************************************************)
(* The streams of remote camera nodes: the topology file (nodes and stream *)
(* bindings), the use cases of the admin API that change it, the Janus     *)
(* mountpoints and firewall rules the gateway keeps for it, the encoders   *)
(* on the nodes, and the monitor that heals them.                          *)
(*                                                                         *)
(* Every read or write of the topology file is one step under its flock; a *)
(* use case is a sequence of such steps and of calls to Janus, to the node *)
(* agent or to iptables, with nothing held in between.  The monitor works  *)
(* through a copy of the file that it takes at the start of a tick.        *)
(***************************************************************************)
EXTENDS Integers, FiniteSets, Sequences, TLC, FiniteSetsExt, Functions

CONSTANTS
    Nodes,       \* node ids the administrator may register
    Sensors,     \* sensors a node has
    Hosts,       \* addresses
    Clients,     \* request threads and operation threads of the control plane
    Onboarded,   \* the nodes whose streams are active in the initial state
    Window,      \* width of a node's window of mountpoints and port pairs
    Throttle,    \* ticks between two attempts to converge one binding
    MaxOps,      \* bound on use cases started
    MaxFaults    \* bound on faults

\* A node's window holds the slots of all its sensors.
ASSUME RemoteAssumption ==
    /\ Onboarded \subseteq Nodes /\ IsFiniteSet(Nodes) /\ IsFiniteSet(Sensors)
    /\ Window \in Nat /\ Cardinality(Sensors) <= Window

RemoteMpMin == 2000
RemotePortMin == 5100

(* A binding is named by its node until the probe has recorded the serial  *)
(* of the node's camera, by that serial afterwards.                        *)
Ids == {"node", "serial"} \X Nodes \X Sensors

VARIABLES
    nodes,      \* registered nodes: ordinal, host, serial known, maintenance
    bind,       \* stored bindings, a partial function on Ids
    janus,      \* remote mountpoints of Janus: id -> port
    rules,      \* ACCEPT rules of the firewall
    contract,   \* per node and sensor: port its encoder is told, 0 if none
    enc,        \* per node and sensor: port it sends to, 0 when not sending
    reachable,  \* nodes whose agent answers
    job,        \* what every thread is doing
    mon,        \* the monitor: rows of its copy still to visit, current row
    memory,     \* what it remembers of a binding: healthy, ticks since acted
    ops, faults

vars == <<nodes, bind, janus, rules, contract, enc, reachable, job, mon, memory, ops, faults>>
store == <<nodes, bind>>
remote == <<contract, enc, reachable>>
monitor == <<mon, memory>>
counts == <<ops, faults>>

NoId == <<"none", "none", "none">>
NoSlot == [mp |-> 0, port |-> 0]
NoRow == [node |-> "none", sensor |-> "none", mp |-> 0, port |-> 0, up |-> FALSE,
          fdir |-> FALSE, status |-> "none"]
Idle == [rest |-> <<>>, id |-> NoId, slot |-> NoSlot, todo |-> {}, add |-> {}, drop |-> {}]
Resting == [step |-> "rest", left |-> {}, id |-> NoId, row |-> NoRow, healthy |-> FALSE,
            heal |-> FALSE]
Fresh == [healthy |-> FALSE, since |-> Throttle]

Sweeper == "reconcile_janus_boot"
Threads == Clients \cup {Sweeper}

NodeOf(id) == id[2]
SensorOf(id) == id[3]

\* A mapping with one entry written.
With(f, k, v) == [x \in DOMAIN f \cup {k} |-> IF x = k THEN v ELSE f[x]]

-----------------------------------------------------------------------------
(* Slots.                                                                  *)

MpWindow(o) == RemoteMpMin + o * Window .. RemoteMpMin + (o + 1) * Window - 1
PortWindow(o) == {RemotePortMin + 2 * (o * Window + i) : i \in 0 .. Window - 1}
UsedMps(rows) == {rows[k].mp : k \in DOMAIN rows}
UsedPorts(rows) == UNION {{rows[k].port, rows[k].port + 1} : k \in DOMAIN rows}
FreeMps(rows, o) == MpWindow(o) \ UsedMps(rows)
FreePorts(rows, o) == {p \in PortWindow(o) : {p, p + 1} \cap UsedPorts(rows) = {}}

MintOrdinal == Min({o \in 0 .. Cardinality(Nodes) : \A n \in DOMAIN nodes : nodes[n].ord # o})

(* remote_binding_id                                                       *)
BindingId(n, s, serialKnown) == IF serialKnown THEN <<"serial", n, s>> ELSE <<"node", n, s>>

NewRow(id, slot) ==
    [node |-> NodeOf(id), sensor |-> SensorOf(id), mp |-> slot.mp, port |-> slot.port,
     up |-> TRUE, fdir |-> TRUE, status |-> "offline"]

SlotTakenUnchecked(id, slot) == FALSE
(* _validate_remote: the id fits the node as it is now, the slot is of the *)
(* remote pools, above all that local streams use, the port is even, and   *)
(* neither mountpoint nor port pair belongs to another binding.            *)
SlotTaken(id, slot) ==
    LET others == Restrict(bind, DOMAIN bind \ {id}) IN
    slot.mp \in UsedMps(others) \/ {slot.port, slot.port + 1} \cap UsedPorts(others) # {}

Valid(id, slot) ==
    /\ NodeOf(id) \in DOMAIN nodes
    /\ id \in {BindingId(NodeOf(id), SensorOf(id), FALSE),
               BindingId(NodeOf(id), SensorOf(id), nodes[NodeOf(id)].serial)}
    /\ slot.mp >= RemoteMpMin /\ slot.port >= RemotePortMin /\ slot.port % 2 = 0
    /\ ~SlotTaken(id, slot)

(* What the firewall should accept: one rule per binding and host.         *)
DesiredRules ==
    {[tag |-> <<id, bind[id].port>>, host |-> nodes[bind[id].node].host] :
        id \in {i \in DOMAIN bind : bind[i].node \in DOMAIN nodes}}

Open(n, port) ==
    \E r \in rules : n \in DOMAIN nodes /\ r.host = nodes[n].host /\ r.tag[2] = port

(* RTP arrives at a mountpoint.                                            *)
Arrives(mp) ==
    /\ mp \in DOMAIN janus
    /\ \E n \in Nodes, s \in Sensors : enc[n][s] = janus[mp] /\ Open(n, janus[mp])

(* An initial topology: every stream of the onboarded nodes was activated. *)
Numbering(S) == CHOOSE f \in [S -> 0 .. Cardinality(S) - 1] : IsInjective(f)

RemoteInit ==
    LET ord == Numbering(Onboarded)
        pos == Numbering(Sensors)
        slotOf(n, s) == [mp |-> RemoteMpMin + ord[n] * Window + pos[s],
                         port |-> RemotePortMin + 2 * (ord[n] * Window + pos[s])]
    IN
    /\ nodes = [n \in Onboarded |->
                  [ord |-> ord[n], host |-> CHOOSE h \in Hosts : TRUE, serial |-> TRUE,
                   maint |-> FALSE]]
    /\ bind = [id \in {"serial"} \X Onboarded \X Sensors |->
                 [NewRow(id, slotOf(NodeOf(id), SensorOf(id))) EXCEPT !.status = "online"]]
    /\ janus = [m \in UsedMps(bind) |->
                  (CHOOSE r \in {bind[id] : id \in DOMAIN bind} : r.mp = m).port]
    /\ rules = DesiredRules
    /\ contract = [n \in Nodes |->
                     [s \in Sensors |-> IF n \in Onboarded THEN slotOf(n, s).port ELSE 0]]
    /\ enc = contract
    /\ reachable = Nodes
    /\ job = [c \in Threads |-> Idle]
    /\ mon = Resting /\ memory = [id \in Ids |-> Fresh]
    /\ ops = 0 /\ faults = 0

-----------------------------------------------------------------------------
(* The use cases.  A thread holds the steps it has still to take.          *)

(* A caller may name the mountpoint, the port or both, well or badly: what *)
(* it names is not allocated.  Some of the values it may name:             *)
NamedMps == {0, RemoteMpMin - 1, RemoteMpMin}
NamedPorts == {0, RemotePortMin - 2, RemotePortMin, RemotePortMin + 1}
Create(slot) ==
    <<"lookup">> \o (IF slot.mp = 0 THEN <<"allocMp">> ELSE <<>>)
    \o (IF slot.port = 0 THEN <<"allocPort">> ELSE <<>>) \o <<"upsert">>
Activate == <<"lookup", "find", "allocMp", "allocPort", "upsert", "ensure", "waiting",
              "activate", "plan", "apply">>
Ensure == <<"get", "ensure", "waiting">>
Restart == <<"get", "desire", "tryEnsure", "agentRestart">>
(* set_tuning: the agent writes the file and restarts the encoder,         *)
(* whether it was running or stopped.                                      *)
Tune == <<"get", "agentRestart">>
Stop == <<"get", "agentStop", "offline", "undesire">>
Remove == <<"get", "destroy", "drop">>
Delete == <<"list", "teardown", "removeNode", "plan", "apply">>
Deprovision == <<"list", "quit", "teardown", "removeNode", "plan", "apply">>
Firewall == <<"plan", "apply">>
RunOnce == <<"drift", "converge">>
Sweep == <<"sweep", "converge">>

At(c, step) == job[c].rest # <<>> /\ Head(job[c].rest) = step
Continue(c, j) == job' = [job EXCEPT ![c] = IF Len(j.rest) = 1 THEN Idle
                                            ELSE [j EXCEPT !.rest = Tail(@)]]
Goes(c) == Continue(c, job[c])
Ends(c) == job' = [job EXCEPT ![c] = Idle]

(* A sensor that cannot be activated does not keep the operation from      *)
(* reconciling the firewall; every other use case ends with its error.     *)
Fails(c) ==
    IF "activate" \in Range(job[c].rest)
    THEN job' = [job EXCEPT ![c].rest = Firewall]
    ELSE Ends(c)

Fault == faults < MaxFaults /\ faults' = faults + 1
NoFault == UNCHANGED faults

Lookup(c) ==
    /\ At(c, "lookup")
    /\ LET n == NodeOf(job[c].id) IN
       IF n \in DOMAIN nodes
       THEN Continue(c, [job[c] EXCEPT
                           !.id = BindingId(n, SensorOf(job[c].id), nodes[n].serial)])
       ELSE Ends(c)
    /\ UNCHANGED <<store, janus, rules, remote, monitor, counts>>

(* Re-activation keeps the slot of the binding it finds.                   *)
Find(c) ==
    /\ At(c, "find")
    /\ LET id == job[c].id IN
       IF id \in DOMAIN bind
       THEN job' = [job EXCEPT ![c].slot = [mp |-> bind[id].mp, port |-> bind[id].port],
                               ![c].rest = Tail(Tail(Tail(@)))]
       ELSE Goes(c)
    /\ UNCHANGED <<store, janus, rules, remote, monitor, counts>>

(* Allocation is advisory: a read of the file, nothing is reserved.        *)
AllocateMountpoint(c) ==
    /\ At(c, "allocMp")
    /\ LET n == NodeOf(job[c].id) IN
       IF n \in DOMAIN nodes /\ FreeMps(bind, nodes[n].ord) # {}
       THEN Continue(c, [job[c] EXCEPT !.slot.mp = Min(FreeMps(bind, nodes[n].ord))])
       ELSE Fails(c)
    /\ UNCHANGED <<store, janus, rules, remote, monitor, counts>>

AllocatePort(c) ==
    /\ At(c, "allocPort")
    /\ LET n == NodeOf(job[c].id) IN
       IF n \in DOMAIN nodes /\ FreePorts(bind, nodes[n].ord) # {}
       THEN Continue(c, [job[c] EXCEPT !.slot.port = Min(FreePorts(bind, nodes[n].ord))])
       ELSE Fails(c)
    /\ UNCHANGED <<store, janus, rules, remote, monitor, counts>>

UpsertBinding(c) ==
    /\ At(c, "upsert")
    /\ IF Valid(job[c].id, job[c].slot)
       THEN bind' = With(bind, job[c].id, NewRow(job[c].id, job[c].slot)) /\ Goes(c)
       ELSE UNCHANGED bind /\ Fails(c)
    /\ UNCHANGED <<nodes, janus, rules, remote, monitor, counts>>

(* create_mountpoint, and what is made of an id that is taken already.     *)
PortBound(slot) == \E m \in DOMAIN janus \ {slot.mp} : janus[m] = slot.port
EnsureJanus(slot, outcome) ==
    \/ /\ outcome = "created" /\ slot.mp \notin DOMAIN janus /\ ~PortBound(slot)
       /\ janus' = With(janus, slot.mp, slot.port) /\ NoFault
    \/ /\ outcome = "exists" /\ slot.mp \in DOMAIN janus /\ janus[slot.mp] = slot.port
       /\ UNCHANGED janus /\ NoFault
    \/ /\ outcome = "conflict" /\ slot.mp \in DOMAIN janus /\ janus[slot.mp] # slot.port
       /\ UNCHANGED janus /\ NoFault
    \/ /\ outcome = "failed" /\ slot.mp \notin DOMAIN janus /\ PortBound(slot)
       /\ UNCHANGED janus /\ NoFault
    \/ outcome = "failed" /\ UNCHANGED janus /\ Fault
    \/ /\ outcome = "exists" /\ slot.mp \in DOMAIN janus    \* the list cannot be read
       /\ UNCHANGED janus /\ Fault

EnsureStep(c) ==
    /\ At(c, "ensure")
    /\ \E outcome \in {"created", "exists", "conflict", "failed"} :
         /\ EnsureJanus(job[c].slot, outcome)
         /\ IF outcome \in {"created", "exists"} THEN Goes(c) ELSE Fails(c)
    /\ UNCHANGED <<store, rules, remote, monitor, ops>>

TryEnsure(c) ==
    /\ At(c, "tryEnsure")
    /\ \E outcome \in {"created", "exists", "conflict", "failed"} :
         EnsureJanus(job[c].slot, outcome)
    /\ Goes(c)
    /\ UNCHANGED <<store, rules, remote, monitor, ops>>

GetBinding(c) ==
    /\ At(c, "get")
    /\ LET id == job[c].id IN
       IF id \in DOMAIN bind
       THEN Continue(c, [job[c] EXCEPT !.slot = [mp |-> bind[id].mp, port |-> bind[id].port]])
       ELSE Ends(c)
    /\ UNCHANGED <<store, janus, rules, remote, monitor, counts>>

(* A setter of one field: KeyError when the binding is gone.               *)
SetWaiting(c) ==
    /\ At(c, "waiting")
    /\ LET id == job[c].id IN
       IF id \in DOMAIN bind
       THEN bind' = [bind EXCEPT ![id].status = "down"] /\ Goes(c)
       ELSE UNCHANGED bind /\ Fails(c)
    /\ UNCHANGED <<nodes, janus, rules, remote, monitor, counts>>

SetOffline(c) ==
    /\ At(c, "offline")
    /\ LET id == job[c].id IN
       IF id \in DOMAIN bind
       THEN bind' = [bind EXCEPT ![id].status = "offline"] /\ Goes(c)
       ELSE UNCHANGED bind /\ Ends(c)
    /\ UNCHANGED <<nodes, janus, rules, remote, monitor, counts>>

SetDesiredUp(c) ==
    /\ \/ At(c, "desire")
       \/ At(c, "undesire")
    /\ LET id == job[c].id IN
       bind' = IF id \in DOMAIN bind THEN [bind EXCEPT ![id].up = At(c, "desire")] ELSE bind
    /\ Goes(c)
    /\ UNCHANGED <<nodes, janus, rules, remote, monitor, counts>>

(* A call to the node agent: systemctl restart, or stop, of one encoder.   *)
AgentAnswers(n) == n \in DOMAIN nodes /\ n \in reachable
Restarted(id) == [enc EXCEPT ![NodeOf(id)][SensorOf(id)] = contract[NodeOf(id)][SensorOf(id)]]

(* An agent that answers may also answer that it did not do it (it refuses *)
(* the token, or systemctl fails).                                         *)
AgentStop(c) ==
    /\ At(c, "agentStop")
    /\ LET id == job[c].id IN
       \/ /\ AgentAnswers(NodeOf(id)) /\ NoFault
          /\ enc' = [enc EXCEPT ![NodeOf(id)][SensorOf(id)] = 0] /\ Goes(c)
       \/ ~AgentAnswers(NodeOf(id)) /\ UNCHANGED enc /\ Ends(c) /\ NoFault
       \/ AgentAnswers(NodeOf(id)) /\ UNCHANGED enc /\ Ends(c) /\ Fault
    /\ UNCHANGED <<store, janus, rules, contract, reachable, monitor, ops>>

RestartStream(id) ==
    \/ AgentAnswers(NodeOf(id)) /\ enc' = Restarted(id) /\ NoFault
    \/ ~AgentAnswers(NodeOf(id)) /\ UNCHANGED enc /\ NoFault
    \/ AgentAnswers(NodeOf(id)) /\ UNCHANGED enc /\ Fault

AgentRestart(c) ==
    /\ At(c, "agentRestart")
    /\ RestartStream(job[c].id)
    /\ Goes(c)
    /\ UNCHANGED <<store, janus, rules, contract, reachable, monitor, ops>>

(* bootstrap activate over SSH: the contract file, then the encoder.       *)
ActivateOnNode(c) ==
    /\ At(c, "activate")
    /\ LET n == NodeOf(job[c].id)
           s == SensorOf(job[c].id)
       IN \/ /\ n \in reachable
             /\ contract' = [contract EXCEPT ![n][s] = job[c].slot.port]
             /\ enc' = [enc EXCEPT ![n][s] = job[c].slot.port]
             /\ NoFault
          \/ n \notin reachable /\ UNCHANGED <<contract, enc>> /\ NoFault
          \/ n \in reachable /\ UNCHANGED <<contract, enc>> /\ Fault
    /\ Goes(c)
    /\ UNCHANGED <<store, janus, rules, reachable, monitor, ops>>

Destroy(mp) ==
    \/ janus' = Restrict(janus, DOMAIN janus \ {mp}) /\ NoFault
    \/ mp \in DOMAIN janus /\ UNCHANGED janus /\ Fault

DestroyMountpoint(c) ==
    /\ At(c, "destroy") /\ Destroy(job[c].slot.mp) /\ Goes(c)
    /\ UNCHANGED <<store, rules, remote, monitor, ops>>

RemoveBinding(c) ==
    /\ At(c, "drop")
    /\ bind' = Restrict(bind, DOMAIN bind \ {job[c].id}) /\ Goes(c)
    /\ UNCHANGED <<nodes, janus, rules, remote, monitor, counts>>

SlotOf(id) == [id |-> id, mp |-> bind[id].mp, port |-> bind[id].port]

(* delete_node: the bindings are listed before the agent and Janus are     *)
(* called, and removed with the node in one write.                         *)
ListOfNode(c) ==
    /\ At(c, "list")
    /\ LET n == NodeOf(job[c].id) IN
       IF n \in DOMAIN nodes
       THEN Continue(c, [job[c] EXCEPT
                           !.todo = {SlotOf(id) : id \in {i \in DOMAIN bind : bind[i].node = n}}])
       ELSE Ends(c)
    /\ UNCHANGED <<store, janus, rules, remote, monitor, counts>>

StopAllOfNode(c) ==
    /\ At(c, "quit")
    /\ LET n == NodeOf(job[c].id) IN
       \/ /\ AgentAnswers(n) /\ NoFault
          /\ enc' = [enc EXCEPT ![n] = [s \in Sensors |->
                        IF \E r \in job[c].todo : SensorOf(r.id) = s THEN 0 ELSE @[s]]]
       \/ ~AgentAnswers(n) /\ UNCHANGED enc /\ NoFault
       \/ AgentAnswers(n) /\ UNCHANGED enc /\ Fault
    /\ Goes(c)
    /\ UNCHANGED <<store, janus, rules, contract, reachable, monitor, ops>>

Teardown(c) ==
    /\ At(c, "teardown")
    /\ \/ /\ job[c].todo = {} /\ Goes(c) /\ UNCHANGED janus /\ NoFault
       \/ \E r \in job[c].todo :
            /\ Destroy(r.mp)
            /\ job' = [job EXCEPT ![c].todo = @ \ {r}]
    /\ UNCHANGED <<store, rules, remote, monitor, ops>>

RemoveNodeOnly(c) ==
    /\ At(c, "removeNode")
    /\ nodes' = Restrict(nodes, DOMAIN nodes \ {NodeOf(job[c].id)})
    /\ Goes(c)
    /\ UNCHANGED <<bind, janus, rules, remote, monitor, counts>>
RemoveNode(c) ==
    /\ At(c, "removeNode")
    /\ LET n == NodeOf(job[c].id) IN
       /\ nodes' = Restrict(nodes, DOMAIN nodes \ {n})
       /\ bind' = Restrict(bind, {id \in DOMAIN bind : bind[id].node # n})
    /\ Goes(c)
    /\ UNCHANGED <<janus, rules, remote, monitor, counts>>

(* The firewall is compared by tag, a tag being a binding and a port: a    *)
(* rule whose tag is there already is kept, whatever host it names.        *)
PlanFirewall(c) ==
    /\ At(c, "plan")
    /\ Continue(c, [job[c] EXCEPT
            !.add = {r \in DesiredRules : \A q \in rules : q.tag # r.tag},
            !.drop = {q.tag : q \in {x \in rules : \A r \in DesiredRules : r.tag # x.tag}}])
    /\ UNCHANGED <<store, janus, rules, remote, monitor, counts>>

ApplyFirewall(c) ==
    /\ At(c, "apply")
    /\ \/ rules' = {r \in rules \cup job[c].add : r.tag \notin job[c].drop} /\ NoFault
       \/ UNCHANGED rules /\ Fault
    /\ Goes(c)
    /\ UNCHANGED <<store, janus, remote, monitor, ops>>

(* The run-once reconcile works on the drift report; the sweep at startup  *)
(* on every binding that is desired up.                                    *)
OperatorStopped(id) ==
    ~bind[id].fdir \/ bind[id].status = "offline" \/ nodes[bind[id].node].maint

ComputeDrift(c) ==
    /\ At(c, "drift")
    /\ Continue(c, [job[c] EXCEPT
            !.todo = {SlotOf(id) : id \in {i \in DOMAIN bind :
                         ~OperatorStopped(i) /\ bind[i].mp \notin DOMAIN janus}}])
    /\ UNCHANGED <<store, janus, rules, remote, monitor, counts>>

SweepList(c) ==
    /\ At(c, "sweep")
    /\ Continue(c, [job[c] EXCEPT
            !.todo = {SlotOf(id) : id \in {i \in DOMAIN bind : bind[i].up}}])
    /\ UNCHANGED <<store, janus, rules, remote, monitor, counts>>

Converge(c) ==
    /\ At(c, "converge")
    /\ \/ job[c].todo = {} /\ Goes(c) /\ UNCHANGED janus /\ NoFault
       \/ \E r \in job[c].todo, outcome \in {"created", "exists", "conflict", "failed"} :
            /\ EnsureJanus(r, outcome)
            /\ job' = [job EXCEPT ![c].todo = @ \ {r}]
    /\ UNCHANGED <<store, rules, remote, monitor, ops>>

ThreadStep(c) ==
    \/ Lookup(c) \/ Find(c) \/ AllocateMountpoint(c) \/ AllocatePort(c) \/ UpsertBinding(c)
    \/ EnsureStep(c) \/ TryEnsure(c) \/ GetBinding(c) \/ SetWaiting(c) \/ SetOffline(c)
    \/ SetDesiredUp(c) \/ AgentStop(c) \/ AgentRestart(c) \/ ActivateOnNode(c)
    \/ DestroyMountpoint(c) \/ RemoveBinding(c) \/ ListOfNode(c) \/ StopAllOfNode(c)
    \/ Teardown(c) \/ RemoveNode(c) \/ PlanFirewall(c) \/ ApplyFirewall(c)
    \/ ComputeDrift(c) \/ SweepList(c) \/ Converge(c)

(* An administrator calls a route.                                         *)
Calls == ops < MaxOps /\ ops' = ops + 1

BeginAt(c, prog, id, slot) ==
    /\ job[c].rest = <<>> /\ Calls
    /\ job' = [job EXCEPT ![c] = [Idle EXCEPT !.rest = prog, !.id = id, !.slot = slot]]
    /\ UNCHANGED <<store, janus, rules, remote, monitor, faults>>
Begin(c, prog, id) == BeginAt(c, prog, id, NoSlot)

CallCreate(c) ==
    \E n \in Nodes, s \in Sensors, slot \in [mp : NamedMps, port : NamedPorts] :
       BeginAt(c, Create(slot), <<"node", n, s>>, slot)
CallActivate(c) == \E n \in Nodes, s \in Sensors : Begin(c, Activate, <<"node", n, s>>)
CallEnsure(c) == \E id \in DOMAIN bind : Begin(c, Ensure, id)
CallRestart(c) == \E id \in DOMAIN bind : Begin(c, Restart, id)
CallTuning(c) == \E id \in DOMAIN bind : Begin(c, Tune, id)
CallStop(c) == \E id \in DOMAIN bind : Begin(c, Stop, id)
CallRemove(c) == \E id \in DOMAIN bind : Begin(c, Remove, id)
CallDelete(c) ==
    \E n \in DOMAIN nodes, prog \in {Delete, Deprovision} : Begin(c, prog, <<"node", n, "none">>)
CallFirewall(c) == Begin(c, Firewall, NoId)
CallRunOnce(c) == Begin(c, RunOnce, NoId)

CallUseCase(c) ==
    \/ CallCreate(c) \/ CallActivate(c) \/ CallEnsure(c) \/ CallRestart(c) \/ CallTuning(c)
    \/ CallStop(c) \/ CallRemove(c) \/ CallDelete(c) \/ CallFirewall(c) \/ CallRunOnce(c)

(* A node row is written once; a later registration keeps its ordinal,     *)
(* serial and maintenance flag and may change its host.                    *)
RegisterNode(n, h) ==
    /\ Calls
    /\ nodes' = IF n \in DOMAIN nodes
                THEN [nodes EXCEPT ![n].host = h]
                ELSE With(nodes, n, [ord |-> MintOrdinal, host |-> h, serial |-> FALSE,
                                     maint |-> FALSE])
    /\ UNCHANGED <<bind, janus, rules, remote, job, monitor, faults>>

(* A host that is registered already keeps its node; any other gets a new  *)
(* one.  The fleet manifest registers its hosts the same way.              *)
AddNodeByHost(n, h) ==
    /\ n \notin DOMAIN nodes /\ \A m \in DOMAIN nodes : nodes[m].host # h
    /\ RegisterNode(n, h)

SetSerial(n) ==
    /\ Calls /\ n \in DOMAIN nodes /\ ~nodes[n].serial
    /\ nodes' = [nodes EXCEPT ![n].serial = TRUE]
    /\ UNCHANGED <<bind, janus, rules, remote, job, monitor, faults>>

SetMaintenance(n) ==
    /\ Calls /\ n \in DOMAIN nodes
    /\ nodes' = [nodes EXCEPT ![n].maint = ~@]
    /\ UNCHANGED <<bind, janus, rules, remote, job, monitor, faults>>

SetFdir(id) ==
    /\ Calls /\ id \in DOMAIN bind
    /\ bind' = [bind EXCEPT ![id].fdir = ~@]
    /\ UNCHANGED <<nodes, janus, rules, remote, job, monitor, faults>>

-----------------------------------------------------------------------------
(* The monitor.                                                            *)

(* A tick begins with a copy of the file; the bindings of nodes under      *)
(* maintenance are left out of it.                                         *)
MonitorTick ==
    /\ mon.step = "rest"
    /\ mon' = [Resting EXCEPT !.step = "next",
                  !.left = {[id |-> id, row |-> bind[id]] :
                              id \in {i \in DOMAIN bind : ~nodes[bind[i].node].maint}}]
    /\ memory' = [id \in Ids |->
                    [memory[id] EXCEPT !.since = IF @ < Throttle THEN @ + 1 ELSE @]]
    /\ UNCHANGED <<store, janus, rules, remote, job, counts>>

(* Recovery is for a binding that is wanted up and auto-managed, at once   *)
(* when it was healthy before, else every Throttle ticks.                  *)
ConvergeDue(id) == memory[id].healthy \/ memory[id].since >= Throttle

MonitorProbe ==
    /\ mon.step = "next" /\ mon.left # {}
    /\ \E b \in mon.left :
         LET healthy == Arrives(b.row.mp)
             heal == b.row.up /\ b.row.fdir /\ ~healthy /\ ConvergeDue(b.id)
                       /\ AgentAnswers(b.row.node)
         IN /\ mon' = [mon EXCEPT !.step = "status", !.left = @ \ {b}, !.id = b.id,
                                  !.row = b.row, !.healthy = healthy, !.heal = heal]
            /\ memory' = [memory EXCEPT ![b.id] =
                             [healthy |-> healthy, since |-> IF heal THEN 0 ELSE @.since]]
    /\ UNCHANGED <<store, janus, rules, remote, job, counts>>

(* The status is written for every binding, the stopped ones included.     *)
MonitorStatus ==
    /\ mon.step = "status"
    /\ bind' = IF mon.id \in DOMAIN bind
               THEN [bind EXCEPT ![mon.id].status = IF mon.healthy THEN "online" ELSE "down"]
               ELSE bind
    /\ mon' = [mon EXCEPT !.step = IF mon.heal THEN "ensure" ELSE "next"]
    /\ UNCHANGED <<nodes, janus, rules, remote, job, memory, counts>>

MonitorEnsureMissing ==
    /\ mon.step = "ensure"
    /\ mon' = [mon EXCEPT !.step = "restart"]
    /\ UNCHANGED <<store, janus, rules, remote, job, memory, counts>>
(* A mountpoint that had to be created was the fault: the encoder is left  *)
(* alone.                                                                  *)
MonitorEnsure ==
    /\ mon.step = "ensure"
    /\ \E outcome \in {"created", "exists", "conflict", "failed"} :
         /\ EnsureJanus(mon.row, outcome)
         /\ mon' = [mon EXCEPT !.step = IF outcome = "created" THEN "next" ELSE "restart"]
    /\ UNCHANGED <<store, rules, remote, job, memory, ops>>

MonitorRestart ==
    /\ mon.step = "restart"
    /\ RestartStream(mon.id)
    /\ mon' = [mon EXCEPT !.step = "next"]
    /\ UNCHANGED <<store, janus, rules, contract, reachable, job, memory, ops>>

MonitorRests ==
    /\ mon.step = "next" /\ mon.left = {}
    /\ mon' = Resting
    /\ UNCHANGED <<store, janus, rules, remote, job, memory, counts>>

MonitorStep ==
    MonitorTick \/ MonitorProbe \/ MonitorStatus \/ MonitorEnsure \/ MonitorRestart
      \/ MonitorRests

-----------------------------------------------------------------------------
(* What happens around the gateway.                                        *)

JanusRestarts ==
    /\ Fault /\ DOMAIN janus # {} /\ janus' = [m \in {} |-> 0]
    /\ UNCHANGED <<store, rules, remote, job, monitor, ops>>

(* A node that boots starts no encoder by itself.                          *)
NodeReboots(n) ==
    /\ Fault /\ enc' = [enc EXCEPT ![n] = [s \in Sensors |-> 0]]
    /\ UNCHANGED <<store, janus, rules, contract, reachable, job, monitor, ops>>

NodeLost(n) ==
    /\ Fault /\ n \in reachable /\ reachable' = reachable \ {n}
    /\ UNCHANGED <<store, janus, rules, contract, enc, job, monitor, ops>>

NodeBack(n) ==
    /\ n \notin reachable /\ reachable' = reachable \cup {n}
    /\ UNCHANGED <<store, janus, rules, contract, enc, job, monitor, counts>>

(* The control plane restarts: threads and the monitor's memory are gone,  *)
(* node-keyed bindings are rekeyed where the serial is known and its key   *)
(* is free, and the sweep begins.                                          *)
Rekeyed(id) ==
    IF /\ id[1] = "node" /\ nodes[bind[id].node].serial
       /\ <<"serial", id[2], id[3]>> \notin DOMAIN bind
    THEN <<"serial", id[2], id[3]>> ELSE id

GatewayRestarts ==
    /\ Fault
    /\ bind' = [k \in {Rekeyed(id) : id \in DOMAIN bind} |->
                  bind[CHOOSE id \in DOMAIN bind : Rekeyed(id) = k]]
    /\ job' = [c \in Threads |-> IF c = Sweeper THEN [Idle EXCEPT !.rest = Sweep] ELSE Idle]
    /\ mon' = Resting /\ memory' = [id \in Ids |-> Fresh]
    /\ UNCHANGED <<nodes, janus, rules, remote, ops>>

RemoteNext ==
    \/ \E c \in Threads : ThreadStep(c)
    \/ \E c \in Clients : CallUseCase(c)
    \/ \E n \in Nodes : \/ \E h \in Hosts : RegisterNode(n, h) \/ AddNodeByHost(n, h)
                        \/ SetSerial(n) \/ SetMaintenance(n)
                        \/ NodeReboots(n) \/ NodeLost(n) \/ NodeBack(n)
    \/ \E id \in Ids : SetFdir(id)
    \/ MonitorStep \/ JanusRestarts \/ GatewayRestarts

(* The monitor is a thread of its own that no request holds up; a request  *)
(* thread runs to its end.                                                 *)
RemoteSpec ==
    /\ RemoteInit /\ [][RemoteNext]_vars
    /\ WF_vars(MonitorStep)
    /\ \A c \in Threads : WF_vars(ThreadStep(c))

-----------------------------------------------------------------------------
(* Properties.                                                             *)

RemoteTypeOK ==
    /\ DOMAIN nodes \subseteq Nodes /\ DOMAIN bind \subseteq Ids
    /\ \A n \in DOMAIN nodes :
         nodes[n] \in [ord : 0 .. Cardinality(Nodes) - 1, host : Hosts, serial : BOOLEAN,
                       maint : BOOLEAN]
    /\ \A id \in DOMAIN bind :
         /\ bind[id].node = NodeOf(id) /\ bind[id].sensor = SensorOf(id)
         /\ bind[id].mp >= RemoteMpMin /\ bind[id].port >= RemotePortMin
         /\ bind[id].status \in {"offline", "down", "online"}
    /\ reachable \subseteq Nodes
    /\ ops \in 0 .. MaxOps /\ faults \in 0 .. MaxFaults

(* No two bindings share a mountpoint or a port of their pairs, however    *)
(* the reads of two allocations and their writes interleave: the advisory  *)
(* slot is checked again under the lock of the write (_validate_remote).   *)
RemoteSlotsDisjoint ==
    \A i, j \in DOMAIN bind :
        i # j => /\ bind[i].mp # bind[j].mp
                 /\ {bind[i].port, bind[i].port + 1} \cap {bind[j].port, bind[j].port + 1} = {}

(* Every binding belongs to a registered node, also when a node is deleted *)
(* while another thread is between looking it up and writing a binding for *)
(* it (remove_node: "a half-removed node with orphan bindings would let    *)
(* FDIR keep monitoring a host the operator just removed").                *)
BindingHasNode == \A id \in DOMAIN bind : bind[id].node \in DOMAIN nodes

(* A binding the monitor is in charge of: desired up, FDIR on, its node    *)
(* answering and not under maintenance, its contract and its firewall rule *)
(* as stored, and its slot not occupied by a mountpoint left behind.       *)
Managed(id) ==
    /\ id \in DOMAIN bind /\ bind[id].up /\ bind[id].fdir
    /\ AgentAnswers(NodeOf(id)) /\ ~nodes[NodeOf(id)].maint
    /\ contract[NodeOf(id)][SensorOf(id)] = bind[id].port
    /\ Open(NodeOf(id), bind[id].port)
    /\ bind[id].mp \in DOMAIN janus => janus[bind[id].mp] = bind[id].port
    /\ ~PortBound([mp |-> bind[id].mp, port |-> bind[id].port])

(* Such a stream is brought back, for good, after any restart of Janus, of *)
(* its node or of the gateway, also when mountpoint and encoder are down   *)
(* at once (_apply: "Both-down ... still recovers").                       *)
Heals == \A id \in Ids : <>[]Managed(id) => <>[](id \in DOMAIN bind /\ Arrives(bind[id].mp))

(* The run-once reconcile does not bring back the mountpoint of a binding  *)
(* that the administrator has stopped (_is_operator_stopped: "the run-once *)
(* reconcile must not resurrect it").                                      *)
StoppedNotResurrected ==
    [][\A c \in Clients : \A r \in job[c].todo' :
         (At(c, "drift") /\ r.id \in DOMAIN bind) => bind[r.id].up]_vars
=============================================================================
