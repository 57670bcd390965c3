--------------------------- MODULE NodeOperations ---------------------------
(***************************************************************************)
(* Long operations on camera nodes: provision, rotate the agent token,     *)
(* activate streams.  A request records the operation in a journal, which  *)
(* also keeps two operations off one node, and hands it to a daemon        *)
(* thread; at startup the reaper ends what a dead process left running.    *)
(*                                                                         *)
(* Around them: the node rows with their provisioning state and host-key   *)
(* pin, the token the gateway keeps for a node and the token the node's    *)
(* agent accepts, and the deletion of a node, which the journal does not   *)
(* guard.                                                                  *)
(***************************************************************************)
EXTENDS Integers, FiniteSets, Sequences, TLC, FiniteSetsExt, Functions, SequencesExt

CONSTANTS
    Nodes,
    MaxOps,        \* operations started
    MaxRecords,    \* _MAX_RECORDS, small enough for old records to be pruned
    MaxCalls,      \* other calls of the administrator
    MaxFaults,     \* failing SSH calls, damage to the journal
    MaxCrashes     \* deaths of the process

Ops == 1 .. MaxOps
InProgress == {"reachable", "probing"}
NoToken == 0

VARIABLES
    row,       \* node rows: provisioning state and the operation that wrote
               \* it, pin, generation, and whether the node was registered
               \* after any deletion of it had ended
    token,     \* node_secrets.json: token of a node, NoToken without one
    agent,     \* the token the agent on a node accepts
    minted,    \* tokens minted so far
    gens,      \* registrations so far
    journal,   \* operation records
    torn,      \* operations.json exists and does not parse
    intact,    \* it never was damaged
    thread,    \* of each operation: node, steps left, token in hand
    orphans,   \* secrets still to be dropped by a delete_node that runs
    proc,      \* up, reaping, down
    reap,      \* records the reaper has still to visit
    cut,       \* the reaper did not get to release a node: the process died
               \* while it had records to visit, or its write failed
    calls, faults, crashes

vars == <<row, token, agent, minted, gens, journal, torn, intact, thread, orphans,
          proc, reap, cut, calls, faults, crashes>>
nodeData == <<row, token, agent, minted, gens>>
journalData == <<journal, torn, intact>>
process == <<proc, reap, cut, orphans>>
counts == <<calls, faults, crashes>>

NoThread == [node |-> "none", rest |-> <<>>, tok |-> NoToken, gen |-> 0, failed |-> FALSE]
Live(o) == thread[o].rest # <<>>
At(o, step) == Live(o) /\ Head(thread[o].rest) = step
NodeOf(o) == thread[o].node

NodeOpsInit ==
    /\ row = [n \in {} |-> 0]
    /\ token = [n \in Nodes |-> NoToken] /\ agent = [n \in Nodes |-> NoToken]
    /\ minted = 0 /\ gens = 0
    /\ journal = {} /\ torn = FALSE /\ intact = TRUE
    /\ thread = [o \in Ops |-> NoThread]
    /\ orphans = {} /\ proc = "up" /\ reap = {} /\ cut = FALSE
    /\ calls = 0 /\ faults = 0 /\ crashes = 0

-----------------------------------------------------------------------------
(* The journal.  A file that does not parse is moved aside and the call    *)
(* fails; the next call starts from an empty journal.                      *)

Quarantine == journal' = {} /\ torn' = FALSE /\ UNCHANGED intact

RunningUnguarded(n) == FALSE
Running(n) == \E r \in journal : r.node = n /\ r.status = "running"

(* The oldest finished records are dropped, a running one never.           *)
Prune(recs) ==
    LET finished == {r \in recs : r.status # "running"}
        excess == Cardinality(recs) - MaxRecords
    IN recs \ {r \in finished :
                 Cardinality({q \in finished : q.op < r.op}) < excess}

BeginRecord(o, n, kind) ==
    /\ ~Running(n)
    /\ journal' = Prune(journal \cup {[op |-> o, node |-> n, kind |-> kind,
                                       status |-> "running"]})
    /\ UNCHANGED <<torn, intact>>

FinishRecord(o, outcome) ==
    IF torn THEN Quarantine
    ELSE /\ journal' = {IF r.op = o THEN [r EXCEPT !.status = outcome] ELSE r : r \in journal}
         /\ UNCHANGED <<torn, intact>>

-----------------------------------------------------------------------------
(* Starting an operation.                                                  *)

Programs(kind) ==
    CASE kind = "provision" ->
           <<"token", "legacy", "echo", "push", "probe", "deploy", "ready", "finish">>
      [] kind = "rotate" -> <<"mint", "settoken", "persist", "finish">>
      [] kind = "activate" -> <<"streams", "finish">>

Free == {o \in Ops : thread[o] = NoThread /\ \A r \in journal : r.op # o}

(* The transport needs a pinned host key; provisioning may pin it on first *)
(* contact, and goes on when it could not be captured.                     *)
BuildTransport(n, kind, tofu) ==
    \/ row[n].pinned /\ UNCHANGED row
    \/ /\ ~row[n].pinned /\ tofu /\ kind = "provision"
       /\ row' \in {row, [row EXCEPT ![n].pinned = TRUE]}

(* The journal may refuse: 409 for a node that is busy, 503 for a file     *)
(* that is damaged.                                                        *)
SpawnNodeOp(n, kind, tofu) ==
    /\ proc = "up" /\ Free # {} /\ n \in DOMAIN row
    /\ BuildTransport(n, kind, tofu)
    /\ \/ /\ ~torn /\ BeginRecord(Min(Free), n, kind)
          /\ thread' = [thread EXCEPT ![Min(Free)] =
                          [NoThread EXCEPT !.node = n, !.rest = Programs(kind),
                                           !.gen = row[n].gen]]
       \/ ~torn /\ Running(n) /\ UNCHANGED <<journalData, thread>>
       \/ torn /\ Quarantine /\ UNCHANGED thread
    /\ UNCHANGED <<token, agent, minted, gens, process, counts>>

-----------------------------------------------------------------------------
(* The bodies of the operations.                                           *)

SetNodeSecret(n, t) == token' = [token EXCEPT ![n] = t]
Goes(o) == thread' = [thread EXCEPT ![o].rest = Tail(@)]
Returns(o) == thread' = [thread EXCEPT ![o].rest = <<"finish">>]
Raises(o) == thread' = [thread EXCEPT ![o].rest = <<"finish">>, ![o].failed = TRUE]
Fault == faults < MaxFaults /\ faults' = faults + 1
NoFault == UNCHANGED faults
others == <<journalData, process, calls, crashes>>

(* set_provision_state: a row that is gone is a KeyError, which ends the   *)
(* operation; fail() marks the row and returns without an exception.       *)
Mark(o, state) ==
    IF NodeOf(o) \in DOMAIN row
    THEN row' = [row EXCEPT ![NodeOf(o)].pstate = state, ![NodeOf(o)].by = o] /\ Goes(o)
    ELSE UNCHANGED row /\ Raises(o)

Fail(o, state) ==
    IF NodeOf(o) \in DOMAIN row
    THEN row' = [row EXCEPT ![NodeOf(o)].pstate = state, ![NodeOf(o)].by = o] /\ Returns(o)
    ELSE UNCHANGED row /\ Raises(o)

(* The token the gateway holds is read once; a node without one gets one.  *)
ProvisionToken(o) ==
    /\ At(o, "token")
    /\ IF NodeOf(o) \in DOMAIN row
       THEN thread' = [thread EXCEPT ![o].rest = Tail(@), ![o].tok = token[NodeOf(o)]]
       ELSE Raises(o)
    /\ NoFault /\ UNCHANGED <<nodeData, others>>

ProvisionLegacy(o) ==
    /\ At(o, "legacy")
    /\ \/ thread[o].tok # NoToken /\ Goes(o) /\ UNCHANGED <<token, minted>>
       \/ /\ thread[o].tok = NoToken /\ NodeOf(o) \in DOMAIN row
          /\ thread' = [thread EXCEPT ![o].rest = Tail(@), ![o].tok = minted + 1]
          /\ SetNodeSecret(NodeOf(o), minted + 1) /\ minted' = minted + 1
       \/ /\ thread[o].tok = NoToken /\ NodeOf(o) \notin DOMAIN row
          /\ Raises(o) /\ UNCHANGED <<token, minted>>
    /\ NoFault /\ UNCHANGED <<row, agent, gens, others>>

ProvisionEcho(o) ==
    /\ At(o, "echo")
    /\ \/ Mark(o, "reachable") /\ NoFault
       \/ Fail(o, "failed") /\ Fault
    /\ UNCHANGED <<token, agent, minted, gens, others>>

ProvisionPush(o) ==
    /\ At(o, "push")
    /\ \/ Mark(o, "probing") /\ NoFault
       \/ Fail(o, "failed") /\ Fault
    /\ UNCHANGED <<token, agent, minted, gens, others>>

(* The serial the probe has found, if any, goes into the row.              *)
ProvisionProbe(o) ==
    /\ At(o, "probe")
    /\ \/ Goes(o) /\ UNCHANGED row /\ NoFault
       \/ NodeOf(o) \notin DOMAIN row /\ Raises(o) /\ UNCHANGED row /\ NoFault
       \/ Fail(o, "no_camera") /\ Fault
       \/ Fail(o, "failed") /\ Fault
    /\ UNCHANGED <<token, agent, minted, gens, others>>

(* A call that times out may have done its work on the node.               *)
ProvisionDeploy(o) ==
    /\ At(o, "deploy")
    /\ \/ /\ agent' = [agent EXCEPT ![NodeOf(o)] = thread[o].tok]
          /\ Goes(o) /\ UNCHANGED row /\ NoFault
       \/ /\ agent' \in {agent, [agent EXCEPT ![NodeOf(o)] = thread[o].tok]}
          /\ Fail(o, "failed") /\ Fault
    /\ UNCHANGED <<token, minted, gens, others>>

ProvisionReady(o) ==
    /\ At(o, "ready") /\ Mark(o, "ready") /\ NoFault
    /\ UNCHANGED <<token, agent, minted, gens, others>>

RotateMint(o) ==
    /\ At(o, "mint")
    /\ \/ NodeOf(o) \notin DOMAIN row /\ Raises(o) /\ UNCHANGED minted
       \/ /\ NodeOf(o) \in DOMAIN row
          /\ thread' = [thread EXCEPT ![o].rest = Tail(@), ![o].tok = minted + 1]
          /\ minted' = minted + 1
    /\ NoFault /\ UNCHANGED <<row, token, agent, gens, others>>

RotateSetToken(o) ==
    /\ At(o, "settoken")
    /\ \/ /\ agent' = [agent EXCEPT ![NodeOf(o)] = thread[o].tok] /\ Goes(o) /\ NoFault
       \/ /\ agent' \in {agent, [agent EXCEPT ![NodeOf(o)] = thread[o].tok]}
          /\ Returns(o) /\ Fault
    /\ UNCHANGED <<row, token, minted, gens, others>>

RotatePersist(o) ==
    /\ At(o, "persist")
    /\ IF NodeOf(o) \in DOMAIN row
       THEN SetNodeSecret(NodeOf(o), thread[o].tok) /\ Goes(o)
       ELSE UNCHANGED token /\ Raises(o)
    /\ NoFault /\ UNCHANGED <<row, agent, minted, gens, others>>

(* What activation does to the streams is modelled in RemoteStreams.       *)
ActivateStreams(o) ==
    /\ At(o, "streams")
    /\ IF NodeOf(o) \in DOMAIN row THEN Goes(o) ELSE Raises(o)
    /\ NoFault /\ UNCHANGED <<nodeData, others>>

(* Any other exception of a body, such as a write of the store that fails  *)
(* or a probe that answers something unforeseen, ends it where it is.      *)
OpRaises(o) ==
    /\ Live(o) /\ ~At(o, "finish") /\ Raises(o) /\ Fault
    /\ UNCHANGED <<nodeData, others>>

(* A result that says the operation went wrong is not an exception: the    *)
(* record says succeeded all the same.                                     *)
FinishOp(o) ==
    /\ At(o, "finish")
    /\ FinishRecord(o, IF thread[o].failed THEN "failed" ELSE "succeeded")
    /\ Goes(o)
    /\ UNCHANGED <<nodeData, process, counts>>

OpStep(o) ==
    \/ ProvisionToken(o) \/ ProvisionLegacy(o) \/ ProvisionEcho(o) \/ ProvisionPush(o)
    \/ ProvisionProbe(o) \/ ProvisionDeploy(o) \/ ProvisionReady(o) \/ RotateMint(o)
    \/ RotateSetToken(o) \/ RotatePersist(o) \/ ActivateStreams(o) \/ OpRaises(o) \/ FinishOp(o)

-----------------------------------------------------------------------------
(* Other calls.                                                            *)

Calls == proc = "up" /\ calls < MaxCalls /\ calls' = calls + 1
                     /\ UNCHANGED <<faults, crashes>>

(* A node keeps its token: of the row, else of the secret store, else new. *)
RegisterNode(n) ==
    /\ Calls /\ n \notin DOMAIN row
    /\ row' = [m \in DOMAIN row \cup {n} |->
                 IF m = n THEN [pstate |-> "none", by |-> 0, pinned |-> FALSE, gen |-> gens + 1,
                                settled |-> n \notin orphans]
                 ELSE row[m]]
    /\ gens' = gens + 1
    /\ IF token[n] = NoToken
       THEN SetNodeSecret(n, minted + 1) /\ minted' = minted + 1
       ELSE UNCHANGED <<token, minted>>
    /\ UNCHANGED <<agent, journalData, thread, process>>

ConfirmHostKey(n) ==
    /\ Calls /\ n \in DOMAIN row /\ ~row[n].pinned
    /\ row' = [row EXCEPT ![n].pinned = TRUE]
    /\ UNCHANGED <<token, agent, minted, gens, journalData, thread, process>>

(* The row goes under the lock of the topology file, the token after it.   *)
DeleteNode(n) ==
    /\ Calls /\ n \in DOMAIN row
    /\ row' = Restrict(row, DOMAIN row \ {n})
    /\ orphans' = orphans \cup {n}
    /\ UNCHANGED <<token, agent, minted, gens, journalData, thread, proc, reap, cut>>

RemoveNodeSecret(n) ==
    /\ proc = "up" /\ n \in orphans
    /\ orphans' = orphans \ {n} /\ SetNodeSecret(n, NoToken)
    /\ UNCHANGED <<row, agent, minted, gens, journalData, thread, proc, reap, cut, counts>>

-----------------------------------------------------------------------------
(* Death and start of the process.                                         *)

JournalDamaged ==
    /\ faults < MaxFaults /\ faults' = faults + 1
    /\ ~torn /\ torn' = TRUE /\ intact' = FALSE
    /\ UNCHANGED <<nodeData, journal, thread, process, calls, crashes>>

ProcessDies ==
    /\ proc # "down" /\ crashes < MaxCrashes /\ crashes' = crashes + 1
    /\ proc' = "down" /\ reap' = {} /\ orphans' = {}
    /\ cut' = (cut \/ reap # {})
    /\ thread' = [o \in Ops |-> [thread[o] EXCEPT !.rest = <<>>]]
    /\ UNCHANGED <<nodeData, journalData, calls, faults>>

(* reap_orphans: a corrupt journal does not keep the process from          *)
(* starting.                                                               *)
ProcessStarts ==
    /\ proc = "down" /\ proc' = "reaping"
    /\ \/ /\ ~torn /\ reap' = {r.op : r \in {q \in journal : q.status = "running"}}
          /\ UNCHANGED journalData
       \/ torn /\ reap' = {} /\ Quarantine
    /\ UNCHANGED <<nodeData, thread, orphans, cut, counts>>

(* The record is ended, then the node is taken out of its half-done state. *)
UnstickReachable(o) ==
    LET n == NodeOf(o) IN
    row' = IF n \in DOMAIN row /\ row[n].pstate = "reachable"
           THEN [row EXCEPT ![n].pstate = "failed"] ELSE row
Unstick(o) ==
    LET n == NodeOf(o) IN
    row' = IF n \in DOMAIN row /\ row[n].pstate \in InProgress
           THEN [row EXCEPT ![n].pstate = "failed"] ELSE row

ReapFinish(o) ==
    /\ proc = "reaping" /\ o \in reap
    /\ \E r \in journal : r.op = o /\ r.status = "running"
    /\ FinishRecord(o, "interrupted")
    /\ reap' = IF torn THEN {} ELSE reap       \* JournalCorrupt ends the reaper
    /\ UNCHANGED <<nodeData, thread, proc, orphans, cut, counts>>

ReapUnstick(o) ==
    /\ proc = "reaping" /\ o \in reap
    /\ \A r \in journal : r.op = o => r.status # "running"
    /\ \/ Unstick(o) /\ UNCHANGED cut /\ NoFault
       \/ UNCHANGED row /\ cut' = TRUE /\ Fault      \* caught, and only logged
    /\ reap' = reap \ {o}
    /\ UNCHANGED <<token, agent, minted, gens, journalData, thread, proc, orphans, calls, crashes>>

ReaperDone ==
    /\ proc = "reaping" /\ reap = {} /\ proc' = "up"
    /\ UNCHANGED <<nodeData, journalData, thread, reap, orphans, cut, counts>>

Startup == ProcessStarts \/ ReaperDone \/ \E o \in Ops : ReapFinish(o) \/ ReapUnstick(o)

NodeOpsNext ==
    \/ \E o \in Ops : OpStep(o)
    \/ \E n \in Nodes :
         \/ \E kind \in {"provision", "rotate", "activate"}, tofu \in BOOLEAN :
              SpawnNodeOp(n, kind, tofu)
         \/ RegisterNode(n) \/ ConfirmHostKey(n) \/ DeleteNode(n) \/ RemoveNodeSecret(n)
    \/ JournalDamaged \/ ProcessDies \/ Startup

(* Threads run to their end while the process lives: every SSH call has a  *)
(* timeout.  systemd starts the process again.                             *)
NodeOpsSpec ==
    /\ NodeOpsInit /\ [][NodeOpsNext]_vars
    /\ \A o \in Ops : WF_vars(OpStep(o))
    /\ WF_vars(Startup)

-----------------------------------------------------------------------------
(* Properties.                                                             *)

NodeOpsTypeOK ==
    /\ DOMAIN row \subseteq Nodes
    /\ \A n \in DOMAIN row :
         row[n].pstate \in {"none", "failed", "no_camera", "ready"} \cup InProgress
    /\ \A n \in Nodes : token[n] \in 0 .. minted /\ agent[n] \in 0 .. minted
    /\ Cardinality(journal) <= MaxRecords + Cardinality({r \in journal : r.status = "running"})
    /\ proc \in {"up", "reaping", "down"} /\ reap \subseteq Ops

(* The journal and the threads implement the service: one operation per    *)
(* node at a time while the journal is intact, on record while it works,   *)
(* its outcome never rewritten, across crashes, reaping and pruning.       *)
StatusOf(o) ==
    IF thread[o] = NoThread THEN "none"
    ELSE IF torn \/ \A r \in journal : r.op # o THEN "forgotten"
    ELSE (CHOOSE r \in journal : r.op = o).status

Service == INSTANCE OperationService
    WITH status <- [o \in Ops |-> StatusOf(o)],
         busy <- [n \in Nodes |-> {o \in Ops : Live(o) /\ NodeOf(o) = n}]

ServiceImplemented == Service!ServiceSpec

(* When provisioning is about to report a node as ready, the agent there   *)
(* accepts the token the gateway holds: nothing else has changed either of *)
(* them since the token was read.  It takes the guard of the journal, and  *)
(* a node that was not deleted and registered again in between.            *)
ReadyMeansManageable ==
    \A o \in Ops :
        LET n == NodeOf(o) IN
        (At(o, "ready") /\ intact /\ n \in DOMAIN row /\ row[n].gen = thread[o].gen
           /\ row[n].settled)
        => agent[n] = token[n]

(* A node does not stay half provisioned: its operation ends, or it dies   *)
(* with the process and the reaper marks the node failed.  It takes an     *)
(* intact journal, a reaper that is not itself cut off, and a body that    *)
(* returns: an exception is recorded as a failed operation and leaves the  *)
(* row as it is (node_operation_runner.py:29-35), where the reaper, which  *)
(* visits running operations, never looks again.                           *)
Stuck(n) == n \in DOMAIN row /\ row[n].pstate \in InProgress
Stranded(n) == Stuck(n) /\ thread[row[n].by].failed
NodeUnstuck == \A n \in Nodes : Stuck(n) ~> (~Stuck(n) \/ ~intact \/ cut \/ Stranded(n))

(* The startup comment (core/events.py) without the last condition: a node *)
(* left mid-provision "isn't stuck 'provisioning' forever".                *)
NotStuckByException == \A n \in Nodes : Stuck(n) ~> (~Stuck(n) \/ ~intact \/ cut)

(* And without the one on the reaper.                                      *)
NeverStuckForever == \A n \in Nodes : []<>(~Stuck(n) \/ ~intact \/ Stranded(n))
=============================================================================
