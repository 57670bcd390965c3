------------------------ MODULE RemoteStreamsProofs -------------------------
(***************************************************************************)
(* The topology file keeps the bindings of remote streams disjoint and     *)
(* attached to registered nodes, proved for any number of nodes, sensors,  *)
(* threads, calls and faults.                                              *)
(***************************************************************************)
EXTENDS RemoteStreams, FiniteSetTheorems, TLAPS

-----------------------------------------------------------------------------
(* The inductive invariant: it speaks of the file only, since every write  *)
(* of it checks what it needs under the lock.                              *)

RowFields == {"node", "sensor", "mp", "port", "up", "fdir", "status"}

RowsOfNodes(rows, known) ==
    \A id \in DOMAIN rows :
        /\ DOMAIN rows[id] = RowFields
        /\ rows[id].node = NodeOf(id) /\ NodeOf(id) \in known

Apart(r, q) == r.mp # q.mp /\ {r.port, r.port + 1} \cap {q.port, q.port + 1} = {}

Disjoint(rows) == \A i, j \in DOMAIN rows : i # j => Apart(rows[i], rows[j])

TopologyInv == RowsOfNodes(bind, DOMAIN nodes) /\ Disjoint(bind)

-----------------------------------------------------------------------------
(* What the writes do to the rows of a file.                               *)

\* A setter of one field that is no part of the slot.
LEMMA SetterKeeps ==
    ASSUME NEW rows, NEW known, RowsOfNodes(rows, known), Disjoint(rows), NEW id \in DOMAIN rows,
           NEW v, NEW new, \/ new = [rows EXCEPT ![id].status = v]
                           \/ new = [rows EXCEPT ![id].up = v]
                           \/ new = [rows EXCEPT ![id].fdir = v]
    PROVE  RowsOfNodes(new, known) /\ Disjoint(new)
<1>1. /\ DOMAIN new = DOMAIN rows
      /\ \A i \in DOMAIN rows :
           /\ DOMAIN new[i] = RowFields /\ new[i].node = rows[i].node
           /\ new[i].mp = rows[i].mp /\ new[i].port = rows[i].port
  BY DEF RowsOfNodes, RowFields
<1> QED
  BY <1>1 DEF RowsOfNodes, Disjoint, Apart

\* Rows that are left, possibly under another name of the same node.
LEMMA FewerRowsKeep ==
    ASSUME NEW rows, NEW known, NEW left, RowsOfNodes(rows, known), Disjoint(rows),
           NEW S, NEW from \in [S -> DOMAIN rows],
           \A k \in S : NodeOf(k) = NodeOf(from[k]) /\ NodeOf(k) \in left,
           \A k1, k2 \in S : k1 # k2 => from[k1] # from[k2]
    PROVE  RowsOfNodes([k \in S |-> rows[from[k]]], left) /\ Disjoint([k \in S |-> rows[from[k]]])
<1> DEFINE new == [k \in S |-> rows[from[k]]]
<1>1. DOMAIN new = S /\ \A k \in S : new[k] = rows[from[k]] /\ from[k] \in DOMAIN rows
  OBVIOUS
<1> HIDE DEF new
<1>2. RowsOfNodes(new, left) /\ Disjoint(new)
  BY <1>1 DEF RowsOfNodes, Disjoint
<1> QED
  BY <1>2 DEF new

\* The write of a binding that passed the checks of _validate_remote.
LEMMA UpsertKeeps ==
    ASSUME TopologyInv, NEW id, NEW slot, Valid(id, slot),
           bind' = With(bind, id, NewRow(id, slot)), nodes' = nodes
    PROVE  TopologyInv'
<1> DEFINE new == NewRow(id, slot)
<1>1. /\ DOMAIN new = RowFields /\ new.node = NodeOf(id) /\ NodeOf(id) \in DOMAIN nodes
      /\ new.mp = slot.mp /\ new.port = slot.port
  BY DEF NewRow, RowFields, Valid
<1>2. /\ DOMAIN bind' = DOMAIN bind \cup {id} /\ bind'[id] = new
      /\ \A i \in DOMAIN bind \ {id} : bind'[i] = bind[i]
  BY DEF With
<1> HIDE DEF new
<1>3. \A i \in DOMAIN bind \ {id} : Apart(new, bind[i]) /\ Apart(bind[i], new)
  <2> SUFFICES ASSUME NEW i \in DOMAIN bind \ {id}
               PROVE  Apart(new, bind[i]) /\ Apart(bind[i], new)
    OBVIOUS
  <2> DEFINE others == Restrict(bind, DOMAIN bind \ {id})
  <2>1. /\ slot.mp \notin UsedMps(others)
        /\ {slot.port, slot.port + 1} \cap UsedPorts(others) = {}
    BY DEF Valid, SlotTaken
  <2>2. i \in DOMAIN others /\ others[i] = bind[i]
    BY DEF Restrict
  <2>3. bind[i].mp \in UsedMps(others)
    BY <2>2 DEF UsedMps
  <2>4. {bind[i].port, bind[i].port + 1} \subseteq UsedPorts(others)
    BY <2>2 DEF UsedPorts
  <2> QED
    BY <1>1, <2>1, <2>3, <2>4 DEF Apart
<1>4. RowsOfNodes(bind', DOMAIN nodes')
  BY <1>1, <1>2 DEF TopologyInv, RowsOfNodes
<1>5. Disjoint(bind')
  BY <1>2, <1>3 DEF TopologyInv, Disjoint
<1> QED
  BY <1>4, <1>5 DEF TopologyInv

-----------------------------------------------------------------------------
(* The steps.                                                              *)

LEMMA ThreadStepKeeps ==
    ASSUME TopologyInv, NEW c \in Threads, ThreadStep(c) PROVE TopologyInv'
<1> USE DEF TopologyInv
<1>q. ASSUME UNCHANGED store PROVE TopologyInv'
  BY <1>q DEF store
<1>s. ASSUME nodes' = nodes,
             \/ bind' = bind
             \/ \E id \in DOMAIN bind : \E v : \/ bind' = [bind EXCEPT ![id].status = v]
                                               \/ bind' = [bind EXCEPT ![id].up = v]
      PROVE  TopologyInv'
  BY <1>s, SetterKeeps
<1>1. CASE UpsertBinding(c)
  BY <1>1, <1>q, UpsertKeeps DEF UpsertBinding, store
<1>2. CASE SetWaiting(c) \/ SetOffline(c) \/ SetDesiredUp(c)
  BY <1>2, <1>s DEF SetWaiting, SetOffline, SetDesiredUp
<1>3. CASE RemoveBinding(c)
  <2> DEFINE S == DOMAIN bind \ {job[c].id}
             same == [k \in S |-> k]
  <2>1. bind' = [k \in S |-> bind[same[k]]] /\ nodes' = nodes
    BY <1>3 DEF RemoveBinding, Restrict
  <2>2. /\ same \in [S -> DOMAIN bind] /\ \A k \in S : same[k] = k
        /\ \A k \in S : NodeOf(k) \in DOMAIN nodes
    BY DEF RowsOfNodes
  <2> HIDE DEF S, same
  <2>3. /\ \A k \in S : NodeOf(k) = NodeOf(same[k]) /\ NodeOf(k) \in DOMAIN nodes
        /\ \A k1, k2 \in S : k1 # k2 => same[k1] # same[k2]
    BY <2>2
  <2>4. RowsOfNodes([k \in S |-> bind[same[k]]], DOMAIN nodes)
        /\ Disjoint([k \in S |-> bind[same[k]]])
    BY <2>2, <2>3, FewerRowsKeep
  <2> QED
    BY <2>1, <2>4
<1>4. CASE RemoveNode(c)
  <2> DEFINE n == NodeOf(job[c].id)
             S == {id \in DOMAIN bind : bind[id].node # n}
             left == DOMAIN nodes \ {n}
             same == [k \in S |-> k]
  <2>1. bind' = [k \in S |-> bind[same[k]]] /\ DOMAIN nodes' = left
    BY <1>4 DEF RemoveNode, Restrict
  <2>2. /\ same \in [S -> DOMAIN bind] /\ \A k \in S : same[k] = k
        /\ \A k \in S : NodeOf(k) \in left
    BY DEF RowsOfNodes
  <2> HIDE DEF S, same, left
  <2>3. /\ \A k \in S : NodeOf(k) = NodeOf(same[k]) /\ NodeOf(k) \in left
        /\ \A k1, k2 \in S : k1 # k2 => same[k1] # same[k2]
    BY <2>2
  <2>4. RowsOfNodes([k \in S |-> bind[same[k]]], left) /\ Disjoint([k \in S |-> bind[same[k]]])
    BY <2>2, <2>3, FewerRowsKeep
  <2> QED
    BY <2>1, <2>4
<1>5. CASE \/ Lookup(c) \/ Find(c) \/ AllocateMountpoint(c) \/ AllocatePort(c)
           \/ EnsureStep(c) \/ TryEnsure(c) \/ GetBinding(c)
           \/ AgentStop(c) \/ AgentRestart(c) \/ ActivateOnNode(c)
           \/ DestroyMountpoint(c) \/ ListOfNode(c) \/ StopAllOfNode(c)
           \/ Teardown(c) \/ PlanFirewall(c) \/ ApplyFirewall(c)
           \/ ComputeDrift(c) \/ SweepList(c) \/ Converge(c)
  BY <1>5, <1>q DEF Lookup, Find, AllocateMountpoint, AllocatePort, EnsureStep, TryEnsure,
       GetBinding, AgentStop, AgentRestart, ActivateOnNode, DestroyMountpoint, ListOfNode,
       StopAllOfNode, Teardown, PlanFirewall, ApplyFirewall, ComputeDrift, SweepList, Converge
<1> QED
  BY <1>1, <1>2, <1>3, <1>4, <1>5 DEF ThreadStep

\* Registering a node, and the flags of a node or a binding.
LEMMA AdministratorKeeps ==
    ASSUME TopologyInv,
           \/ \E n \in Nodes, h \in Hosts : RegisterNode(n, h) \/ AddNodeByHost(n, h)
           \/ \E n \in Nodes : SetSerial(n) \/ SetMaintenance(n)
           \/ \E id \in Ids : SetFdir(id)
    PROVE  TopologyInv'
<1> USE DEF TopologyInv
<1>1. ASSUME bind' = bind, DOMAIN nodes \subseteq DOMAIN nodes' PROVE TopologyInv'
  BY <1>1 DEF RowsOfNodes
<1>2. ASSUME NEW n \in Nodes, NEW h \in Hosts, RegisterNode(n, h) \/ AddNodeByHost(n, h)
      PROVE  TopologyInv'
  BY <1>1, <1>2 DEF RegisterNode, AddNodeByHost, With
<1>3. ASSUME NEW n \in Nodes, SetSerial(n) \/ SetMaintenance(n) PROVE TopologyInv'
  BY <1>1, <1>3 DEF SetSerial, SetMaintenance
<1>4. ASSUME NEW id \in Ids, SetFdir(id) PROVE TopologyInv'
  <2>1. /\ nodes' = nodes /\ id \in DOMAIN bind
        /\ bind' = [bind EXCEPT ![id].fdir = ~bind[id].fdir]
    BY <1>4 DEF SetFdir
  <2> QED
    BY <2>1, SetterKeeps
<1> QED
  BY <1>2, <1>3, <1>4

\* At a restart of the gateway rows change their key, never their slot or node.
LEMMA RestartKeeps ==
    ASSUME TopologyInv, GatewayRestarts PROVE TopologyInv'
<1> USE DEF TopologyInv
<1> DEFINE S == {Rekeyed(id) : id \in DOMAIN bind}
           from == [k \in S |-> CHOOSE id \in DOMAIN bind : Rekeyed(id) = k]
<1>1. bind' = [k \in S |-> bind[CHOOSE id \in DOMAIN bind : Rekeyed(id) = k]] /\ nodes' = nodes
  BY DEF GatewayRestarts
<1>2. \A id \in DOMAIN bind : NodeOf(Rekeyed(id)) = NodeOf(id)
  BY DEF Rekeyed, NodeOf
<1>3. \A k \in S : from[k] \in DOMAIN bind /\ Rekeyed(from[k]) = k
  OBVIOUS
<1>4. from \in [S -> DOMAIN bind] /\ bind' = [k \in S |-> bind[from[k]]]
  BY <1>1, <1>3
<1> HIDE DEF S, from
<1>5. \A k \in S : NodeOf(k) = NodeOf(from[k]) /\ NodeOf(k) \in DOMAIN nodes
  BY <1>2, <1>3 DEF RowsOfNodes
<1>6. \A k1, k2 \in S : k1 # k2 => from[k1] # from[k2]
  BY <1>3
<1>7. RowsOfNodes([k \in S |-> bind[from[k]]], DOMAIN nodes)
      /\ Disjoint([k \in S |-> bind[from[k]]])
  BY <1>4, <1>5, <1>6, FewerRowsKeep
<1> QED
  BY <1>1, <1>4, <1>7

LEMMA NextKeepsTopology == TopologyInv /\ [RemoteNext]_vars => TopologyInv'
<1> SUFFICES ASSUME TopologyInv, [RemoteNext]_vars PROVE TopologyInv'
  OBVIOUS
<1>q. ASSUME UNCHANGED store PROVE TopologyInv'
  BY <1>q DEF store, TopologyInv
<1>1. ASSUME NEW c \in Clients, CallUseCase(c) PROVE TopologyInv'
  BY <1>q, <1>1 DEF CallUseCase, CallCreate, CallActivate, CallEnsure, CallRestart, CallTuning,
       CallStop, CallRemove, CallDelete, CallFirewall, CallRunOnce, Begin, BeginAt
<1>2. CASE MonitorStatus
  <2>1. /\ nodes' = nodes
        /\ \/ bind' = bind
           \/ \E id \in DOMAIN bind : \E v : bind' = [bind EXCEPT ![id].status = v]
    BY <1>2 DEF MonitorStatus
  <2> QED
    BY <2>1, SetterKeeps DEF TopologyInv
<1>3. CASE MonitorTick \/ MonitorProbe \/ MonitorEnsure \/ MonitorRestart \/ MonitorRests
  BY <1>q, <1>3 DEF MonitorTick, MonitorProbe, MonitorEnsure, MonitorRestart, MonitorRests
<1>4. CASE \/ JanusRestarts
           \/ \E n \in Nodes : NodeReboots(n) \/ NodeLost(n) \/ NodeBack(n)
  BY <1>q, <1>4 DEF JanusRestarts, NodeReboots, NodeLost, NodeBack
<1>5. CASE UNCHANGED vars
  BY <1>q, <1>5 DEF vars, store
<1> QED
  BY <1>1, <1>2, <1>3, <1>4, <1>5, ThreadStepKeeps, AdministratorKeeps, RestartKeeps
     DEF RemoteNext, MonitorStep

-----------------------------------------------------------------------------
(* The initial topology.                                                   *)

\* A finite set can be numbered.
LEMMA NumberingExists ==
    ASSUME NEW S, IsFiniteSet(S)
    PROVE  Numbering(S) \in [S -> 0 .. Cardinality(S) - 1] /\ IsInjective(Numbering(S))
<1>1. Cardinality(S) \in Nat /\ \E f : f \in Bijection(1 .. Cardinality(S), S)
  BY FS_CardinalityType DEF ExistsBijection
<1>2. PICK f \in [1 .. Cardinality(S) -> S] :
        /\ \A x \in S : \E i \in 1 .. Cardinality(S) : f[i] = x
        /\ \A i, j \in 1 .. Cardinality(S) : f[i] = f[j] => i = j
  BY <1>1 DEF Bijection, Injection, Surjection, IsInjective
<1> DEFINE g == [x \in S |-> (CHOOSE i \in 1 .. Cardinality(S) : f[i] = x) - 1]
<1>3. \A x \in S : (CHOOSE i \in 1 .. Cardinality(S) : f[i] = x) \in 1 .. Cardinality(S)
                   /\ f[CHOOSE i \in 1 .. Cardinality(S) : f[i] = x] = x
  BY <1>2
<1>4. /\ g \in [S -> 0 .. Cardinality(S) - 1]
      /\ \A x \in S : g[x] + 1 \in 1 .. Cardinality(S) /\ f[g[x] + 1] = x
  BY <1>1, <1>3
<1> HIDE DEF g
<1>5. IsInjective(g)
  BY <1>4 DEF IsInjective
<1> QED
  BY <1>4, <1>5 DEF Numbering

\* Windows of different ordinals do not overlap.
LEMMA WindowsApart ==
    ASSUME NEW a \in Nat, NEW b \in Nat, NEW i \in Nat, NEW j \in Nat, NEW w \in Nat,
           i < w, j < w, a * w + i = b * w + j
    PROVE  a = b /\ i = j
<1>1. ASSUME NEW x \in Nat, NEW y \in Nat, x < y PROVE x * w + w <= y * w
  <2>1. (y - x - 1) \in Nat /\ (y - x - 1) * w \in Nat
    BY <1>1
  <2>2. y * w = x * w + w + (y - x - 1) * w
    BY <1>1
  <2>3. x * w \in Nat /\ y * w \in Nat
    OBVIOUS
  <2> QED
    BY <2>1, <2>2, <2>3
<1>2. a * w \in Nat /\ b * w \in Nat
  OBVIOUS
<1>3. ~(a < b)
  BY <1>1, <1>2
<1>4. ~(b < a)
  BY <1>1, <1>2
<1>5. a = b
  BY <1>3, <1>4
<1> QED
  BY <1>2, <1>5

LEMMA InitTopology == RemoteInit => TopologyInv
<1> SUFFICES ASSUME RemoteInit PROVE TopologyInv
  OBVIOUS
<1> DEFINE ord == Numbering(Onboarded)
           pos == Numbering(Sensors)
           Dom == {"serial"} \X Onboarded \X Sensors
           slotOf(n, s) == [mp |-> RemoteMpMin + ord[n] * Window + pos[s],
                            port |-> RemotePortMin + 2 * (ord[n] * Window + pos[s])]
<1>1. /\ DOMAIN nodes = Onboarded
      /\ bind = [id \in Dom |->
                   [NewRow(id, slotOf(NodeOf(id), SensorOf(id))) EXCEPT !.status = "online"]]
  BY DEF RemoteInit
<1>2. IsFiniteSet(Onboarded) /\ IsFiniteSet(Sensors) /\ Window \in Nat
      /\ Cardinality(Sensors) <= Window /\ Cardinality(Sensors) \in Nat
      /\ Cardinality(Onboarded) \in Nat
  BY RemoteAssumption, FS_Subset, FS_CardinalityType
<1>3. /\ ord \in [Onboarded -> 0 .. Cardinality(Onboarded) - 1] /\ IsInjective(ord)
      /\ pos \in [Sensors -> 0 .. Cardinality(Sensors) - 1] /\ IsInjective(pos)
  BY <1>2, NumberingExists
<1> HIDE DEF ord, pos
<1>4. /\ \A n \in Onboarded : ord[n] \in Nat
      /\ \A s \in Sensors : pos[s] \in Nat /\ pos[s] < Window
      /\ \A n, m \in Onboarded : ord[n] = ord[m] => n = m
      /\ \A s, t \in Sensors : pos[s] = pos[t] => s = t
  BY <1>2, <1>3 DEF IsInjective
<1> DEFINE at(id) == ord[NodeOf(id)] * Window + pos[SensorOf(id)]
<1>5. \A id \in Dom : NodeOf(id) \in Onboarded /\ SensorOf(id) \in Sensors
                      /\ id = <<"serial", NodeOf(id), SensorOf(id)>>
  BY DEF NodeOf, SensorOf
<1>6. \A id \in Dom : at(id) \in Nat
  BY <1>2, <1>4, <1>5
<1>7. \A i, j \in Dom : i # j => at(i) # at(j)
  <2> SUFFICES ASSUME NEW i \in Dom, NEW j \in Dom, at(i) = at(j) PROVE i = j
    OBVIOUS
  <2>0. /\ ord[NodeOf(i)] \in Nat /\ ord[NodeOf(j)] \in Nat
        /\ pos[SensorOf(i)] \in Nat /\ pos[SensorOf(j)] \in Nat
        /\ pos[SensorOf(i)] < Window /\ pos[SensorOf(j)] < Window
        /\ ord[NodeOf(i)] * Window + pos[SensorOf(i)] = ord[NodeOf(j)] * Window + pos[SensorOf(j)]
    BY <1>2, <1>4, <1>5
  <2>1. ord[NodeOf(i)] = ord[NodeOf(j)] /\ pos[SensorOf(i)] = pos[SensorOf(j)]
    <3> DEFINE a == ord[NodeOf(i)]
               b == ord[NodeOf(j)]
               p == pos[SensorOf(i)]
               q == pos[SensorOf(j)]
    <3>1. /\ a \in Nat /\ b \in Nat /\ p \in Nat /\ q \in Nat /\ Window \in Nat
          /\ p < Window /\ q < Window /\ a * Window + p = b * Window + q
      BY <1>2, <2>0
    <3> HIDE DEF a, b, p, q
    <3>2. a = b /\ p = q
      BY <3>1, WindowsApart
    <3> QED
      BY <3>2 DEF a, b, p, q
  <2> QED
    BY <1>4, <1>5, <2>1
<1>8. \A id \in Dom : /\ DOMAIN bind[id] = RowFields /\ bind[id].node = NodeOf(id)
                      /\ bind[id].mp = RemoteMpMin + at(id)
                      /\ bind[id].port = RemotePortMin + 2 * at(id)
  <2> SUFFICES ASSUME NEW id \in Dom
               PROVE  /\ DOMAIN bind[id] = RowFields /\ bind[id].node = NodeOf(id)
                      /\ bind[id].mp = RemoteMpMin + at(id)
                      /\ bind[id].port = RemotePortMin + 2 * at(id)
    OBVIOUS
  <2> DEFINE slot == slotOf(NodeOf(id), SensorOf(id))
             row == NewRow(id, slot)
  <2>1. bind[id] = [row EXCEPT !.status = "online"]
    BY <1>1
  <2>2. slot.mp = RemoteMpMin + at(id) /\ slot.port = RemotePortMin + 2 * at(id)
    BY <1>2, <1>4, <1>5 DEF RemoteMpMin, RemotePortMin
  <2> HIDE DEF slot
  <2>3. /\ DOMAIN row = RowFields /\ row.node = NodeOf(id) /\ row.mp = slot.mp
        /\ row.port = slot.port
    BY DEF NewRow, RowFields
  <2> HIDE DEF row, at, slotOf
  <2>4. /\ DOMAIN bind[id] = RowFields /\ bind[id].node = NodeOf(id)
        /\ bind[id].mp = slot.mp /\ bind[id].port = slot.port
    BY <2>1, <2>3 DEF RowFields
  <2> QED
    BY <2>2, <2>4
<1> HIDE DEF at, slotOf
<1>9. RowsOfNodes(bind, DOMAIN nodes)
  BY <1>1, <1>5, <1>8 DEF RowsOfNodes
<1>10. Disjoint(bind)
  <2> SUFFICES ASSUME NEW i \in Dom, NEW j \in Dom, i # j PROVE Apart(bind[i], bind[j])
    BY <1>1 DEF Disjoint
  <2>1. at(i) \in Nat /\ at(j) \in Nat /\ at(i) # at(j)
    BY <1>6, <1>7
  <2> QED
    BY <1>8, <2>1 DEF Apart, RemoteMpMin, RemotePortMin
<1> QED
  BY <1>9, <1>10 DEF TopologyInv

-----------------------------------------------------------------------------
(* The theorems.                                                           *)

\* Whatever the threads, the monitor and the faults do, every binding of the
\* topology file is complete, belongs to a registered node and has a slot of
\* its own (stream_bindings: _validate_remote runs under the file's lock).
THEOREM TopologyInvariant == RemoteSpec => []TopologyInv
  BY InitTopology, NextKeepsTopology, PTL DEF RemoteSpec

\* Two bindings never share a mountpoint or a port, however the advisory
\* allocations of any number of threads interleave with each other's writes,
\* deletions, rekeying and restarts.
THEOREM RemoteSlotsAreDisjoint == RemoteSpec => []RemoteSlotsDisjoint
<1>1. TopologyInv => RemoteSlotsDisjoint
  BY DEF TopologyInv, Disjoint, Apart, RemoteSlotsDisjoint
<1> QED
  BY <1>1, TopologyInvariant, PTL

\* A binding never outlives its node, nor is one written for a node deleted
\* meanwhile.
THEOREM BindingsHaveNodes == RemoteSpec => []BindingHasNode
<1>1. TopologyInv => BindingHasNode
  BY DEF TopologyInv, RowsOfNodes, BindingHasNode
<1> QED
  BY <1>1, TopologyInvariant, PTL
=============================================================================
