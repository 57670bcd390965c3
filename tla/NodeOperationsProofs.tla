------------------------ MODULE NodeOperationsProofs ------------------------
(***************************************************************************)
(* The journal and the threads of the control plane implement the service  *)
(* of module OperationService, proved for any set of nodes and any bounds. *)
(***************************************************************************)
EXTENDS NodeOperations, WellFoundedInduction, TLAPS

-----------------------------------------------------------------------------
(* The inductive invariant.                                                *)

Statuses == {"running", "succeeded", "failed", "interrupted"}
Kinds == {"provision", "rotate", "activate"}
States == {"none", "failed", "no_camera", "ready"} \cup InProgress

\* What follows a step in the programs of the operations.
After == [token |-> "legacy", legacy |-> "echo", echo |-> "push", push |-> "probe",
          probe |-> "deploy", deploy |-> "ready", ready |-> "finish", mint |-> "settoken",
          settoken |-> "persist", persist |-> "finish", streams |-> "finish"]
StepNames == DOMAIN After \cup {"finish"}

\* The rest of a program: its steps in order, ending with the journal entry.
Program(s) ==
    /\ s \in Seq(StepNames)
    /\ \A i \in 1 .. Len(s) :
         IF i = Len(s) THEN s[i] = "finish"
         ELSE s[i] # "finish" /\ s[i + 1] = After[s[i]]

RowsInv ==
    /\ DOMAIN row \subseteq Nodes
    /\ row \in [DOMAIN row -> [pstate : States, by : {0} \cup Ops, pinned : BOOLEAN, gen : 1 .. gens,
                               settled : BOOLEAN]]
    /\ token \in [Nodes -> Nat] /\ agent \in [Nodes -> Nat]
    /\ minted \in Nat /\ gens \in Nat
    \* A secret still to be dropped belongs to a node registered before that.
    /\ \A n \in DOMAIN row : row[n].settled => n \notin orphans

ThreadState == [node : Nodes \cup {"none"}, rest : Seq(StepNames), tok : Nat,
                gen : 0 .. gens, failed : BOOLEAN]

\* An operation without a thread has no node, one with a thread has its node
\* and the generation of the row it was started for.
ThreadsInv ==
    /\ thread \in [Ops -> ThreadState]
    /\ \A o \in Ops : thread[o] # NoThread => NodeOf(o) \in Nodes /\ thread[o].gen >= 1
    /\ \A o \in Ops : Program(thread[o].rest)
    /\ proc # "up" => \A o \in Ops : ~Live(o)

\* The journal has one record of an operation, of the node its thread has; at
\* most one record of a node is running; a live operation is on record as
\* running, unless its record was lost with a damaged journal.
JournalInv ==
    /\ journal \subseteq [op : Ops, node : Nodes, kind : Kinds, status : Statuses]
    /\ torn \in BOOLEAN /\ intact \in BOOLEAN /\ (intact => ~torn)
    /\ \A r, q \in journal : r.op = q.op => r = q
    /\ \A r, q \in journal :
         r.node = q.node /\ r.status = "running" /\ q.status = "running" => r = q
    /\ \A r \in journal : /\ thread[r.op] # NoThread /\ NodeOf(r.op) = r.node
                          /\ Live(r.op) => r.status = "running"
    /\ intact => \A o \in Ops : Live(o) => \E r \in journal : r.op = o

OpsInv == RowsInv /\ ThreadsInv /\ JournalInv

\* The node an operation works on is the one it was started for, and nobody is
\* deleting it.
Undisturbed(o) ==
    LET n == NodeOf(o) IN
    intact /\ n \in DOMAIN row /\ row[n].gen = thread[o].gen /\ row[n].settled

\* From the step that reads the token on, provisioning has the token of the
\* gateway in hand; from the deployment on the agent has it too.
TokenOf(o) ==
    Undisturbed(o) /\ Live(o) =>
        /\ Head(thread[o].rest) \in {"legacy", "echo", "push", "probe", "deploy", "ready"} =>
               thread[o].tok = token[NodeOf(o)]
        /\ At(o, "ready") => agent[NodeOf(o)] = token[NodeOf(o)]
TokenInv == \A o \in Ops : TokenOf(o)

-----------------------------------------------------------------------------
(* The operators the model is built from.                                  *)

\* A set of operation numbers that is not empty has a smallest one.
LEMMA MinIsMember ==
    ASSUME NEW S \in SUBSET Nat, S # {} PROVE Min(S) \in S
<1> DEFINE R == {ss \in Nat \X Nat : ss[1] < ss[2]}
<1>1. OpToRel(<, Nat) = R
  BY Zenon DEF OpToRel
<1>2. PICK n \in S : \A m \in S : ~(<<m, n>> \in R)
  BY <1>1, WFMin, NatLessThanWellFounded
<1>3. ASSUME NEW m \in S PROVE n =< m
  <2>1. <<m, n>> \notin R
    BY <1>2
  <2>2. <<m, n>> \in Nat \X Nat
    OBVIOUS
  <2> QED
    BY <2>1, <2>2
<1> QED
  BY <1>3, Zenon DEF Min

\* The three programs are programs, and not empty.
LEMMA ProgramsAre ==
    ASSUME NEW kind \in Kinds
    PROVE  Program(Programs(kind)) /\ Programs(kind) # <<>>
           /\ Head(Programs(kind)) \in {"token", "mint", "streams"}
<1>1. CASE kind = "provision"
  BY <1>1 DEF Programs, Program, StepNames, After
<1>2. CASE kind = "rotate"
  BY <1>2 DEF Programs, Program, StepNames, After
<1>3. CASE kind = "activate"
  BY <1>3 DEF Programs, Program, StepNames, After
<1> QED
  BY <1>1, <1>2, <1>3 DEF Kinds

\* What is left after a step, and after a return or an exception.
LEMMA ProgramGoesOn ==
    /\ Program(<<"finish">>) /\ Program(<<>>)
    /\ \A s : Program(s) /\ s # <<>> =>
         /\ Program(Tail(s))
         /\ Head(s) = "finish" <=> Tail(s) = <<>>
         /\ Tail(s) # <<>> => Head(Tail(s)) = After[Head(s)]
<1>1. Program(<<"finish">>) /\ Program(<<>>)
  BY DEF Program, StepNames
<1>2. ASSUME NEW s, Program(s), s # <<>>
      PROVE  /\ Program(Tail(s))
             /\ Head(s) = "finish" <=> Tail(s) = <<>>
             /\ Tail(s) # <<>> => Head(Tail(s)) = After[Head(s)]
  <2>1. /\ s \in Seq(StepNames) /\ Len(s) \in Nat /\ Len(s) >= 1 /\ Head(s) = s[1]
        /\ Tail(s) \in Seq(StepNames) /\ Len(Tail(s)) = Len(s) - 1
        /\ \A i \in 1 .. (Len(s) - 1) : Tail(s)[i] = s[i + 1]
    BY <1>2 DEF Program
  <2>2. Tail(s) = <<>> <=> Len(s) = 1
    BY <2>1
  <2>t. \A i \in 1 .. (Len(s) - 1) : Tail(s)[i] = s[i + 1]
    BY <2>1
  <2>n. \A i \in 1 .. Len(s) : IF i = Len(s) THEN s[i] = "finish"
                              ELSE s[i] # "finish" /\ s[i + 1] = After[s[i]]
    BY <1>2 DEF Program
  <2>3. Program(Tail(s))
    <3> SUFFICES ASSUME NEW i \in 1 .. Len(Tail(s))
                 PROVE  IF i = Len(Tail(s)) THEN Tail(s)[i] = "finish"
                        ELSE Tail(s)[i] # "finish" /\ Tail(s)[i + 1] = After[Tail(s)[i]]
      BY <2>1 DEF Program
    <3> DEFINE j == i + 1
    <3>l. Len(Tail(s)) = Len(s) - 1 /\ Len(s) \in Nat
      BY <2>1
    <3>i. i \in 1 .. (Len(s) - 1)
      BY <3>l, Zenon
    <3>1. /\ j \in 1 .. Len(s)
          /\ i = Len(Tail(s)) <=> j = Len(s)
          /\ i # Len(Tail(s)) => j \in 1 .. (Len(s) - 1)
      BY <3>l, <3>i
    <3>e. Tail(s)[i] = s[j]
      BY <2>t, <3>i, Zenon
    <3> HIDE DEF j
    <3>2. ASSUME i # Len(Tail(s)) PROVE Tail(s)[j] = s[j + 1]
      <4>1. j \in 1 .. (Len(s) - 1)
        BY <3>1, <3>2
      <4> QED
        BY <2>t, <4>1, Zenon
    <3>3. IF j = Len(s) THEN s[j] = "finish" ELSE s[j] # "finish" /\ s[j + 1] = After[s[j]]
      BY <2>n, <3>1
    <3>4. CASE i = Len(Tail(s))
      BY <3>1, <3>e, <3>3, <3>4
    <3>5. CASE i # Len(Tail(s))
      BY <3>1, <3>e, <3>2, <3>3, <3>5 DEF j
    <3> QED
      BY <3>4, <3>5
  <2>4. Head(s) = "finish" <=> Tail(s) = <<>>
    <3>1. 1 \in 1 .. Len(s)
      BY <2>1
    <3>2. IF 1 = Len(s) THEN s[1] = "finish" ELSE s[1] # "finish"
      BY <2>n, <3>1
    <3> QED
      BY <2>1, <2>2, <3>2
  <2>5. ASSUME Tail(s) # <<>> PROVE Head(Tail(s)) = After[Head(s)]
    <3>1. 1 # Len(s) /\ 1 \in 1 .. Len(s) /\ 1 \in 1 .. (Len(s) - 1)
      BY <2>1, <2>2, <2>5
    <3>2. Head(Tail(s)) = Tail(s)[1] /\ Tail(s)[1] = s[1 + 1]
      BY <2>1, <2>5, <3>1
    <3>3. s[1 + 1] = After[s[1]]
      BY <2>n, <3>1
    <3> QED
      BY <2>1, <3>2, <3>3
  <2> QED
    BY <2>3, <2>4, <2>5
<1> QED
  BY <1>1, <1>2

\* The record that StatusOf chooses is the only one there is.
LEMMA ChosenRecord ==
    ASSUME NEW J, \A r, q \in J : r.op = q.op => r = q, NEW r \in J
    PROVE  (CHOOSE q \in J : q.op = r.op) = r
  OBVIOUS
-----------------------------------------------------------------------------
(* A step of an operation that is not its last.                            *)

\* The thread of the operation goes on; no other thread moves.
Moves(o) ==
    /\ thread' \in [Ops -> ThreadState']
    /\ \A p \in Ops \ {o} : thread'[p] = thread[p]
    /\ thread'[o].node = thread[o].node /\ thread'[o].gen = thread[o].gen
    /\ Program(thread'[o].rest) /\ thread'[o].rest # <<>>

\* Rows keep their generation, and only the operation's node is touched.
Touches(o) ==
    /\ DOMAIN row' = DOMAIN row
    /\ row' \in [DOMAIN row -> [pstate : States, by : {0} \cup Ops, pinned : BOOLEAN, gen : 1 .. gens,
                                settled : BOOLEAN]]
    /\ \A n \in DOMAIN row : row'[n].gen = row[n].gen /\ row'[n].settled = row[n].settled
    /\ token' \in [Nodes -> Nat] /\ agent' \in [Nodes -> Nat] /\ minted' \in Nat
    /\ \A n \in Nodes \ {NodeOf(o)} : token'[n] = token[n] /\ agent'[n] = agent[n]

\* A thread with some of its fields changed.
SameCall(x, y, r) == y \in ThreadState /\ y.rest = r /\ y.node = x.node /\ y.gen = x.gen
LEMMA ThreadChanged ==
    ASSUME NEW x \in ThreadState, NEW r \in Seq(StepNames), NEW v \in Nat, NEW f \in BOOLEAN
    PROVE  /\ SameCall(x, [x EXCEPT !.rest = r], r)
           /\ SameCall(x, [x EXCEPT !.rest = r, !.tok = v], r)
           /\ SameCall(x, [x EXCEPT !.rest = r, !.failed = f], r)
  BY DEF ThreadState, SameCall

\* Going on, returning early and raising keep the thread at work.
LEMMA GoingOnMoves ==
    ASSUME ThreadsInv, gens' = gens, NEW o \in Ops, NEW step \in DOMAIN After, At(o, step),
           \/ Goes(o) \/ Returns(o) \/ Raises(o)
           \/ \E v \in Nat : thread' = [thread EXCEPT ![o].rest = Tail(@), ![o].tok = v]
    PROVE  Moves(o) /\ NodeOf(o) \in Nodes
<1> DEFINE x == thread[o]
<1>1. /\ x.rest # <<>> /\ Head(x.rest) = step /\ step # "finish"
      /\ Program(x.rest) /\ x \in ThreadState
  BY DEF At, Live, ThreadsInv, After
<1>2. Program(Tail(x.rest)) /\ Tail(x.rest) # <<>>
  BY <1>1, ProgramGoesOn
<1>3. Program(<<"finish">>) /\ <<"finish">> # <<>>
  BY ProgramGoesOn
<1>4. thread \in [Ops -> ThreadState] /\ ThreadState' = ThreadState
  BY DEF ThreadsInv, ThreadState
<1>5. ASSUME NEW r, Program(r), r # <<>>, NEW y, SameCall(x, y, r),
             thread' = [thread EXCEPT ![o] = y]
      PROVE  Moves(o)
  <2>1. thread'[o] = y /\ \A p \in Ops \ {o} : thread'[p] = thread[p]
    BY <1>4, <1>5
  <2>2. thread' \in [Ops -> ThreadState]
    BY <1>4, <1>5 DEF SameCall
  <2> QED
    BY <1>4, <1>5, <2>1, <2>2 DEF Moves, SameCall
<1>s. Tail(x.rest) \in Seq(StepNames) /\ <<"finish">> \in Seq(StepNames)
  BY <1>2, <1>3 DEF Program
<1>6. ASSUME Goes(o) PROVE Moves(o)
  <2>1. thread' = [thread EXCEPT ![o] = [x EXCEPT !.rest = Tail(x.rest)]]
    BY <1>4, <1>6 DEF Goes
  <2>2. SameCall(x, [x EXCEPT !.rest = Tail(x.rest)], Tail(x.rest))
    BY <1>1, <1>s, ThreadChanged
  <2> QED
    BY <1>2, <1>5, <2>1, <2>2
<1>7. ASSUME Returns(o) PROVE Moves(o)
  <2>1. thread' = [thread EXCEPT ![o] = [x EXCEPT !.rest = <<"finish">>]]
    BY <1>4, <1>7 DEF Returns
  <2>2. SameCall(x, [x EXCEPT !.rest = <<"finish">>], <<"finish">>)
    BY <1>1, <1>s, ThreadChanged
  <2> QED
    BY <1>3, <1>5, <2>1, <2>2
<1>8. ASSUME Raises(o) PROVE Moves(o)
  <2>1. thread' = [thread EXCEPT ![o] = [x EXCEPT !.rest = <<"finish">>, !.failed = TRUE]]
    BY <1>4, <1>8 DEF Raises
  <2>2. SameCall(x, [x EXCEPT !.rest = <<"finish">>, !.failed = TRUE], <<"finish">>)
    BY <1>1, <1>s, ThreadChanged
  <2> QED
    BY <1>3, <1>5, <2>1, <2>2
<1>9. ASSUME NEW v \in Nat, thread' = [thread EXCEPT ![o].rest = Tail(@), ![o].tok = v]
      PROVE  Moves(o)
  <2>1. thread' = [thread EXCEPT ![o] = [x EXCEPT !.rest = Tail(x.rest), !.tok = v]]
    BY <1>4, <1>9
  <2>2. SameCall(x, [x EXCEPT !.rest = Tail(x.rest), !.tok = v], Tail(x.rest))
    BY <1>1, <1>s, ThreadChanged
  <2> QED
    BY <1>2, <1>5, <2>1, <2>2
<1>10. NodeOf(o) \in Nodes
  BY <1>1 DEF ThreadsInv, NoThread
<1> QED
  BY <1>6, <1>7, <1>8, <1>9, <1>10

\* Every step but the last one is such a move.
LEMMA WorkMoves ==
    ASSUME OpsInv, NEW o \in Ops, OpStep(o), ~FinishOp(o)
    PROVE  /\ Moves(o) /\ Touches(o) /\ NodeOf(o) \in Nodes
           /\ UNCHANGED <<gens, journalData, process>>
<1> USE DEF OpsInv
<1>s. /\ {"token", "legacy", "echo", "push", "probe", "deploy", "ready", "mint", "settoken",
          "persist", "streams"} \subseteq DOMAIN After
      /\ {"reachable", "probing", "failed", "no_camera", "ready"} \subseteq States
  BY DEF After, States, InProgress
<1>r. ASSUME UNCHANGED <<row, token, agent>>, minted' \in Nat PROVE Touches(o)
  BY <1>r DEF Touches, RowsInv
<1>f. ASSUME NEW state \in States, Mark(o, state) \/ Fail(o, state), UNCHANGED <<token, minted>>,
             agent' \in [Nodes -> Nat], \A n \in Nodes \ {NodeOf(o)} : agent'[n] = agent[n]
      PROVE  Touches(o) /\ (Goes(o) \/ Returns(o) \/ Raises(o))
  BY <1>f DEF Mark, Fail, Touches, RowsInv
<1>m. ASSUME NEW step \in DOMAIN After, At(o, step), gens' = gens,
             \/ Goes(o) \/ Returns(o) \/ Raises(o)
             \/ \E v \in Nat : thread' = [thread EXCEPT ![o].rest = Tail(@), ![o].tok = v]
      PROVE  Moves(o) /\ NodeOf(o) \in Nodes
  BY <1>m, GoingOnMoves
<1>a. ASSUME \/ agent' = agent
             \/ agent' = [agent EXCEPT ![NodeOf(o)] = thread[o].tok]
      PROVE  agent' \in [Nodes -> Nat] /\ \A n \in Nodes \ {NodeOf(o)} : agent'[n] = agent[n]
  BY <1>a DEF RowsInv, ThreadsInv, ThreadState
<1>1. CASE ProvisionToken(o)
  <2>1. UNCHANGED <<nodeData, others>> /\ At(o, "token")
    BY <1>1 DEF ProvisionToken
  <2>2. Raises(o) \/ \E v \in Nat : thread' = [thread EXCEPT ![o].rest = Tail(@), ![o].tok = v]
    <3>1. CASE NodeOf(o) \in DOMAIN row
      <4>1. token[NodeOf(o)] \in Nat
        BY <3>1 DEF RowsInv
      <4> QED
        BY <1>1, <3>1, <4>1 DEF ProvisionToken
    <3> QED
      BY <1>1, <3>1 DEF ProvisionToken
  <2>3. Moves(o) /\ NodeOf(o) \in Nodes
    BY <1>s, <1>m, <2>1, <2>2 DEF nodeData
  <2>4. Touches(o) /\ UNCHANGED <<gens, journalData, process>>
    BY <1>r, <2>1 DEF others, nodeData, RowsInv
  <2> QED
    BY <2>3, <2>4
<1>11. CASE ProvisionLegacy(o)
  <2>1. UNCHANGED <<row, agent, gens, others>> /\ At(o, "legacy")
    BY <1>11 DEF ProvisionLegacy
  <2>2. /\ \/ Goes(o) \/ Raises(o)
           \/ thread' = [thread EXCEPT ![o].rest = Tail(@), ![o].tok = minted + 1]
        /\ token' = token \/ token' = [token EXCEPT ![NodeOf(o)] = minted + 1]
        /\ minted' = minted \/ minted' = minted + 1
    BY <1>11 DEF ProvisionLegacy, SetNodeSecret
  <2>3. minted + 1 \in Nat /\ minted \in Nat
    BY DEF RowsInv
  <2>4. Moves(o) /\ NodeOf(o) \in Nodes
    BY <1>s, <1>m, <2>1, <2>2, <2>3
  <2>5. /\ token' \in [Nodes -> Nat] /\ minted' \in Nat
        /\ \A n \in Nodes \ {NodeOf(o)} : token'[n] = token[n]
    BY <2>2, <2>3 DEF RowsInv
  <2>6. Touches(o)
    BY <2>1, <2>5 DEF Touches, RowsInv
  <2> QED
    BY <2>1, <2>4, <2>6 DEF others
<1>12. CASE OpRaises(o)
  <2>1. UNCHANGED <<nodeData, others>> /\ Raises(o) /\ Live(o) /\ Head(thread[o].rest) # "finish"
    BY <1>12 DEF OpRaises, At
  <2>2. PICK step \in DOMAIN After : At(o, step)
    <3>1. thread[o].rest \in Seq(StepNames) /\ thread[o].rest # <<>>
      BY <2>1 DEF ThreadsInv, ThreadState, Live
    <3>2. Head(thread[o].rest) \in StepNames
      BY <3>1
    <3> QED
      BY <2>1, <3>2 DEF StepNames, At
  <2>3. Moves(o) /\ NodeOf(o) \in Nodes
    BY <1>m, <2>1, <2>2 DEF nodeData
  <2>4. Touches(o) /\ UNCHANGED <<gens, journalData, process>>
    BY <1>r, <2>1 DEF others, nodeData, RowsInv
  <2> QED
    BY <2>3, <2>4
<1>2. CASE ProvisionEcho(o)
  BY <1>s, <1>f, <1>m, <1>a, <1>2 DEF ProvisionEcho, others
<1>3. CASE ProvisionPush(o)
  BY <1>s, <1>f, <1>m, <1>a, <1>3 DEF ProvisionPush, others
<1>4. CASE ProvisionProbe(o)
  <2>1. UNCHANGED <<token, agent, minted, gens, others>> /\ At(o, "probe")
    BY <1>4 DEF ProvisionProbe
  <2>2. Touches(o) /\ (Goes(o) \/ Returns(o) \/ Raises(o))
    <3>1. CASE UNCHANGED row /\ (Goes(o) \/ Raises(o))
      BY <1>r, <2>1, <3>1 DEF RowsInv
    <3>2. CASE Fail(o, "no_camera") \/ Fail(o, "failed")
      BY <1>s, <1>f, <1>a, <2>1, <3>2
    <3> QED
      BY <1>4, <3>1, <3>2 DEF ProvisionProbe
  <2> QED
    BY <1>s, <1>m, <2>1, <2>2 DEF others
<1>5. CASE ProvisionDeploy(o)
  <2>1. /\ UNCHANGED <<token, minted, gens, others>> /\ At(o, "deploy")
        /\ agent' = agent \/ agent' = [agent EXCEPT ![NodeOf(o)] = thread[o].tok]
    BY <1>5 DEF ProvisionDeploy
  <2>2. Touches(o) /\ (Goes(o) \/ Returns(o) \/ Raises(o))
    <3>1. CASE UNCHANGED row /\ Goes(o)
      BY <1>a, <2>1, <3>1 DEF RowsInv, Touches
    <3>2. CASE Fail(o, "failed")
      BY <1>s, <1>f, <1>a, <2>1, <3>2
    <3> QED
      BY <1>5, <3>1, <3>2 DEF ProvisionDeploy
  <2> QED
    BY <1>s, <1>m, <2>1, <2>2 DEF others
<1>6. CASE ProvisionReady(o)
  BY <1>s, <1>f, <1>m, <1>a, <1>6 DEF ProvisionReady, others
<1>7. CASE RotateMint(o)
  <2>1. minted + 1 \in Nat /\ minted \in Nat
    BY DEF RowsInv
  <2>2. UNCHANGED <<row, token, agent, gens, others>> /\ At(o, "mint") /\ minted' \in Nat
    BY <1>7, <2>1 DEF RotateMint
  <2>3. \/ Raises(o)
        \/ \E v \in Nat : thread' = [thread EXCEPT ![o].rest = Tail(@), ![o].tok = v]
    BY <1>7, <2>1 DEF RotateMint
  <2> QED
    BY <1>s, <1>m, <1>r, <2>2, <2>3 DEF others
<1>8. CASE RotateSetToken(o)
  <2>1. /\ UNCHANGED <<row, token, minted, gens, others>> /\ At(o, "settoken")
        /\ agent' = agent \/ agent' = [agent EXCEPT ![NodeOf(o)] = thread[o].tok]
        /\ Goes(o) \/ Returns(o)
    BY <1>8 DEF RotateSetToken
  <2>2. Touches(o)
    BY <1>a, <2>1 DEF RowsInv, Touches
  <2> QED
    BY <1>s, <1>m, <2>1, <2>2 DEF others
<1>9. CASE RotatePersist(o)
  <2>1. /\ UNCHANGED <<row, agent, minted, gens, others>> /\ At(o, "persist")
        /\ Goes(o) \/ Raises(o)
        /\ token' = token \/ token' = [token EXCEPT ![NodeOf(o)] = thread[o].tok]
    BY <1>9 DEF RotatePersist, SetNodeSecret
  <2>2. Touches(o)
    BY <2>1 DEF RowsInv, ThreadsInv, ThreadState, Touches
  <2> QED
    BY <1>s, <1>m, <2>1, <2>2 DEF others
<1>10. CASE ActivateStreams(o)
  <2>1. /\ UNCHANGED <<nodeData, others>> /\ At(o, "streams")
        /\ Goes(o) \/ Raises(o)
    BY <1>10 DEF ActivateStreams
  <2>2. Touches(o) /\ UNCHANGED <<gens, journalData, process>>
    BY <1>r, <2>1 DEF others, nodeData, RowsInv
  <2> QED
    BY <1>s, <1>m, <2>1, <2>2
<1> QED
  BY <1>1, <1>2, <1>3, <1>4, <1>5, <1>6, <1>7, <1>8, <1>9, <1>10, <1>11, <1>12 DEF OpStep
-----------------------------------------------------------------------------
(* The steps that leave the journal and the shape of the threads alone.    *)

SameThreads ==
    \A o \in Ops : /\ Live(o)' <=> Live(o)
                   /\ NodeOf(o)' = NodeOf(o)
                   /\ thread'[o] = NoThread <=> thread[o] = NoThread

\* They keep the journal's invariant, and the service does not notice them.
LEMMA JournalSame ==
    ASSUME JournalInv, SameThreads, UNCHANGED journalData
    PROVE  JournalInv'
  BY DEF JournalInv, SameThreads, journalData

LEMMA ServiceSame ==
    ASSUME SameThreads, UNCHANGED journalData
    PROVE  /\ [o \in Ops |-> StatusOf(o)]' = [o \in Ops |-> StatusOf(o)]
           /\ [n \in Nodes |-> {o \in Ops : Live(o) /\ NodeOf(o) = n}]' =
                  [n \in Nodes |-> {o \in Ops : Live(o) /\ NodeOf(o) = n}]
           /\ intact' = intact
<1>1. \A o \in Ops : StatusOf(o)' = StatusOf(o)
  BY DEF StatusOf, SameThreads, journalData
<1>2. \A n \in Nodes : {o \in Ops : Live(o) /\ NodeOf(o) = n}' =
                          {o \in Ops : Live(o) /\ NodeOf(o) = n}
  BY DEF SameThreads
<1> QED
  BY <1>1, <1>2 DEF journalData

\* A damaged journal has forgotten every operation already when it is moved
\* aside.
LEMMA QuarantineSame ==
    ASSUME JournalInv, SameThreads, torn, Quarantine
    PROVE  /\ [o \in Ops |-> StatusOf(o)]' = [o \in Ops |-> StatusOf(o)]
           /\ [n \in Nodes |-> {o \in Ops : Live(o) /\ NodeOf(o) = n}]' =
                  [n \in Nodes |-> {o \in Ops : Live(o) /\ NodeOf(o) = n}]
           /\ intact' = intact
           /\ JournalInv'
<1>1. \A o \in Ops : StatusOf(o)' = StatusOf(o)
  BY DEF StatusOf, SameThreads, Quarantine
<1>2. \A n \in Nodes : {o \in Ops : Live(o) /\ NodeOf(o) = n}' =
                          {o \in Ops : Live(o) /\ NodeOf(o) = n}
  BY DEF SameThreads
<1>3. torn' \in BOOLEAN /\ ~torn' /\ journal' = {} /\ intact' = intact
  BY Zenon DEF Quarantine
<1>4. JournalInv'
  BY <1>3 DEF JournalInv
<1> QED
  BY <1>1, <1>2, <1>3, <1>4

\* The steps of an operation before its last.
LEMMA WorkKeeps ==
    ASSUME OpsInv, NEW o \in Ops, OpStep(o), ~FinishOp(o)
    PROVE  OpsInv' /\ SameThreads /\ UNCHANGED journalData
<1>1. /\ Moves(o) /\ Touches(o) /\ NodeOf(o) \in Nodes
      /\ UNCHANGED <<gens, journalData, process>>
  BY WorkMoves
<1>2. Live(o)
  BY DEF OpStep, FinishOp, ProvisionToken, ProvisionLegacy, OpRaises, ProvisionEcho, ProvisionPush, ProvisionProbe,
         ProvisionDeploy, ProvisionReady, RotateMint, RotateSetToken, RotatePersist,
         ActivateStreams, At
<1>3. thread[o] # NoThread /\ thread'[o] # NoThread /\ Live(o)'
  BY <1>1, <1>2 DEF Live, NoThread, Moves
<1>4. SameThreads
  BY <1>1, <1>2, <1>3 DEF SameThreads, Moves, Live, NodeOf
<1>5. RowsInv'
  BY <1>1 DEF OpsInv, RowsInv, Touches, process
<1>6. ThreadsInv'
  <2>1. thread' \in [Ops -> ThreadState]'
    BY <1>1 DEF Moves
  <2>2. \A p \in Ops : thread'[p] # NoThread => NodeOf(p)' \in Nodes /\ thread'[p].gen >= 1
    BY <1>1, <1>3 DEF OpsInv, ThreadsInv, Moves, NodeOf
  <2>3. \A p \in Ops : Program(thread'[p].rest)
    BY <1>1 DEF OpsInv, ThreadsInv, Moves
  <2>4. proc' = "up"
    BY <1>1, <1>2 DEF OpsInv, ThreadsInv, process
  <2> QED
    BY <2>1, <2>2, <2>3, <2>4 DEF ThreadsInv, Program
<1>7. JournalInv'
  BY <1>1, <1>4, JournalSame DEF OpsInv
<1> QED
  BY <1>1, <1>4, <1>5, <1>6, <1>7 DEF OpsInv

\* The calls of the administrator, and the reaper's work on the rows.
LEMMA CallsKeep ==
    ASSUME OpsInv, NEW n,
           \/ /\ n \in Nodes
              /\ RegisterNode(n) \/ ConfirmHostKey(n) \/ DeleteNode(n) \/ RemoveNodeSecret(n)
           \/ \E o \in Ops : ReapUnstick(o)
           \/ ReaperDone
    PROVE  OpsInv' /\ SameThreads /\ UNCHANGED journalData
<1> USE DEF OpsInv
<1>1. UNCHANGED <<thread, journalData>>
  BY DEF RegisterNode, ConfirmHostKey, DeleteNode, RemoveNodeSecret, ReapUnstick, ReaperDone
<1>2. SameThreads
  BY <1>1 DEF SameThreads, Live, NodeOf
<1>3. JournalInv'
  BY <1>1, <1>2, JournalSame
<1>4. (gens' = gens \/ gens' = gens + 1) /\ gens \in Nat
  BY DEF RegisterNode, ConfirmHostKey, DeleteNode, RemoveNodeSecret, ReapUnstick, ReaperDone,
         nodeData, RowsInv
<1>5. proc' = proc \/ proc' = "up"
  BY DEF RegisterNode, ConfirmHostKey, DeleteNode, RemoveNodeSecret, ReapUnstick, ReaperDone,
         process
<1>6. ThreadsInv'
  <2>1. thread' \in [Ops -> ThreadState']
    BY <1>1, <1>4 DEF ThreadsInv, ThreadState
  <2> QED
    BY <1>1, <1>5, <2>1 DEF ThreadsInv, Live, NodeOf
<1>7. RowsInv'
  <2>1. CASE n \in Nodes /\ RegisterNode(n)
    <3> DEFINE new == [pstate |-> "none", by |-> 0, pinned |-> FALSE, gen |-> gens + 1,
                       settled |-> n \notin orphans]
    <3>1. /\ row' = [m \in DOMAIN row \cup {n} |-> IF m = n THEN new ELSE row[m]]
          /\ gens' = gens + 1 /\ agent' = agent /\ orphans' = orphans
      BY <2>1 DEF RegisterNode, process
    <3>2. new.settled \in BOOLEAN /\ new.pinned \in BOOLEAN
      BY Zenon
    <3>3. new \in [pstate : States, by : {0} \cup Ops, pinned : BOOLEAN, gen : 1 .. gens',
                   settled : BOOLEAN]
      BY <3>1, <3>2 DEF RowsInv, States
    <3>4. \A m \in DOMAIN row :
            row[m] \in [pstate : States, by : {0} \cup Ops, pinned : BOOLEAN, gen : 1 .. gens',
                        settled : BOOLEAN]
      BY <3>1 DEF RowsInv
    <3>5. token' \in [Nodes -> Nat] /\ minted' \in Nat
      BY <2>1 DEF RegisterNode, SetNodeSecret, RowsInv
    <3>6. DOMAIN row' = DOMAIN row \cup {n}
      BY <3>1
    <3>7. /\ row' \in [DOMAIN row' -> [pstate : States, by : {0} \cup Ops, pinned : BOOLEAN, gen : 1 .. gens',
                                       settled : BOOLEAN]]
      BY <3>1, <3>3, <3>4, <3>6
    <3>8. \A m \in DOMAIN row' : row'[m].settled => m \notin orphans'
      BY <3>1, <3>6 DEF RowsInv
    <3>9. DOMAIN row' \subseteq Nodes /\ agent' \in [Nodes -> Nat] /\ gens' \in Nat
      BY <2>1, <3>1, <3>6 DEF RowsInv
    <3> QED
      BY <3>5, <3>7, <3>8, <3>9 DEF RowsInv
  <2>2. CASE n \in Nodes /\ ConfirmHostKey(n)
    BY <2>2 DEF ConfirmHostKey, RowsInv, process
  <2>3. CASE n \in Nodes /\ DeleteNode(n)
    BY <2>3 DEF DeleteNode, RowsInv, Restrict
  <2>4. CASE n \in Nodes /\ RemoveNodeSecret(n)
    BY <2>4 DEF RemoveNodeSecret, SetNodeSecret, RowsInv, NoToken
  <2>5. ASSUME NEW o \in Ops, ReapUnstick(o) PROVE RowsInv'
    BY <2>5 DEF ReapUnstick, Unstick, RowsInv, States
  <2>6. CASE ReaperDone
    BY <2>6 DEF ReaperDone, nodeData, RowsInv
  <2> QED
    BY <2>1, <2>2, <2>3, <2>4, <2>5, <2>6
<1> QED
  BY <1>1, <1>2, <1>3, <1>6, <1>7
-----------------------------------------------------------------------------
(* The steps that write the journal.                                       *)

\* What the journal says of an operation it has a record of, before and after
\* a step.
LEMMA StatusNow ==
    ASSUME JournalInv, NEW q \in journal, ~torn
    PROVE  StatusOf(q.op) = q.status
<1>1. (CHOOSE r \in journal : r.op = q.op) = q
  BY ChosenRecord DEF JournalInv
<1> QED
  BY <1>1 DEF StatusOf, JournalInv

LEMMA StatusNext ==
    ASSUME JournalInv', NEW q \in journal', ~torn'
    PROVE  StatusOf(q.op)' = q.status
<1>1. (CHOOSE r \in journal' : r.op = q.op) = q
  <2>1. \A r1, r2 \in journal' : r1.op = r2.op => r1 = r2
    BY DEF JournalInv
  <2> QED
    BY <2>1, ChosenRecord
<1> QED
  BY <1>1 DEF StatusOf, JournalInv

\* Ending a record changes the status of that record and nothing else.
LEMMA RecordEnded ==
    ASSUME JournalInv, NEW o \in Ops, NEW outcome \in Statuses \ {"running"}, ~torn,
           FinishRecord(o, outcome)
    PROVE  /\ UNCHANGED <<torn, intact>>
           /\ journal' \subseteq [op : Ops, node : Nodes, kind : Kinds, status : Statuses]
           /\ \A q \in journal' : \E r \in journal :
                /\ r.op = q.op /\ r.node = q.node
                /\ IF q.op = o THEN q.status = outcome ELSE q = r
           /\ \A r \in journal : \E q \in journal' :
                q.op = r.op /\ IF r.op = o THEN q.status = outcome ELSE q = r
           /\ \A q1, q2 \in journal' : q1.op = q2.op => q1 = q2
<1> DEFINE E(r) == IF r.op = o THEN [r EXCEPT !.status = outcome] ELSE r
<1>1. journal' = {E(r) : r \in journal} /\ UNCHANGED <<torn, intact>>
  BY DEF FinishRecord
<1>2. \A r \in journal : r \in [op : Ops, node : Nodes, kind : Kinds, status : Statuses]
  BY DEF JournalInv
<1>3. \A r \in journal :
        /\ E(r) \in [op : Ops, node : Nodes, kind : Kinds, status : Statuses]
        /\ E(r).op = r.op /\ E(r).node = r.node
        /\ IF r.op = o THEN E(r).status = outcome ELSE E(r) = r
  BY <1>2
<1> HIDE DEF E
<1>4. \A q \in journal' : \E r \in journal : q = E(r)
  BY <1>1
<1>5. \A r \in journal : E(r) \in journal'
  BY <1>1
<1>6. \A q1, q2 \in journal' : q1.op = q2.op => q1 = q2
  <2> SUFFICES ASSUME NEW q1 \in journal', NEW q2 \in journal', q1.op = q2.op PROVE q1 = q2
    OBVIOUS
  <2>1. PICK r1 \in journal : q1 = E(r1)
    BY <1>4
  <2>2. PICK r2 \in journal : q2 = E(r2)
    BY <1>4
  <2>3. r1 = r2
    BY <1>3, <2>1, <2>2 DEF JournalInv
  <2> QED
    BY <2>1, <2>2, <2>3
<1>7. journal' \subseteq [op : Ops, node : Nodes, kind : Kinds, status : Statuses]
  BY <1>3, <1>4
<1>8. \A q \in journal' : \E r \in journal :
         /\ r.op = q.op /\ r.node = q.node
         /\ IF q.op = o THEN q.status = outcome ELSE q = r
  BY <1>3, <1>4
<1>9. \A r \in journal : \E q \in journal' :
         q.op = r.op /\ IF r.op = o THEN q.status = outcome ELSE q = r
  BY <1>3, <1>5
<1> QED
  BY <1>1, <1>6, <1>7, <1>8, <1>9

\* It keeps the journal in order, for an operation that no longer works.
LEMMA EndedKeeps ==
    ASSUME JournalInv, NEW o \in Ops, NEW outcome \in Statuses \ {"running"}, ~torn,
           FinishRecord(o, outcome), ~Live(o)',
           \A p \in Ops : /\ NodeOf(p)' = NodeOf(p)
                          /\ thread[p] = NoThread <=> thread'[p] = NoThread
                          /\ p # o => (Live(p)' <=> Live(p))
    PROVE  /\ JournalInv'
           /\ \A p \in Ops \ {o} : StatusOf(p)' = StatusOf(p)
           /\ (\E r \in journal : r.op = o) => StatusOf(o)' = outcome
           /\ (\A r \in journal : r.op # o) => StatusOf(o)' = StatusOf(o)
<1>1. /\ UNCHANGED <<torn, intact>>
      /\ journal' \subseteq [op : Ops, node : Nodes, kind : Kinds, status : Statuses]
      /\ \A q1, q2 \in journal' : q1.op = q2.op => q1 = q2
  BY RecordEnded
<1>2. \A q \in journal' : \E r \in journal :
         /\ r.op = q.op /\ r.node = q.node
         /\ IF q.op = o THEN q.status = outcome ELSE q = r
  BY RecordEnded
<1>3. \A r \in journal : \E q \in journal' :
         q.op = r.op /\ IF r.op = o THEN q.status = outcome ELSE q = r
  BY RecordEnded
<1>4. JournalInv'
  <2>1. \A q1, q2 \in journal' :
          q1.node = q2.node /\ q1.status = "running" /\ q2.status = "running" => q1 = q2
    BY <1>2 DEF JournalInv
  <2>2. \A q \in journal' : /\ thread'[q.op] # NoThread /\ NodeOf(q.op)' = q.node
                            /\ Live(q.op)' => q.status = "running"
    BY <1>1, <1>2 DEF JournalInv
  <2>3. intact' => \A p \in Ops : Live(p)' => \E q \in journal' : q.op = p
    BY <1>1, <1>3 DEF JournalInv
  <2>4. torn' \in BOOLEAN /\ intact' \in BOOLEAN /\ (intact' => ~torn')
    BY <1>1 DEF JournalInv
  <2> QED
    BY <1>1, <2>1, <2>2, <2>3, <2>4 DEF JournalInv
<1>5. ASSUME NEW p \in Ops \ {o} PROVE StatusOf(p)' = StatusOf(p)
  <2>1. CASE \E r \in journal : r.op = p
    <3>1. PICK r \in journal : r.op = p
      BY <2>1
    <3>2. r \in journal'
      BY <1>3, <3>1
    <3> QED
      BY <1>1, <1>4, <3>1, <3>2, StatusNow, StatusNext
  <2>2. CASE \A r \in journal : r.op # p
    <3>1. \A q \in journal' : q.op # p
      BY <1>2, <2>2
    <3> QED
      BY <2>2, <3>1 DEF StatusOf
  <2> QED
    BY <2>1, <2>2
<1>6. ASSUME \E r \in journal : r.op = o PROVE StatusOf(o)' = outcome
  <2>1. PICK q \in journal' : q.op = o /\ q.status = outcome
    BY <1>3, <1>6
  <2> QED
    BY <1>1, <1>4, <2>1, StatusNext
<1>7. ASSUME \A r \in journal : r.op # o PROVE StatusOf(o)' = StatusOf(o)
  <2>1. \A q \in journal' : q.op # o
    BY <1>2, <1>7
  <2> QED
    BY <1>7, <2>1 DEF StatusOf
<1> QED
  BY <1>4, <1>5, <1>6, <1>7

\* What the service sees of the journal and of the threads.
SeenStatus == [o \in Ops |-> StatusOf(o)]
SeenBusy == [n \in Nodes |-> {o \in Ops : Live(o) /\ NodeOf(o) = n}]

\* The last step of an operation: its record is ended, and its thread stops.
LEMMA FinishKeeps ==
    ASSUME OpsInv, NEW o \in Ops, FinishOp(o)
    PROVE  OpsInv' /\ \E n \in Nodes : Service!Ends(n, o)
<1> USE DEF OpsInv
<1> DEFINE x == thread[o]
           outcome == IF x.failed THEN "failed" ELSE "succeeded"
<1>1. /\ x.rest # <<>> /\ Head(x.rest) = "finish" /\ Live(o)
      /\ FinishRecord(o, outcome) /\ Goes(o) /\ UNCHANGED <<nodeData, process, counts>>
  BY DEF FinishOp, At, Live
<1>2. /\ x # NoThread /\ x \in ThreadState /\ x.gen >= 1 /\ x.node \in Nodes
      /\ thread \in [Ops -> ThreadState] /\ Tail(x.rest) = <<>> /\ <<>> \in Seq(StepNames)
  BY <1>1, ProgramGoesOn DEF ThreadsInv, NoThread, NodeOf
<1>3. /\ thread'[o] = [x EXCEPT !.rest = <<>>]
      /\ \A p \in Ops \ {o} : thread'[p] = thread[p]
  BY <1>1, <1>2 DEF Goes
<1>4. SameCall(x, thread'[o], <<>>) /\ thread' \in [Ops -> ThreadState]
  <2>1. SameCall(x, [x EXCEPT !.rest = <<>>], <<>>)
    BY <1>2, ThreadChanged
  <2>2. thread' = [thread EXCEPT ![o] = [x EXCEPT !.rest = <<>>]]
    BY <1>1, <1>2 DEF Goes
  <2> QED
    BY <1>2, <1>3, <2>1, <2>2 DEF SameCall
<1>5. /\ ~Live(o)' /\ thread'[o] # NoThread /\ NodeOf(o) \in Nodes
      /\ \A p \in Ops : /\ NodeOf(p)' = NodeOf(p)
                        /\ thread[p] = NoThread <=> thread'[p] = NoThread
                        /\ p # o => (Live(p)' <=> Live(p))
  <2>1. thread'[o].rest = <<>> /\ thread'[o].node = x.node /\ thread'[o].gen >= 1
    BY <1>2, <1>4 DEF SameCall
  <2>2. thread'[o] # NoThread
    BY <2>1 DEF NoThread
  <2> QED
    BY <1>2, <1>3, <2>1, <2>2 DEF Live, NodeOf
<1>6. RowsInv'
  BY <1>1 DEF RowsInv, nodeData, process
<1>7. ThreadsInv'
  <2>1. ThreadState' = ThreadState /\ proc' = proc
    BY <1>1 DEF ThreadState, nodeData, process
  <2>2. \A p \in Ops : Program(thread'[p].rest)
    BY <1>3, <1>4, ProgramGoesOn DEF SameCall, ThreadsInv
  <2>3. \A p \in Ops : thread'[p] # NoThread => NodeOf(p)' \in Nodes /\ thread'[p].gen >= 1
    BY <1>2, <1>3, <1>4, <1>5 DEF SameCall, ThreadsInv
  <2>4. proc' = "up"
    BY <1>1, <2>1 DEF ThreadsInv
  <2> QED
    BY <1>4, <2>1, <2>2, <2>3, <2>4 DEF ThreadsInv, Program
<1>8. /\ o \in SeenBusy[NodeOf(o)]
      /\ SeenBusy' = [SeenBusy EXCEPT ![NodeOf(o)] = @ \ {o}]
  BY <1>1, <1>5 DEF SeenBusy
<1>9. /\ JournalInv' /\ intact' = intact
      /\ \/ /\ SeenStatus[o] = "running"
            /\ \E s \in {"succeeded", "failed"} : SeenStatus' = [SeenStatus EXCEPT ![o] = s]
         \/ ~intact /\ SeenStatus' = SeenStatus
  <2>1. CASE torn
    <3>1. torn' \in BOOLEAN /\ ~torn' /\ journal' = {} /\ intact' = intact /\ ~intact
      BY <1>1, <2>1, Zenon DEF FinishRecord, Quarantine, JournalInv
    <3>2. JournalInv'
      BY <3>1 DEF JournalInv
    <3>3. \A p \in Ops : StatusOf(p)' = StatusOf(p)
      BY <1>5, <2>1, <3>1 DEF StatusOf
    <3> QED
      BY <3>1, <3>2, <3>3 DEF SeenStatus
  <2>2. CASE ~torn
    <3>1. outcome \in {"succeeded", "failed"} /\ outcome \in Statuses \ {"running"}
      BY DEF Statuses
    <3> HIDE DEF outcome
    <3>2. /\ JournalInv'
          /\ \A p \in Ops \ {o} : StatusOf(p)' = StatusOf(p)
          /\ (\E r \in journal : r.op = o) => StatusOf(o)' = outcome
          /\ (\A r \in journal : r.op # o) => StatusOf(o)' = StatusOf(o)
      BY <1>1, <1>5, <2>2, <3>1, EndedKeeps
    <3>3. intact' = intact
      BY <1>1, <2>2 DEF FinishRecord
    <3>4. CASE \E r \in journal : r.op = o
      <4>1. PICK r \in journal : r.op = o
        BY <3>4
      <4>2. StatusOf(o) = "running"
        BY <1>1, <2>2, <4>1, StatusNow DEF JournalInv
      <4>3. SeenStatus' = [SeenStatus EXCEPT ![o] = outcome]
        BY <3>2, <3>4 DEF SeenStatus
      <4> QED
        BY <3>1, <3>2, <3>3, <4>2, <4>3 DEF SeenStatus
    <3>5. CASE \A r \in journal : r.op # o
      <4>1. ~intact
        BY <1>1, <3>5 DEF JournalInv
      <4>2. SeenStatus' = SeenStatus
        BY <3>2, <3>5 DEF SeenStatus
      <4> QED
        BY <3>2, <3>3, <4>1, <4>2
    <3> QED
      BY <3>4, <3>5
  <2> QED
    BY <2>1, <2>2
<1>10. \E n \in Nodes : Service!Ends(n, o)
  <2>1. PICK n \in Nodes : n = NodeOf(o)
    BY <1>5
  <2>2. Service!Ends(n, o)
    BY <1>8, <1>9, <2>1 DEF Service!Ends, SeenStatus, SeenBusy
  <2> QED
    BY <2>2
<1> QED
  BY <1>6, <1>7, <1>9, <1>10

\* Recording a new operation adds its record, and drops ended ones at most.
LEMMA RecordBegun ==
    ASSUME NEW o, NEW n, NEW kind, BeginRecord(o, n, kind),
           NEW rec, rec = [op |-> o, node |-> n, kind |-> kind, status |-> "running"]
    PROVE  /\ ~Running(n) /\ UNCHANGED <<torn, intact>>
           /\ rec \in journal' /\ journal' \subseteq journal \cup {rec}
           /\ \A r \in journal : r.status = "running" => r \in journal'
<1>1. /\ journal' = Prune(journal \cup {rec}) /\ ~Running(n) /\ UNCHANGED <<torn, intact>>
      /\ rec.status = "running"
  BY DEF BeginRecord
<1> QED
  BY <1>1 DEF Prune

\* Building the transport may pin the host key and changes nothing else.
LEMMA TransportKeeps ==
    ASSUME RowsInv, NEW n \in DOMAIN row, NEW kind, NEW tofu, BuildTransport(n, kind, tofu),
           UNCHANGED <<token, agent, minted, gens, orphans>>
    PROVE  RowsInv' /\ DOMAIN row' = DOMAIN row
           /\ \A m \in DOMAIN row : row'[m].gen = row[m].gen /\ row'[m].settled = row[m].settled
<1>1. row' = row \/ row' = [row EXCEPT ![n].pinned = TRUE]
  BY DEF BuildTransport
<1>2. CASE row' = row
  BY <1>2 DEF RowsInv
<1>3. CASE row' = [row EXCEPT ![n].pinned = TRUE]
  BY <1>3 DEF RowsInv
<1> QED
  BY <1>1, <1>2, <1>3

\* A request for an operation: it starts, or it is refused and leaves the journal
\* alone, or it finds the journal damaged.
LEMMA SpawnKeeps ==
    ASSUME OpsInv, NEW n \in Nodes, NEW kind \in Kinds, NEW tofu, SpawnNodeOp(n, kind, tofu)
    PROVE  /\ OpsInv'
           /\ \/ \E o \in Ops : Service!Starts(n, o)
              \/ UNCHANGED <<SeenStatus, SeenBusy, intact>>
<1> USE DEF OpsInv
<1>1. /\ proc = "up" /\ Free # {} /\ n \in DOMAIN row /\ BuildTransport(n, kind, tofu)
      /\ UNCHANGED <<token, agent, minted, gens, process, counts>>
  BY DEF SpawnNodeOp
<1>2. RowsInv'
  BY <1>1, TransportKeeps DEF process
<1>3. ThreadState' = ThreadState /\ proc' = "up" /\ row[n].gen \in 1 .. gens
      /\ gens \in Nat
  BY <1>1 DEF ThreadState, process, RowsInv
<1>4. CASE /\ ~torn /\ BeginRecord(Min(Free), n, kind)
           /\ thread' = [thread EXCEPT ![Min(Free)] =
                           [NoThread EXCEPT !.node = n, !.rest = Programs(kind),
                                            !.gen = row[n].gen]]
  <2>1. PICK o \in Ops : /\ o = Min(Free) /\ thread[o] = NoThread
                         /\ \A r \in journal : r.op # o
    <3>1. Free \in SUBSET Nat
      BY DEF Free, Ops
    <3>2. Min(Free) \in Free
      BY <1>1, <3>1, MinIsMember
    <3> QED
      BY <3>2 DEF Free
  <2> DEFINE new == [NoThread EXCEPT !.node = n, !.rest = Programs(kind), !.gen = row[n].gen]
             rec == [op |-> o, node |-> n, kind |-> kind, status |-> "running"]
  <2>2. /\ Program(Programs(kind)) /\ Programs(kind) # <<>> /\ Programs(kind) \in Seq(StepNames)
    BY ProgramsAre DEF Program
  <2>3. /\ new \in ThreadState /\ new.node = n /\ new.gen = row[n].gen
        /\ new.rest = Programs(kind) /\ new # NoThread
    <3>0. <<>> \in Seq(StepNames)
      OBVIOUS
    <3>1. NoThread \in ThreadState /\ NoThread.gen = 0
      BY <1>3, <3>0 DEF NoThread, NoToken, ThreadState
    <3>2. /\ new \in ThreadState /\ new.node = n /\ new.gen = row[n].gen
          /\ new.rest = Programs(kind)
      <4> DEFINE g == row[n].gen
      <4>1. g \in 0 .. gens /\ g = row[n].gen
        BY <1>3
      <4> HIDE DEF g
      <4>2. /\ [NoThread EXCEPT !.node = n, !.rest = Programs(kind), !.gen = g] \in ThreadState
            /\ [NoThread EXCEPT !.node = n, !.rest = Programs(kind), !.gen = g].node = n
            /\ [NoThread EXCEPT !.node = n, !.rest = Programs(kind), !.gen = g].gen = g
            /\ [NoThread EXCEPT !.node = n, !.rest = Programs(kind), !.gen = g].rest
                 = Programs(kind)
        BY <2>2, <3>1, <4>1 DEF ThreadState
      <4> QED
        BY <4>1, <4>2
    <3> HIDE DEF new
    <3> QED
      BY <1>3, <3>1, <3>2
  <2>4. thread \in [Ops -> ThreadState] /\ thread' = [thread EXCEPT ![o] = new]
    BY <1>4, <2>1 DEF ThreadsInv
  <2> HIDE DEF new
  <2>5. /\ thread' \in [Ops -> ThreadState] /\ thread'[o] = new
        /\ \A p \in Ops \ {o} : thread'[p] = thread[p]
    BY <2>1, <2>3, <2>4
  <2>6. /\ ~Live(o) /\ Live(o)' /\ NodeOf(o)' = n /\ thread'[o] # NoThread
        /\ \A p \in Ops \ {o} : /\ Live(p)' <=> Live(p)
                                /\ NodeOf(p)' = NodeOf(p)
    BY <2>1, <2>2, <2>3, <2>5 DEF Live, NodeOf, NoThread
  <2>7. ThreadsInv'
    <3>1. \A p \in Ops : Program(thread'[p].rest)
      BY <2>2, <2>3, <2>5 DEF ThreadsInv
    <3>2. \A p \in Ops : thread'[p] # NoThread => NodeOf(p)' \in Nodes /\ thread'[p].gen >= 1
      BY <1>3, <2>3, <2>5, <2>6 DEF ThreadsInv
    <3> QED
      BY <1>3, <2>5, <3>1, <3>2 DEF ThreadsInv, Program
  <2>8. BeginRecord(o, n, kind)
    BY <1>4, <2>1
  <2>9. /\ rec.op = o /\ rec.node = n /\ rec.status = "running"
        /\ rec \in [op : Ops, node : Nodes, kind : Kinds, status : Statuses]
    BY <2>1 DEF Statuses
  <2>10. /\ ~Running(n) /\ UNCHANGED <<torn, intact>>
         /\ rec \in journal' /\ journal' \subseteq journal \cup {rec}
         /\ \A r \in journal : r.status = "running" => r \in journal'
    BY <2>8, RecordBegun
  <2> HIDE DEF rec
  <2>11. JournalInv'
    <3>1. journal' \subseteq [op : Ops, node : Nodes, kind : Kinds, status : Statuses]
      BY <2>9, <2>10 DEF JournalInv
    <3>2. \A r, q \in journal' : r.op = q.op => r = q
      BY <2>1, <2>9, <2>10 DEF JournalInv
    <3>3. \A r, q \in journal' :
            r.node = q.node /\ r.status = "running" /\ q.status = "running" => r = q
      BY <2>9, <2>10 DEF JournalInv, Running
    <3>4. \A r \in journal' : /\ thread'[r.op] # NoThread /\ NodeOf(r.op)' = r.node
                              /\ Live(r.op)' => r.status = "running"
      BY <2>1, <2>5, <2>6, <2>9, <2>10, <3>1 DEF JournalInv
    <3>5. intact' => \A p \in Ops : Live(p)' => \E r \in journal' : r.op = p
      BY <2>6, <2>9, <2>10 DEF JournalInv
    <3>6. torn' \in BOOLEAN /\ intact' \in BOOLEAN /\ (intact' => ~torn')
      BY <2>10 DEF JournalInv
    <3> QED
      BY <3>1, <3>2, <3>3, <3>4, <3>5, <3>6 DEF JournalInv
  <2>12. SeenStatus[o] = "none"
    BY <2>1 DEF SeenStatus, StatusOf
  <2>13. intact => SeenBusy[n] = {}
    <3> SUFFICES ASSUME intact, NEW p \in Ops, Live(p), NodeOf(p) = n PROVE FALSE
      BY DEF SeenBusy
    <3>1. PICK r \in journal : r.op = p
      BY DEF JournalInv
    <3> QED
      BY <2>10, <3>1 DEF JournalInv, Running
  <2>14. SeenBusy' = [SeenBusy EXCEPT ![n] = @ \cup {o}]
    BY <2>1, <2>6 DEF SeenBusy
  <2>15. StatusOf(o)' = "running"
    BY <1>4, <2>9, <2>10, <2>11, StatusNext
  <2>16. ASSUME NEW p \in Ops \ {o}
         PROVE  \/ StatusOf(p)' = StatusOf(p)
                \/ StatusOf(p)' = "forgotten" /\ StatusOf(p) \in Service!Outcomes
    <3>1. thread'[p] = thread[p] /\ torn' = torn /\ ~torn
      BY <1>4, <2>5, <2>10
    <3>2. CASE \A r \in journal : r.op # p
      <4>1. \A r \in journal' : r.op # p
        BY <2>9, <2>10, <3>2
      <4> QED
        BY <3>1, <3>2, <4>1 DEF StatusOf
    <3>3. ASSUME NEW r \in journal, r.op = p, r \in journal' PROVE StatusOf(p)' = StatusOf(p)
      <4>1. StatusOf(p) = r.status
        BY <3>1, <3>3, StatusNow
      <4>2. StatusOf(p)' = r.status
        BY <2>11, <3>1, <3>3, StatusNext
      <4> QED
        BY <4>1, <4>2
    <3>4. ASSUME NEW r \in journal, r.op = p, r \notin journal'
          PROVE  StatusOf(p)' = "forgotten" /\ StatusOf(p) \in Service!Outcomes
      <4>1. r.status # "running" /\ r.status \in Statuses
        BY <2>10, <3>4 DEF JournalInv
      <4>2. StatusOf(p) = r.status /\ thread[p] # NoThread
        BY <3>1, <3>4, StatusNow DEF JournalInv
      <4>3. \A q \in journal' : q.op # p
        BY <2>9, <2>10, <3>4 DEF JournalInv
      <4> QED
        BY <3>1, <4>1, <4>2, <4>3 DEF StatusOf, Statuses, Service!Outcomes
    <3> QED
      BY <3>2, <3>3, <3>4
  <2>17. \E F \in SUBSET {p \in Ops : SeenStatus[p] \in Service!Outcomes} :
           SeenStatus' = [p \in Ops |-> IF p = o THEN "running"
                                        ELSE IF p \in F THEN "forgotten" ELSE SeenStatus[p]]
    <3> DEFINE F == {p \in Ops \ {o} : StatusOf(p) \in Service!Outcomes
                                       /\ StatusOf(p)' = "forgotten"}
    <3>1. F \in SUBSET {p \in Ops : SeenStatus[p] \in Service!Outcomes}
      BY DEF SeenStatus
    <3>2. \A p \in Ops : StatusOf(p)' = IF p = o THEN "running"
                                        ELSE IF p \in F THEN "forgotten" ELSE SeenStatus[p]
      BY <2>15, <2>16 DEF SeenStatus
    <3> HIDE DEF F
    <3>3. SeenStatus' = [p \in Ops |-> IF p = o THEN "running"
                                       ELSE IF p \in F THEN "forgotten" ELSE SeenStatus[p]]
      BY <3>2 DEF SeenStatus
    <3> QED
      BY <3>1, <3>3
  <2>18. Service!Starts(n, o)
    BY <2>10, <2>12, <2>13, <2>14, <2>17 DEF Service!Starts, SeenStatus, SeenBusy
  <2> QED
    BY <1>2, <2>1, <2>7, <2>11, <2>18
<1>5. CASE UNCHANGED thread /\ (UNCHANGED journalData \/ (torn /\ Quarantine))
  <2>1. SameThreads
    BY <1>5 DEF SameThreads, Live, NodeOf
  <2>2. ThreadsInv'
    BY <1>1, <1>3, <1>5 DEF ThreadsInv, NodeOf
  <2>3. JournalInv' /\ UNCHANGED <<SeenStatus, SeenBusy, intact>>
    <3>1. CASE UNCHANGED journalData
      BY <2>1, <3>1, JournalSame, ServiceSame DEF SeenStatus, SeenBusy
    <3>2. CASE torn /\ Quarantine
      BY <2>1, <3>2, QuarantineSame DEF SeenStatus, SeenBusy
    <3> QED
      BY <1>5, <3>1, <3>2
  <2> QED
    BY <1>2, <2>2, <2>3
<1> QED
  BY <1>4, <1>5 DEF SpawnNodeOp
-----------------------------------------------------------------------------
(* Death, start and damage.                                                *)

\* The process dies with all its threads; the records stay.
LEMMA DeathKeeps ==
    ASSUME OpsInv, ProcessDies
    PROVE  OpsInv' /\ Service!Dies
<1> USE DEF OpsInv
<1>1. /\ thread' = [o \in Ops |-> [thread[o] EXCEPT !.rest = <<>>]]
      /\ UNCHANGED <<nodeData, journalData>> /\ orphans' = {} /\ proc' = "down"
  BY DEF ProcessDies
<1>2. \A o \in Ops : SameCall(thread[o], thread'[o], <<>>)
  <2>1. <<>> \in Seq(StepNames)
    OBVIOUS
  <2>2. \A o \in Ops : thread[o] \in ThreadState
    BY DEF ThreadsInv
  <2> QED
    BY <1>1, <2>1, <2>2, ThreadChanged
<1>3. thread' \in [Ops -> ThreadState] /\ ThreadState' = ThreadState
  BY <1>1, <1>2 DEF SameCall, ThreadState, nodeData
<1>4. \A o \in Ops : /\ ~Live(o)' /\ NodeOf(o)' = NodeOf(o)
                     /\ thread'[o] = NoThread <=> thread[o] = NoThread
  <2> SUFFICES ASSUME NEW o \in Ops
               PROVE  /\ ~Live(o)' /\ NodeOf(o)' = NodeOf(o)
                      /\ thread'[o] = NoThread <=> thread[o] = NoThread
    OBVIOUS
  <2>1. ~Live(o)' /\ NodeOf(o)' = NodeOf(o) /\ thread'[o].gen = thread[o].gen
    BY <1>2 DEF SameCall, Live, NodeOf
  <2>2. CASE thread[o] = NoThread
    BY <1>1, <2>1, <2>2 DEF NoThread
  <2>3. CASE thread[o] # NoThread
    <3>1. thread[o].gen >= 1
      BY <2>3 DEF ThreadsInv
    <3> QED
      BY <2>1, <2>3, <3>1 DEF NoThread
  <2> QED
    BY <2>1, <2>2, <2>3
<1>5. RowsInv'
  BY <1>1 DEF RowsInv, nodeData
<1>6. ThreadsInv'
  <2>1. \A o \in Ops : Program(thread'[o].rest)
    BY <1>2, ProgramGoesOn DEF SameCall
  <2>2. \A o \in Ops : thread'[o] # NoThread => NodeOf(o)' \in Nodes /\ thread'[o].gen >= 1
    BY <1>2, <1>4 DEF SameCall, ThreadsInv
  <2> QED
    BY <1>3, <1>4, <2>1, <2>2 DEF ThreadsInv, Program
<1>7. JournalInv'
  BY <1>1, <1>4 DEF JournalInv, journalData
<1>8. \A o \in Ops : StatusOf(o)' = StatusOf(o)
  BY <1>1, <1>4 DEF StatusOf, journalData
<1>9. SeenStatus' = SeenStatus /\ SeenBusy' = [n \in Nodes |-> {}]
  BY <1>4, <1>8 DEF SeenStatus, SeenBusy
<1> QED
  BY <1>1, <1>5, <1>6, <1>7, <1>9 DEF Service!Dies, SeenStatus, SeenBusy, journalData

\* Damage to the journal makes it forget every operation.
LEMMA DamageKeeps ==
    ASSUME OpsInv, JournalDamaged
    PROVE  OpsInv' /\ Service!Damaged
<1> USE DEF OpsInv
<1>1. /\ ~torn /\ torn' = TRUE /\ intact' = FALSE
      /\ UNCHANGED <<nodeData, journal, thread, process>>
  BY DEF JournalDamaged
<1>2. RowsInv' /\ ThreadsInv'
  BY <1>1 DEF RowsInv, ThreadsInv, ThreadState, nodeData, process, Live, NodeOf
<1>3. JournalInv'
  BY <1>1 DEF JournalInv, Live, NodeOf
<1>4. \A o \in Ops : /\ StatusOf(o)' = (IF thread[o] = NoThread THEN "none" ELSE "forgotten")
                     /\ StatusOf(o) = "none" <=> thread[o] = NoThread
  <2> SUFFICES ASSUME NEW o \in Ops
               PROVE  /\ StatusOf(o)' = (IF thread[o] = NoThread THEN "none" ELSE "forgotten")
                      /\ StatusOf(o) = "none" <=> thread[o] = NoThread
    OBVIOUS
  <2>1. StatusOf(o)' = (IF thread[o] = NoThread THEN "none" ELSE "forgotten")
    BY <1>1 DEF StatusOf
  <2>2. CASE \A r \in journal : r.op # o
    BY <2>1, <2>2 DEF StatusOf
  <2>3. ASSUME NEW r \in journal, r.op = o PROVE StatusOf(o) # "none" /\ thread[o] # NoThread
    <3>1. StatusOf(o) = r.status
      BY <1>1, <2>3, StatusNow
    <3> QED
      BY <2>3, <3>1 DEF JournalInv, Statuses
  <2> QED
    BY <2>1, <2>2, <2>3
<1>5. SeenStatus' = [o \in Ops |-> IF SeenStatus[o] = "none" THEN "none" ELSE "forgotten"]
  BY <1>4 DEF SeenStatus
<1>6. SeenBusy' = SeenBusy
  BY <1>1 DEF SeenBusy, Live, NodeOf
<1> QED
  BY <1>1, <1>2, <1>3, <1>5, <1>6 DEF Service!Damaged, SeenStatus, SeenBusy

\* The start of the process, with a journal that is damaged or not.
LEMMA StartKeeps ==
    ASSUME OpsInv, ProcessStarts
    PROVE  OpsInv' /\ UNCHANGED <<SeenStatus, SeenBusy, intact>>
<1> USE DEF OpsInv
<1>1. /\ UNCHANGED <<nodeData, thread, orphans>> /\ proc = "down" /\ proc' = "reaping"
      /\ UNCHANGED journalData \/ (torn /\ Quarantine)
  BY DEF ProcessStarts
<1>2. SameThreads
  BY <1>1 DEF SameThreads, Live, NodeOf
<1>3. RowsInv' /\ ThreadsInv'
  BY <1>1 DEF RowsInv, ThreadsInv, ThreadState, nodeData, Live, NodeOf
<1>4. CASE UNCHANGED journalData
  BY <1>2, <1>3, <1>4, JournalSame, ServiceSame DEF SeenStatus, SeenBusy
<1>5. CASE torn /\ Quarantine
  BY <1>2, <1>3, <1>5, QuarantineSame DEF SeenStatus, SeenBusy
<1> QED
  BY <1>1, <1>4, <1>5

\* The reaper ends a record that is running while no thread works.
LEMMA ReapKeeps ==
    ASSUME OpsInv, NEW o \in Ops, ReapFinish(o)
    PROVE  OpsInv' /\ (Service!Interrupts(o) \/ UNCHANGED <<SeenStatus, SeenBusy, intact>>)
<1> USE DEF OpsInv
<1>1. /\ UNCHANGED <<nodeData, thread, orphans, proc>> /\ proc = "reaping"
      /\ FinishRecord(o, "interrupted")
  BY DEF ReapFinish
<1>2. SameThreads
  BY <1>1 DEF SameThreads, Live, NodeOf
<1>3. RowsInv' /\ ThreadsInv'
  BY <1>1 DEF RowsInv, ThreadsInv, ThreadState, nodeData, Live, NodeOf
<1>4. \A p \in Ops : ~Live(p) /\ ~Live(p)'
  BY <1>1, <1>3 DEF ThreadsInv
<1>5. CASE torn
  <2>1. torn /\ Quarantine
    BY <1>1, <1>5 DEF FinishRecord
  <2> QED
    BY <1>2, <1>3, <2>1, QuarantineSame DEF SeenStatus, SeenBusy
<1>6. CASE ~torn
  <2>1. PICK r \in journal : r.op = o /\ r.status = "running"
    BY DEF ReapFinish
  <2>2. StatusOf(o) = "running"
    BY <1>6, <2>1, StatusNow
  <2>3. \A p \in Ops : /\ NodeOf(p)' = NodeOf(p)
                       /\ thread[p] = NoThread <=> thread'[p] = NoThread
                       /\ p # o => (Live(p)' <=> Live(p))
    BY <1>2 DEF SameThreads
  <2>4. /\ JournalInv' /\ \A p \in Ops \ {o} : StatusOf(p)' = StatusOf(p)
        /\ StatusOf(o)' = "interrupted"
    <3>1. "interrupted" \in Statuses \ {"running"}
      BY DEF Statuses
    <3> QED
      BY <1>1, <1>4, <1>6, <2>1, <2>3, <3>1, EndedKeeps
  <2>5. intact' = intact
    BY <1>1, <1>6 DEF FinishRecord
  <2>6. /\ SeenStatus' = [SeenStatus EXCEPT ![o] = "interrupted"]
        /\ SeenStatus[o] = "running"
    BY <2>2, <2>4 DEF SeenStatus
  <2>7. SeenBusy' = SeenBusy /\ \A n \in Nodes : o \notin SeenBusy[n]
    BY <1>4, <2>3 DEF SeenBusy
  <2>8. Service!Interrupts(o)
    BY <2>5, <2>6, <2>7 DEF Service!Interrupts, SeenStatus, SeenBusy
  <2> QED
    BY <1>3, <2>4, <2>8
<1> QED
  BY <1>5, <1>6
-----------------------------------------------------------------------------
(* The specification as a whole.                                           *)

LEMMA InitOpsInv == NodeOpsInit => OpsInv
<1> SUFFICES ASSUME NodeOpsInit PROVE OpsInv
  OBVIOUS
<1> USE DEF NodeOpsInit
<1>1. RowsInv
  BY DEF RowsInv, NoToken
<1>2. ThreadsInv
  <2>1. <<>> \in Seq(StepNames) /\ Program(<<>>) /\ NoThread.rest = <<>>
    BY ProgramGoesOn DEF NoThread
  <2>2. NoThread \in ThreadState
    BY <2>1 DEF NoThread, ThreadState, NoToken
  <2> QED
    BY <2>1, <2>2 DEF ThreadsInv, Live
<1>3. JournalInv
  BY DEF JournalInv, Live, NoThread
<1> QED
  BY <1>1, <1>2, <1>3 DEF OpsInv

\* Every step keeps the invariant, and is a step of the service or invisible to
\* it.
LEMMA StepIsServiceStep ==
    OpsInv /\ [NodeOpsNext]_vars =>
        OpsInv' /\ (Service!ServiceNext \/ UNCHANGED <<SeenStatus, SeenBusy, intact>>)
<1> SUFFICES ASSUME OpsInv, [NodeOpsNext]_vars
             PROVE  OpsInv' /\ (Service!ServiceNext \/ UNCHANGED <<SeenStatus, SeenBusy, intact>>)
  OBVIOUS
<1>q. ASSUME SameThreads, UNCHANGED journalData
      PROVE  UNCHANGED <<SeenStatus, SeenBusy, intact>>
  BY <1>q, ServiceSame DEF SeenStatus, SeenBusy
<1>1. ASSUME NEW o \in Ops, OpStep(o), ~FinishOp(o)
      PROVE  OpsInv' /\ UNCHANGED <<SeenStatus, SeenBusy, intact>>
  BY <1>q, <1>1, WorkKeeps
<1>2. ASSUME NEW o \in Ops, FinishOp(o) PROVE OpsInv' /\ Service!ServiceNext
  BY <1>2, FinishKeeps DEF Service!ServiceNext
<1>3. ASSUME NEW n \in Nodes, NEW kind \in {"provision", "rotate", "activate"},
             NEW tofu \in BOOLEAN, SpawnNodeOp(n, kind, tofu)
      PROVE  OpsInv' /\ (Service!ServiceNext \/ UNCHANGED <<SeenStatus, SeenBusy, intact>>)
  BY <1>3, SpawnKeeps DEF Kinds, Service!ServiceNext
<1>4. ASSUME NEW n \in Nodes,
             \/ RegisterNode(n) \/ ConfirmHostKey(n) \/ DeleteNode(n) \/ RemoveNodeSecret(n)
      PROVE  OpsInv' /\ UNCHANGED <<SeenStatus, SeenBusy, intact>>
  BY <1>q, <1>4, CallsKeep
<1>5. ASSUME ReaperDone \/ \E o \in Ops : ReapUnstick(o)
      PROVE  OpsInv' /\ UNCHANGED <<SeenStatus, SeenBusy, intact>>
  BY <1>q, <1>5, CallsKeep
<1>6. ASSUME NEW o \in Ops, ReapFinish(o)
      PROVE  OpsInv' /\ (Service!ServiceNext \/ UNCHANGED <<SeenStatus, SeenBusy, intact>>)
  BY <1>6, ReapKeeps DEF Service!ServiceNext
<1>7. ASSUME JournalDamaged \/ ProcessDies PROVE OpsInv' /\ Service!ServiceNext
  BY <1>7, DamageKeeps, DeathKeeps DEF Service!ServiceNext
<1>8. ASSUME ProcessStarts PROVE OpsInv' /\ UNCHANGED <<SeenStatus, SeenBusy, intact>>
  BY <1>8, StartKeeps
<1>9. ASSUME UNCHANGED vars PROVE OpsInv' /\ UNCHANGED <<SeenStatus, SeenBusy, intact>>
  <2>1. SameThreads /\ UNCHANGED journalData
    BY <1>9 DEF vars, journalData, SameThreads, Live, NodeOf
  <2>2. RowsInv' /\ ThreadsInv'
    BY <1>9 DEF OpsInv, RowsInv, ThreadsInv, ThreadState, vars, Live, NodeOf
  <2> QED
    BY <1>q, <2>1, <2>2, JournalSame DEF OpsInv
<1> QED
  BY <1>1, <1>2, <1>3, <1>4, <1>5, <1>6, <1>7, <1>8, <1>9 DEF NodeOpsNext, Startup

\* The journal, the runner, the reaper and the administrator's calls keep their
\* state in order, through crashes and damage to the journal.
THEOREM OperationsInvariant == NodeOpsSpec => []OpsInv
<1>1. OpsInv /\ [NodeOpsNext]_vars => OpsInv'
  BY StepIsServiceStep
<1> QED
  BY InitOpsInv, <1>1, PTL DEF NodeOpsSpec

\* Operations on camera nodes implement the service: while the journal is intact
\* one operation works on a node at a time, it is on record as running while it
\* works, and an outcome is never rewritten, only forgotten.
THEOREM JournalImplementsService == NodeOpsSpec => ServiceImplemented
<1>1. NodeOpsInit => Service!ServiceInit
  BY DEF NodeOpsInit, Service!ServiceInit, StatusOf, Live, NoThread
<1>2. OpsInv /\ [NodeOpsNext]_vars
        => [Service!ServiceNext]_<<[o \in Ops |-> StatusOf(o)],
              [n \in Nodes |-> {o \in Ops : Live(o) /\ NodeOf(o) = n}], intact>>
  BY StepIsServiceStep DEF SeenStatus, SeenBusy
<1> QED
  BY <1>1, <1>2, OperationsInvariant, PTL DEF NodeOpsSpec, ServiceImplemented, Service!ServiceSpec
-----------------------------------------------------------------------------
(* The token of a node that is reported as ready.                          *)

\* While the journal is intact, a node has at most one operation at work.
LEMMA OneWorker ==
    ASSUME JournalInv, intact, NEW o \in Ops, NEW p \in Ops, Live(o), Live(p),
           NodeOf(o) = NodeOf(p)
    PROVE  o = p
<1>1. PICK r \in journal : r.op = o
  BY DEF JournalInv
<1>2. PICK q \in journal : q.op = p
  BY DEF JournalInv
<1> QED
  BY <1>1, <1>2 DEF JournalInv

\* A step that leaves an operation and its node alone.
LEMMA TokenSame ==
    ASSUME NEW o \in Ops, TokenOf(o), thread'[o] = thread[o],
           Undisturbed(o)' => /\ Undisturbed(o)
                              /\ token'[NodeOf(o)] = token[NodeOf(o)]
                              /\ agent'[NodeOf(o)] = agent[NodeOf(o)]
    PROVE  TokenOf(o)'
  BY DEF TokenOf, Live, At, NodeOf

\* A step of the operation itself.
LEMMA OwnStepKeepsToken ==
    ASSUME OpsInv, NEW o \in Ops, TokenOf(o), OpStep(o), ~FinishOp(o)
    PROVE  TokenOf(o)'
<1> USE DEF OpsInv
<1> DEFINE n == NodeOf(o)
           x == thread[o]
<1>1. /\ Moves(o) /\ Touches(o) /\ n \in Nodes /\ UNCHANGED <<gens, journalData, process>>
  BY WorkMoves
<1>2. /\ NodeOf(o)' = n /\ Live(o) /\ Live(o)'
      /\ Undisturbed(o)' => Undisturbed(o) /\ n \in DOMAIN row
  <2>1. Live(o)
    BY DEF OpStep, FinishOp, ProvisionToken, ProvisionLegacy, OpRaises, ProvisionEcho, ProvisionPush, ProvisionProbe,
           ProvisionDeploy, ProvisionReady, RotateMint, RotateSetToken, RotatePersist,
           ActivateStreams, At
  <2> QED
    BY <1>1, <2>1 DEF Moves, Touches, Live, NodeOf, Undisturbed, journalData
<1>3. x \in ThreadState /\ thread \in [Ops -> ThreadState] /\ Program(x.rest) /\ x.rest # <<>>
  BY <1>2 DEF ThreadsInv, Live
<1>4. Head(x.rest) # "finish" => Tail(x.rest) # <<>> /\ Head(Tail(x.rest)) = After[Head(x.rest)]
  BY <1>3, ProgramGoesOn
<1>a. /\ After["token"] = "legacy" /\ After["legacy"] = "echo" /\ After["echo"] = "push" /\ After["push"] = "probe"
      /\ After["probe"] = "deploy" /\ After["deploy"] = "ready" /\ After["ready"] = "finish"
      /\ After["mint"] = "settoken" /\ After["settoken"] = "persist"
      /\ After["persist"] = "finish" /\ After["streams"] = "finish"
  BY DEF After
<1>5. ASSUME Returns(o) \/ Raises(o) PROVE TokenOf(o)'
  <2>1. thread'[o].rest = <<"finish">>
    BY <1>3, <1>5 DEF Returns, Raises, ThreadState
  <2> QED
    BY <2>1 DEF TokenOf, At
<1>6. ASSUME Goes(o) PROVE thread'[o].rest = Tail(x.rest) /\ thread'[o].tok = x.tok
  BY <1>3, <1>6 DEF Goes, ThreadState
<1>7. ASSUME NEW v, thread' = [thread EXCEPT ![o].rest = Tail(@), ![o].tok = v]
      PROVE  thread'[o].rest = Tail(x.rest) /\ thread'[o].tok = v
  BY <1>3, <1>7 DEF ThreadState
<1>8. ASSUME NEW step \in {"legacy", "echo", "push", "probe"}, At(o, step), Goes(o),
             token' = token
      PROVE  TokenOf(o)'
  <2>1. Head(thread'[o].rest) \in {"echo", "push", "probe", "deploy"} /\ thread'[o].tok = x.tok
    BY <1>4, <1>a, <1>6, <1>8 DEF At
  <2>2. Undisturbed(o)' => x.tok = token[n]
    BY <1>2, <1>8 DEF TokenOf, At
  <2> QED
    BY <1>2, <1>8, <2>1, <2>2 DEF TokenOf, At
<1>9. ASSUME NEW step \in {"ready", "mint", "settoken", "persist", "streams"}, At(o, step),
             \/ Goes(o)
             \/ \E v : thread' = [thread EXCEPT ![o].rest = Tail(@), ![o].tok = v]
      PROVE  TokenOf(o)'
  <2>1. Head(thread'[o].rest) \in {"finish", "settoken", "persist"}
    BY <1>4, <1>a, <1>6, <1>7, <1>9 DEF At
  <2> QED
    BY <2>1 DEF TokenOf, At
<1>10. CASE ProvisionToken(o) \/ ProvisionLegacy(o)
  <2>1. CASE Raises(o)
    BY <1>5, <2>1
  <2>2. ASSUME NEW v, thread' = [thread EXCEPT ![o].rest = Tail(@), ![o].tok = v],
               token'[n] = v
        PROVE  TokenOf(o)'
    <3>1. Head(thread'[o].rest) \in {"legacy", "echo"} /\ thread'[o].tok = v
      <4>1. At(o, "token") \/ At(o, "legacy")
        BY <1>10 DEF ProvisionToken, ProvisionLegacy
      <4>2. thread'[o].rest = Tail(x.rest) /\ thread'[o].tok = v
        BY <1>7, <2>2
      <4> QED
        BY <1>4, <1>a, <4>1, <4>2 DEF At
    <3> QED
      BY <1>2, <2>2, <3>1 DEF TokenOf, At
  <2>3. token \in [Nodes -> Nat]
    BY DEF RowsInv
  <2>4. CASE ProvisionToken(o)
    BY <1>1, <2>1, <2>2, <2>3, <2>4 DEF ProvisionToken, nodeData
  <2>5. CASE ProvisionLegacy(o)
    BY <1>1, <1>8, <2>1, <2>2, <2>3, <2>5 DEF ProvisionLegacy, SetNodeSecret
  <2> QED
    BY <1>10, <2>4, <2>5
<1>11. CASE ProvisionEcho(o)
  BY <1>5, <1>8, <1>11 DEF ProvisionEcho, Mark, Fail
<1>12. CASE ProvisionPush(o)
  BY <1>5, <1>8, <1>12 DEF ProvisionPush, Mark, Fail
<1>13. CASE ProvisionProbe(o)
  BY <1>5, <1>8, <1>13 DEF ProvisionProbe, Fail
<1>14. CASE ProvisionDeploy(o)
  <2>1. CASE Goes(o) /\ agent' = [agent EXCEPT ![NodeOf(o)] = thread[o].tok]
    <3>1. Head(thread'[o].rest) = "ready" /\ thread'[o].tok = x.tok
      BY <1>4, <1>a, <1>6, <1>14, <2>1 DEF ProvisionDeploy, At
    <3>2. agent'[n] = x.tok /\ token' = token
      BY <1>1, <1>14, <2>1 DEF RowsInv, ProvisionDeploy
    <3>3. Undisturbed(o)' => x.tok = token[n]
      BY <1>2, <1>14 DEF TokenOf, At, ProvisionDeploy
    <3> QED
      BY <1>2, <3>1, <3>2, <3>3 DEF TokenOf, At
  <2>2. CASE Returns(o) \/ Raises(o)
    BY <1>5, <2>2
  <2> QED
    BY <1>14, <2>1, <2>2 DEF ProvisionDeploy, Fail
<1>15. CASE ProvisionReady(o)
  BY <1>5, <1>9, <1>15 DEF ProvisionReady, Mark
<1>16. CASE RotateMint(o)
  BY <1>5, <1>9, <1>16 DEF RotateMint
<1>17. CASE RotateSetToken(o)
  BY <1>5, <1>9, <1>17 DEF RotateSetToken
<1>18. CASE RotatePersist(o)
  BY <1>5, <1>9, <1>18 DEF RotatePersist
<1>19. CASE ActivateStreams(o)
  BY <1>5, <1>9, <1>19 DEF ActivateStreams
<1>20. CASE OpRaises(o)
  BY <1>5, <1>20 DEF OpRaises
<1> QED
  BY <1>10, <1>11, <1>12, <1>13, <1>14, <1>15, <1>16, <1>17, <1>18, <1>19, <1>20 DEF OpStep

\* A step of another operation: it works on another node, or the journal is
\* damaged.
LEMMA OtherStepKeepsToken ==
    ASSUME OpsInv, NEW o \in Ops, TokenOf(o), NEW p \in Ops \ {o}, OpStep(p), ~FinishOp(p)
    PROVE  TokenOf(o)'
<1> USE DEF OpsInv
<1>1. /\ Moves(p) /\ Touches(p) /\ UNCHANGED <<gens, journalData, process>>
  BY WorkMoves
<1>2. Live(p)
  BY DEF OpStep, FinishOp, ProvisionToken, ProvisionLegacy, OpRaises, ProvisionEcho, ProvisionPush, ProvisionProbe,
         ProvisionDeploy, ProvisionReady, RotateMint, RotateSetToken, RotatePersist,
         ActivateStreams, At
<1>3. thread'[o] = thread[o]
  BY <1>1 DEF Moves
<1>4. CASE ~Live(o)
  BY <1>3, <1>4 DEF TokenOf, Live
<1>5. CASE Live(o) /\ Undisturbed(o)'
  <2>1. intact /\ NodeOf(o) \in DOMAIN row /\ Undisturbed(o)
    BY <1>1, <1>3, <1>5 DEF Undisturbed, Touches, journalData, NodeOf
  <2>2. NodeOf(o) # NodeOf(p) /\ NodeOf(o) \in Nodes
    BY <1>2, <1>5, <2>1, OneWorker DEF RowsInv
  <2>3. token'[NodeOf(o)] = token[NodeOf(o)] /\ agent'[NodeOf(o)] = agent[NodeOf(o)]
    BY <1>1, <2>2 DEF Touches
  <2> QED
    BY <1>3, <2>1, <2>3, TokenSame
<1> QED
  BY <1>4, <1>5 DEF TokenOf

\* The calls of the administrator: a node that is registered again has another
\* generation, one whose secret is dropped was not settled.
LEMMA CallsKeepToken ==
    ASSUME OpsInv, NEW n \in Nodes, NEW o \in Ops, TokenOf(o),
           RegisterNode(n) \/ ConfirmHostKey(n) \/ DeleteNode(n) \/ RemoveNodeSecret(n)
    PROVE  TokenOf(o)'
<1> USE DEF OpsInv
<1>1. UNCHANGED <<thread, intact>>
  BY DEF RegisterNode, ConfirmHostKey, DeleteNode, RemoveNodeSecret, journalData
<1>2. Undisturbed(o)' => /\ Undisturbed(o)
                         /\ token'[NodeOf(o)] = token[NodeOf(o)]
                         /\ agent'[NodeOf(o)] = agent[NodeOf(o)]
  <2> SUFFICES ASSUME Undisturbed(o)'
               PROVE  /\ Undisturbed(o)
                      /\ token'[NodeOf(o)] = token[NodeOf(o)]
                      /\ agent'[NodeOf(o)] = agent[NodeOf(o)]
    OBVIOUS
  <2> DEFINE m == NodeOf(o)
  <2>1. /\ intact /\ m \in DOMAIN row' /\ row'[m].gen = thread[o].gen /\ row'[m].settled
        /\ thread[o].gen \in 0 .. gens /\ gens \in Nat
    BY <1>1 DEF Undisturbed, NodeOf, ThreadsInv, ThreadState, RowsInv
  <2>2. CASE RegisterNode(n)
    <3>1. m # n
      BY <2>1, <2>2 DEF RegisterNode
    <3>2. m \in DOMAIN row /\ row'[m] = row[m]
      BY <2>1, <2>2, <3>1 DEF RegisterNode
    <3>3. token'[m] = token[m] /\ agent' = agent
      BY <2>2, <3>1, <3>2 DEF RegisterNode, SetNodeSecret, RowsInv
    <3> QED
      BY <2>1, <3>2, <3>3 DEF Undisturbed
  <2>3. CASE ConfirmHostKey(n)
    <3>1. DOMAIN row' = DOMAIN row /\ row'[m].gen = row[m].gen /\ row'[m].settled = row[m].settled
      BY <2>1, <2>3 DEF ConfirmHostKey, RowsInv
    <3> QED
      BY <2>1, <2>3, <3>1 DEF ConfirmHostKey, Undisturbed
  <2>4. CASE DeleteNode(n)
    <3>1. m \in DOMAIN row /\ row'[m] = row[m]
      BY <2>1, <2>4 DEF DeleteNode, Restrict
    <3> QED
      BY <2>1, <2>4, <3>1 DEF DeleteNode, Undisturbed
  <2>5. CASE RemoveNodeSecret(n)
    <3>1. row' = row /\ agent' = agent /\ n \in orphans
      BY <2>5 DEF RemoveNodeSecret
    <3>2. m # n /\ m \in Nodes
      BY <2>1, <3>1 DEF RowsInv
    <3>3. token'[m] = token[m]
      BY <2>5, <3>2 DEF RemoveNodeSecret, SetNodeSecret, RowsInv
    <3> QED
      BY <2>1, <3>1, <3>3 DEF Undisturbed
  <2> QED
    BY <2>2, <2>3, <2>4, <2>5
<1> QED
  BY <1>1, <1>2, TokenSame

\* A request for an operation: the new one has not read the token yet.
LEMMA SpawnKeepsToken ==
    ASSUME OpsInv, NEW n \in Nodes, NEW kind \in Kinds, NEW tofu, SpawnNodeOp(n, kind, tofu),
           NEW o \in Ops, TokenOf(o)
    PROVE  TokenOf(o)'
<1> USE DEF OpsInv
<1>1. /\ n \in DOMAIN row /\ BuildTransport(n, kind, tofu) /\ intact' = intact
      /\ UNCHANGED <<token, agent, minted, gens, orphans>>
  BY DEF SpawnNodeOp, BeginRecord, Quarantine, journalData, process
<1>2. /\ DOMAIN row' = DOMAIN row
      /\ \A m \in DOMAIN row : row'[m].gen = row[m].gen /\ row'[m].settled = row[m].settled
  BY <1>1, TransportKeeps
<1>3. CASE thread'[o] = thread[o]
  <2>1. Undisturbed(o)' => Undisturbed(o)
    BY <1>1, <1>2, <1>3 DEF Undisturbed, NodeOf
  <2> QED
    BY <1>1, <1>3, <2>1, TokenSame
<1>4. CASE thread'[o] # thread[o]
  <2>1. thread' = [thread EXCEPT ![Min(Free)] = [NoThread EXCEPT !.node = n,
                     !.rest = Programs(kind), !.gen = row[n].gen]]
    BY <1>4 DEF SpawnNodeOp
  <2>2. thread'[o] = [NoThread EXCEPT !.node = n, !.rest = Programs(kind), !.gen = row[n].gen]
    BY <1>4, <2>1 DEF ThreadsInv
  <2>3. thread'[o].rest = Programs(kind)
    BY <2>2 DEF NoThread
  <2> QED
    BY <2>3, ProgramsAre DEF TokenOf, At
<1> QED
  BY <1>3, <1>4

LEMMA TokenInductive == OpsInv /\ TokenInv /\ [NodeOpsNext]_vars => TokenInv'
<1> SUFFICES ASSUME OpsInv, TokenInv, [NodeOpsNext]_vars, NEW o \in Ops PROVE TokenOf(o)'
  BY DEF TokenInv
<1>0. TokenOf(o)
  BY DEF TokenInv
<1>q. ASSUME UNCHANGED <<row, token, agent, intact>>, thread'[o] = thread[o] PROVE TokenOf(o)'
  <2>1. Undisturbed(o)' => Undisturbed(o)
    BY <1>q DEF Undisturbed, NodeOf
  <2> QED
    BY <1>0, <1>q, <2>1, TokenSame
<1>1. ASSUME NEW p \in Ops, OpStep(p), ~FinishOp(p) PROVE TokenOf(o)'
  BY <1>0, <1>1, OwnStepKeepsToken, OtherStepKeepsToken
<1>2. ASSUME NEW p \in Ops, FinishOp(p) PROVE TokenOf(o)'
  <2>1. UNCHANGED <<row, token, agent, intact>>
    BY <1>2 DEF FinishOp, FinishRecord, Quarantine, nodeData
  <2>2. CASE p # o
    <3>1. thread'[o] = thread[o]
      BY <1>2, <2>2 DEF FinishOp, Goes, OpsInv, ThreadsInv
    <3> QED
      BY <1>q, <2>1, <3>1
  <2>3. CASE p = o
    <3>1. Head(thread[o].rest) = "finish" /\ thread[o].rest # <<>> /\ Program(thread[o].rest)
      BY <1>2, <2>3 DEF FinishOp, At, Live, OpsInv, ThreadsInv
    <3>2. thread'[o].rest = Tail(thread[o].rest)
      BY <1>2, <2>3 DEF FinishOp, Goes, OpsInv, ThreadsInv, ThreadState
    <3>3. ~Live(o)'
      BY <3>1, <3>2, ProgramGoesOn DEF Live
    <3> QED
      BY <3>3 DEF TokenOf
  <2> QED
    BY <2>2, <2>3
<1>3. ASSUME NEW n \in Nodes, NEW kind \in {"provision", "rotate", "activate"},
             NEW tofu \in BOOLEAN, SpawnNodeOp(n, kind, tofu)
      PROVE  TokenOf(o)'
  BY <1>0, <1>3, SpawnKeepsToken DEF Kinds
<1>4. ASSUME NEW n \in Nodes,
             \/ RegisterNode(n) \/ ConfirmHostKey(n) \/ DeleteNode(n) \/ RemoveNodeSecret(n)
      PROVE  TokenOf(o)'
  BY <1>0, <1>4, CallsKeepToken
<1>5. CASE JournalDamaged
  BY <1>5 DEF JournalDamaged, TokenOf, Undisturbed
<1>6. CASE ProcessDies
  <2>1. thread'[o].rest = <<>>
    BY <1>6 DEF ProcessDies, OpsInv, ThreadsInv, ThreadState
  <2> QED
    BY <2>1 DEF TokenOf, Live
<1>7. CASE ProcessStarts \/ ReaperDone \/ \E p \in Ops : ReapFinish(p)
  BY <1>q, <1>7 DEF ProcessStarts, ReaperDone, ReapFinish, FinishRecord, Quarantine, nodeData,
                    journalData
<1>8. ASSUME NEW p \in Ops, ReapUnstick(p) PROVE TokenOf(o)'
  <2>1. ~Live(o) /\ thread' = thread
    BY <1>8 DEF ReapUnstick, OpsInv, ThreadsInv
  <2> QED
    BY <2>1 DEF TokenOf, Live
<1>9. CASE UNCHANGED vars
  BY <1>q, <1>9 DEF vars
<1> QED
  BY <1>1, <1>2, <1>3, <1>4, <1>5, <1>6, <1>7, <1>8, <1>9 DEF NodeOpsNext, Startup

\* When provisioning is about to report a node as ready, the agent there accepts
\* the token the gateway holds, whatever other operations, calls, crashes and
\* restarts came in between: the guard of the journal keeps the node's token with
\* one operation, while the journal is intact and the node not registered anew.
THEOREM ReadyNodesAreManageable == NodeOpsSpec => []ReadyMeansManageable
<1>1. NodeOpsInit => TokenInv
  BY DEF NodeOpsInit, TokenInv, TokenOf, Live, NoThread
<1>2. TokenInv => ReadyMeansManageable
  BY DEF TokenInv, TokenOf, ReadyMeansManageable, Undisturbed, At
<1> QED
  BY <1>1, <1>2, TokenInductive, OperationsInvariant, PTL DEF NodeOpsSpec
=============================================================================
