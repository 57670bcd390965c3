----------------------------- MODULE FdirProofs -----------------------------
(***************************************************************************)
(* The fault handling of a node.  First its parts, each proved on its own: *)
(* the quiesce gate for any threads, domains, ttls and ceiling; the mode   *)
(* enforcer for any set of threads; the recovery ladder for both camera    *)
(* types and for every policy (budgets, cooldowns, timeouts, windows,      *)
(* reboot limit).  Then the whole: the watchdogs, the thermal monitor, the *)
(* operator and the process lifecycle of module Fdir drive the ladder and  *)
(* the gate only through the operations their own modules describe, so     *)
(* what is proved of the parts holds of the node.                          *)
(***************************************************************************)
EXTENDS Fdir, FiniteSetTheorems, TLAPS

-----------------------------------------------------------------------------
(* The quiesce gate                                                        *)

\* The window, while it is open, ends within Ceiling of its first arm.
WindowInv == left > 0 => windowAge + left =< Ceiling

\* BlindnessBounded is inductive only together with the refcount: time is
\* counted while somebody is inside, and an open window has somebody inside.
QuiesceInv == QuiesceTypeOK /\ GateFollowsHolders /\ WindowInv

\* The threads inside are finitely many, whatever happens.
LEMMA InsideFinite ==
    ASSUME QuiesceTypeOK PROVE IsFiniteSet(inside)
  BY FS_Subset, ThreadsFinite DEF QuiesceTypeOK

\* Nothing is armed when the process starts, and the gate is open.
LEMMA InitQuiesceInv == QuiesceInit => QuiesceInv
  BY FS_EmptySet, CeilingNat
  DEF QuiesceInit, QuiesceInv, QuiesceTypeOK, GateFollowsHolders, WindowInv

\* The length of a window is clamped to the ceiling.
LEMMA ClampBounded ==
    ASSUME NEW ttl \in Ttls PROVE Clamp(ttl) \in 0..Ceiling
  BY CeilingNat, TtlsPositive DEF Clamp

\* Arming, leaving, time and the death of the process keep the invariant.
LEMMA NextQuiesceInv == QuiesceInv /\ [QuiesceNext]_quiesceVars => QuiesceInv'
<1> SUFFICES ASSUME QuiesceInv, [QuiesceNext]_quiesceVars PROVE QuiesceInv'
  OBVIOUS
<1> USE CeilingNat DEF QuiesceInv
<1>f. IsFiniteSet(inside)
  BY InsideFinite
<1>1. ASSUME NEW t \in Threads, NEW ttl \in Ttls, NEW ds \in SUBSET Domains,
             Quiesce(t, ttl, ds)
      PROVE  QuiesceInv'
  <2>c. Cardinality(inside') = Cardinality(inside) + 1
    BY <1>1, <1>f, FS_AddElement DEF Quiesce
  <2>1. QuiesceTypeOK'
    BY <1>1, ClampBounded DEF Quiesce, QuiesceTypeOK
  <2>2. GateFollowsHolders'
    BY <1>1, <2>c DEF Quiesce, GateFollowsHolders
  <2>3. WindowInv'
    BY <1>1, ClampBounded DEF Quiesce, WindowInv
  <2> QED
    BY <2>1, <2>2, <2>3
<1>2. ASSUME NEW t \in Threads, Unquiesce(t)
      PROVE  QuiesceInv'
  <2>c. /\ Cardinality(inside') = Cardinality(inside) - 1
        /\ IsFiniteSet(inside')
    BY <1>2, <1>f, FS_RemoveElement DEF Unquiesce
  <2>n. /\ Cardinality(inside) \in Nat
        /\ Cardinality(inside') \in Nat
        /\ Cardinality(inside) > 0
    BY <1>2, <1>f, <2>c, FS_CardinalityType, FS_EmptySet DEF Unquiesce
  <2>a. arms' = Cardinality(inside')
    BY <1>2, <2>c, <2>n DEF Unquiesce, GateFollowsHolders
  <2>1. QuiesceTypeOK'
    BY <1>2, <2>a, <2>n DEF Unquiesce, QuiesceTypeOK
  <2>2. GateFollowsHolders'
    <3>1. inside' = {} => arms' = 0
      BY <2>a, FS_EmptySet
    <3> QED
      BY <1>2, <2>a, <3>1 DEF Unquiesce, GateFollowsHolders
  <2>3. WindowInv'
    BY <1>2 DEF Unquiesce, WindowInv
  <2> QED
    BY <2>1, <2>2, <2>3
<1>3. ASSUME QuiesceTick
      PROVE  QuiesceInv'
  <2>1. QuiesceTypeOK'
    BY <1>3 DEF QuiesceTick, QuiesceTypeOK
  <2>2. GateFollowsHolders'
    BY <1>3 DEF QuiesceTick, GateFollowsHolders
  <2>3. WindowInv'
    BY <1>3 DEF QuiesceTick, WindowInv, GateFollowsHolders, QuiesceTypeOK
  <2> QED
    BY <2>1, <2>2, <2>3
<1>4. ASSUME QuiesceLost
      PROVE  QuiesceInv'
  BY <1>4, FS_EmptySet
  DEF QuiesceLost, QuiesceTypeOK, GateFollowsHolders, WindowInv
<1>5. ASSUME UNCHANGED quiesceVars
      PROVE  QuiesceInv'
  BY <1>5 DEF quiesceVars, QuiesceTypeOK, GateFollowsHolders, WindowInv
<1> QED
  BY <1>1, <1>2, <1>3, <1>4, <1>5 DEF QuiesceNext

\* The inductive invariant of the gate.
THEOREM QuiesceInvariant == QuiesceSpec => []QuiesceInv
  BY InitQuiesceInv, NextQuiesceInv, PTL DEF QuiesceSpec

\* Type correctness of the gate (fdir_quiesce.py).
THEOREM QuiesceTypeCorrect == QuiesceSpec => []QuiesceTypeOK
<1>1. QuiesceInv => QuiesceTypeOK
  BY DEF QuiesceInv
<1> QED
  BY <1>1, QuiesceInvariant, PTL

\* TB-C6: the watchdogs are blind for a domain only within Ceiling of the first
\* arm, for any number of overlapping restarts and any ttls they ask for.
THEOREM BlindnessIsBounded == QuiesceSpec => []BlindnessBounded
<1>1. QuiesceInv => BlindnessBounded
  BY DEF QuiesceInv, WindowInv, BlindnessBounded, IsQuiesced
<1> QED
  BY <1>1, QuiesceInvariant, PTL

\* The refcount is exact: the gate opens when, and only when, the last restart
\* has left it (or the deadline has passed).
THEOREM GateIsExact == QuiesceSpec => []GateFollowsHolders
<1>1. QuiesceInv => GateFollowsHolders
  BY DEF QuiesceInv
<1> QED
  BY <1>1, QuiesceInvariant, PTL

-----------------------------------------------------------------------------
(* The mode enforcer: serial mode changes are enforced                     *)

\* A thread that has ended its listener call is quiet.
IdleInv == \A t \in Threads : At(t, "idle") => Quiet(t)

\* Where no change overlapped a listener, at most one listener is running.
AloneInv ==
    ~overlapped => \A t, u \in Threads : ~Quiet(t) /\ ~Quiet(u) => t = u

\* The profile of the mode is in place.
Profiled == mode # "SAFE" => profile = ProfileOf[mode]

\* What the only running listener has achieved, by the step it is at.
ProgressInv ==
    ~CmdFaults /\ ~overlapped =>
        \A t \in Threads : ~Quiet(t) =>
            /\ callback[t].to = mode
            /\ At(t, "profile") \/ Profiled
            /\ At(t, "stop") => mode = "SAFE"
            /\ callback[t].pc \in {"ensure", "restart", "start"} => mode # "SAFE"

EnforcerInv ==
    EnforcerTypeOK /\ IdleInv /\ AloneInv /\ ProgressInv /\ EnforcedWhenSerial

-----------------------------------------------------------------------------
\* A mode change either changes nothing or starts the listener of a new mode.
LEMMA ChangeCases ==
    ASSUME EnforcerInv, NEW t \in Threads, ChangeMode(t)
    PROVE  \/ UNCHANGED <<modeVars, enforcerVars>>
           \/ /\ mode' \in Modes /\ mode' # mode /\ modeAge' = 0
              /\ callback' = [callback EXCEPT ![t] =
                                 [pc |-> "profile", from |-> mode, to |-> mode']]
              /\ overlapped' = (\E u \in Threads \ {t} : ~Quiet(u))
              /\ UNCHANGED <<active, profile>>
<1>t. mode \in Modes
  BY DEF EnforcerInv, EnforcerTypeOK, ModeTypeOK
<1>1. ASSUME NEW m \in Modes, m # mode, SetMode(t, m)
      PROVE  /\ mode' \in Modes /\ mode' # mode /\ modeAge' = 0
             /\ callback' = [callback EXCEPT ![t] =
                                [pc |-> "profile", from |-> mode, to |-> mode']]
  BY <1>1 DEF SetMode
<1>2. \/ UNCHANGED modeVars
      \/ \E m \in Modes : m # mode /\ SetMode(t, m)
  <2>1. ASSUME NEW m \in Modes, Transition(t, m)
        PROVE  UNCHANGED modeVars \/ (m # mode /\ SetMode(t, m))
    BY <2>1 DEF Transition
  <2>2. ASSUME Degrade(t)
        PROVE  \E m \in Modes : UNCHANGED modeVars \/ (m # mode /\ SetMode(t, m))
    <3>1. OneDown[mode] \in Modes
      BY <1>t DEF OneDown, Modes
    <3> QED
      BY <2>1, <2>2, <3>1 DEF Degrade
  <2>3. ASSUME Promote(t, "NOMINAL")
        PROVE  UNCHANGED modeVars \/ ("NOMINAL" # mode /\ SetMode(t, "NOMINAL"))
    <3>1. CASE mode = "NOMINAL"
      BY <2>3, <3>1 DEF Promote, ModeLevel, Modes
    <3>2. CASE mode # "NOMINAL"
      BY <2>3, <3>2 DEF Promote
    <3> QED
      BY <3>1, <3>2
  <2>4. "NOMINAL" \in Modes
    BY DEF Modes
  <2> QED
    BY <2>1, <2>2, <2>3, <2>4 DEF ChangeMode
<1>3. CASE UNCHANGED modeVars
  BY <1>3 DEF ChangeMode, NoteOverlap, modeVars, enforcerVars
<1>4. CASE \E m \in Modes : m # mode /\ SetMode(t, m)
  BY <1>1, <1>4 DEF ChangeMode, NoteOverlap
<1> QED
  BY <1>2, <1>3, <1>4

\* A step of a listener moves that listener only, and leaves the mode alone.
LEMMA StepMoves ==
    ASSUME EnforcerInv, NEW t \in Threads, EnforceStep(t)
    PROVE  /\ UNCHANGED <<mode, modeAge, overlapped>>
           /\ ~Quiet(t)
           /\ \E pc \in CallbackSteps \ {"profile"} : Goto(t, pc)
<1>1. CASE EnforceProfile(t)
  BY <1>1 DEF EnforceProfile, At, Quiet, NoCallback, ModeKept, CallbackSteps
<1>2. CASE EnforceProbe(t)
  BY <1>2 DEF EnforceProbe, At, Quiet, NoCallback, ModeKept, CallbackSteps, enforcerVars
<1>3. CASE EnforceEnsure(t)
  BY <1>3 DEF EnforceEnsure, At, Quiet, NoCallback, ModeKept, CallbackSteps, enforcerVars
<1>4. CASE EnforceCommand(t)
  BY <1>4 DEF EnforceCommand, At, Quiet, NoCallback, ModeKept, CallbackSteps
<1> QED
  BY <1>1, <1>2, <1>3, <1>4 DEF EnforceStep

\* Where a listener goes, its record follows.
LEMMA GotoRecord ==
    ASSUME ModeTypeOK, NEW t \in Threads, NEW pc \in CallbackSteps, Goto(t, pc)
    PROVE  /\ callback' \in [Threads -> [pc : CallbackSteps, from : Modes, to : Modes]]
           /\ \A u \in Threads \ {t} : callback'[u] = callback[u]
           /\ pc = "idle" => callback'[t] = NoCallback
           /\ pc # "idle" => callback'[t].pc = pc /\ callback'[t].to = callback[t].to
<1>1. NoCallback \in [pc : CallbackSteps, from : Modes, to : Modes]
  BY DEF NoCallback, CallbackSteps, Modes
<1> QED
  BY <1>1 DEF Goto, ModeTypeOK, Modes

-----------------------------------------------------------------------------
\* A mode change starts a listener that has everything still to do; if others
\* are running it is marked as overlapping.
LEMMA ChangeKeepsInv ==
    ASSUME EnforcerInv, NEW t \in Threads, ChangeMode(t)
    PROVE  EnforcerInv'
<1>1. CASE UNCHANGED <<modeVars, enforcerVars>>
  BY <1>1 DEF EnforcerInv, EnforcerTypeOK, ModeTypeOK, IdleInv, AloneInv, ProgressInv, Profiled,
              EnforcedWhenSerial, Enforced, AllQuiet, At, Quiet, modeVars, enforcerVars
<1>2. CASE /\ mode' \in Modes /\ mode' # mode /\ modeAge' = 0
           /\ callback' = [callback EXCEPT ![t] =
                              [pc |-> "profile", from |-> mode, to |-> mode']]
           /\ overlapped' = (\E u \in Threads \ {t} : ~Quiet(u))
           /\ UNCHANGED <<active, profile>>
  <2> USE <1>2 DEF EnforcerInv
  <2>1. /\ callback'[t].pc = "profile" /\ callback'[t].to = mode'
        /\ \A u \in Threads \ {t} : callback'[u] = callback[u]
    BY DEF EnforcerTypeOK, ModeTypeOK
  <2>2. ~Quiet(t)'
    BY <2>1 DEF Quiet, NoCallback
  <2>3. EnforcerTypeOK'
    <3>1. callback' \in [Threads -> [pc : CallbackSteps, from : Modes, to : Modes]]
      BY DEF EnforcerTypeOK, ModeTypeOK, CallbackSteps
    <3>2. modeAge' \in 0..SafeAutoReset
      BY SafeAutoResetNat
    <3>3. overlapped' \in BOOLEAN
      BY Zenon
    <3> QED
      BY <3>1, <3>2, <3>3 DEF EnforcerTypeOK, ModeTypeOK
  <2>4. IdleInv'
    BY <2>1 DEF IdleInv, At, Quiet
  <2>5. ~overlapped' => \A u \in Threads \ {t} : Quiet(u)'
    BY <2>1 DEF Quiet
  <2>6. AloneInv'
    BY <2>5 DEF AloneInv
  <2>7. ProgressInv'
    BY <2>1, <2>5 DEF ProgressInv, At
  <2>8. EnforcedWhenSerial'
    BY <2>2 DEF EnforcedWhenSerial, AllQuiet
  <2> QED
    BY <2>3, <2>4, <2>6, <2>7, <2>8
<1> QED
  BY <1>1, <1>2, ChangeCases

\* A listener that runs alone brings the world into line with the mode.
LEMMA StepKeepsInv ==
    ASSUME EnforcerInv, NEW t \in Threads, EnforceStep(t)
    PROVE  EnforcerInv'
<1> USE DEF EnforcerInv
<1>1. PICK pc \in CallbackSteps \ {"profile"} : Goto(t, pc)
  BY StepMoves
<1>2. /\ callback' \in [Threads -> [pc : CallbackSteps, from : Modes, to : Modes]]
      /\ \A u \in Threads \ {t} : callback'[u] = callback[u]
      /\ pc = "idle" => callback'[t] = NoCallback
      /\ pc # "idle" => callback'[t].pc = pc /\ callback'[t].to = callback[t].to
  BY <1>1, GotoRecord DEF EnforcerTypeOK
<1>3. UNCHANGED <<mode, modeAge, overlapped>> /\ ~Quiet(t)
  BY StepMoves
<1>4. EnforcerTypeOK'
  <2>1. active' \in BOOLEAN /\ profile' \in Profiles
    <3>1. CASE EnforceProfile(t)
      BY <3>1 DEF EnforceProfile, ProfileOf, Profiles, EnforcerTypeOK, ModeTypeOK, Modes
    <3>2. CASE EnforceProbe(t) \/ EnforceEnsure(t)
      BY <3>2 DEF EnforceProbe, EnforceEnsure, enforcerVars, EnforcerTypeOK
    <3>3. CASE EnforceCommand(t)
      BY <3>3, Zenon DEF EnforceCommand, EnforcerTypeOK
    <3> QED
      BY <3>1, <3>2, <3>3 DEF EnforceStep
  <2> QED
    BY <1>2, <1>3, <2>1 DEF EnforcerTypeOK, ModeTypeOK
<1>5. IdleInv'
  BY <1>2 DEF IdleInv, At, Quiet
<1>6. AloneInv'
  BY <1>2, <1>3 DEF AloneInv, Quiet
<1>7. ASSUME ~CmdFaults, ~overlapped
      PROVE  /\ callback[t].to = mode
             /\ pc # "idle" => /\ Profiled'
                               /\ pc = "stop" => mode = "SAFE"
                               /\ pc \in {"ensure", "restart", "start"} => mode # "SAFE"
             /\ pc = "idle" => Enforced'
  <2>0. /\ callback[t].to = mode
        /\ At(t, "profile") \/ Profiled
        /\ At(t, "stop") => mode = "SAFE"
        /\ callback[t].pc \in {"ensure", "restart", "start"} => mode # "SAFE"
        /\ mode \in Modes
    BY <1>3, <1>7 DEF ProgressInv, EnforcerTypeOK, ModeTypeOK
  <2>p. ASSUME NEW p \in CallbackSteps, Goto(t, p)
        PROVE  p = pc
    BY <1>1, <2>p DEF Goto, NoCallback, EnforcerTypeOK, ModeTypeOK
  <2>1. CASE EnforceProfile(t)
    <3>1. pc \in {"probe", "ensure"} /\ (pc = "ensure" => mode # "SAFE")
      BY <2>1, <2>0, <2>p DEF EnforceProfile, CallbackSteps
    <3>2. mode # "SAFE" => profile' = ProfileOf[mode]
      BY <2>1, <2>0, <1>7 DEF EnforceProfile
    <3> QED
      BY <1>3, <2>0, <3>1, <3>2 DEF Profiled
  <2>2. CASE EnforceProbe(t)
    <3>1. /\ mode = "SAFE" => pc = (IF active THEN "stop" ELSE "idle")
          /\ mode # "SAFE" => pc = (IF active THEN "restart" ELSE "ensure")
      BY <2>2, <2>0, <2>p, <1>7 DEF EnforceProbe, ServiceSeen, CallbackSteps
    <3>2. UNCHANGED <<active, profile>> /\ Profiled
      BY <2>2, <2>0 DEF EnforceProbe, enforcerVars, At
    <3> QED
      BY <1>3, <2>0, <3>1, <3>2 DEF Profiled, Enforced, StreamsEnabled
  <2>3. CASE EnforceEnsure(t)
    <3>1. pc = (IF active THEN "idle" ELSE "start")
      BY <2>3, <2>p, <1>7 DEF EnforceEnsure, ServiceSeen, CallbackSteps
    <3>2. UNCHANGED <<active, profile>> /\ Profiled /\ mode # "SAFE"
      BY <2>3, <2>0 DEF EnforceEnsure, enforcerVars, At
    <3> QED
      BY <1>3, <2>0, <3>1, <3>2 DEF Profiled, Enforced, StreamsEnabled
  <2>4. CASE EnforceCommand(t)
    <3>1. pc = "idle" /\ UNCHANGED profile /\ active' = ~At(t, "stop")
      BY <2>4, <2>p, <1>7 DEF EnforceCommand, CallbackSteps
    <3>2. Profiled /\ (At(t, "stop") <=> mode = "SAFE")
      BY <2>4, <2>0 DEF EnforceCommand, At
    <3> QED
      BY <1>3, <2>0, <3>1, <3>2 DEF Profiled, Enforced, StreamsEnabled
  <2> QED
    BY <2>1, <2>2, <2>3, <2>4 DEF EnforceStep
<1>8. ~overlapped => \A u \in Threads \ {t} : Quiet(u)'
  BY <1>2, <1>3 DEF AloneInv, Quiet
<1>9. ProgressInv'
  <2> SUFFICES ASSUME ~CmdFaults, ~overlapped, NEW u \in Threads, ~Quiet(u)'
               PROVE  /\ callback'[u].to = mode'
                      /\ At(u, "profile")' \/ Profiled'
                      /\ At(u, "stop")' => mode' = "SAFE"
                      /\ callback'[u].pc \in {"ensure", "restart", "start"} => mode' # "SAFE"
    BY <1>3 DEF ProgressInv
  <2>1. u = t
    BY <1>8
  <2>2. pc # "idle"
    BY <1>2, <2>1 DEF Quiet
  <2> QED
    BY <1>2, <1>3, <1>7, <2>1, <2>2 DEF At
<1>10. EnforcedWhenSerial'
  <2> SUFFICES ASSUME ~CmdFaults, ~overlapped, AllQuiet' PROVE Enforced'
    BY <1>3 DEF EnforcedWhenSerial
  <2>1. pc = "idle"
    BY <1>2 DEF AllQuiet, Quiet, NoCallback
  <2> QED
    BY <1>7, <2>1
<1> QED
  BY <1>4, <1>5, <1>6, <1>9, <1>10

\* The inductive invariant of the enforcer.
THEOREM EnforcerInvariant == EnforcerSpec => []EnforcerInv
<1>1. EnforcerInit => EnforcerInv
  <2> SUFFICES ASSUME EnforcerInit PROVE EnforcerInv
    OBVIOUS
  <2>1. NoCallback \in [pc : CallbackSteps, from : Modes, to : Modes]
    BY DEF NoCallback, CallbackSteps, Modes
  <2>2. EnforcerTypeOK
    <3>1. ModeTypeOK
      BY <2>1, SafeAutoResetNat DEF EnforcerInit, ModeInit, ModeTypeOK, Modes
    <3>2. active \in BOOLEAN /\ overlapped \in BOOLEAN /\ profile \in Profiles
      BY Zenon DEF EnforcerInit, Profiles
    <3> QED
      BY <3>1, <3>2 DEF EnforcerTypeOK
  <2>3. AllQuiet
    BY DEF EnforcerInit, ModeInit, AllQuiet, Quiet
  <2>4. Enforced
    BY DEF ModeInit, EnforcerInit, Enforced, StreamsEnabled, ProfileOf, Modes
  <2> QED
    BY <2>2, <2>3, <2>4
    DEF EnforcerInv, IdleInv, AloneInv, ProgressInv, EnforcedWhenSerial, AllQuiet
<1>2. ASSUME EnforcerInv, UNCHANGED <<modeVars, enforcerVars>> PROVE EnforcerInv'
  BY <1>2 DEF EnforcerInv, EnforcerTypeOK, ModeTypeOK, IdleInv, AloneInv, ProgressInv, Profiled,
              EnforcedWhenSerial, Enforced, AllQuiet, At, Quiet, modeVars, enforcerVars
<1>3. EnforcerInv /\ [EnforcerNext]_<<modeVars, enforcerVars>> => EnforcerInv'
  BY <1>2, ChangeKeepsInv, StepKeepsInv DEF EnforcerNext
<1> QED
  BY <1>1, <1>3, PTL DEF EnforcerSpec

\* Type correctness of the mode and its enforcer.
THEOREM EnforcerTypeCorrect == EnforcerSpec => []EnforcerTypeOK
<1>1. EnforcerInv => EnforcerTypeOK
  BY DEF EnforcerInv
<1> QED
  BY <1>1, EnforcerInvariant, PTL

\* With working commands, mode changes that do not overlap are enforced: the
\* encoder and the fps profile agree with the mode whenever no listener runs.
THEOREM SerialChangesEnforced == EnforcerSpec => []EnforcedWhenSerial
<1>1. EnforcerInv => EnforcedWhenSerial
  BY DEF EnforcerInv
<1> QED
  BY <1>1, EnforcerInvariant, PTL

-----------------------------------------------------------------------------
(* What the recovery ladder promises                                       *)

(* The inductive invariant.                                                *)

\* An action runs in a live process, on a level of the ladder; the reboot
\* command runs only on a reboot level.
PhaseInv ==
    /\ phase # "free" => up
    /\ phase \in {"counted", "executing", "rebooting"} => level \in Idx
    /\ phase = "rebooting" => ActionOf(level) = "reboot_node"

\* Memory never runs ahead of the file: a process that dies at any step finds
\* every attempt it has made, with its age, when it starts again.
FileInv ==
    up => /\ attempts = saved.attempts
          /\ age = saved.age
          /\ level =< N => level = saved.level

\* Every attempt on file was started, is about to be started or was lost with
\* its process, and a level is left only when its budget is spent.
Pending(i) == IF phase = "counted" /\ level = i THEN 1 ELSE 0
BudgetInv ==
    /\ \A i \in Idx : done[i] + lost[i] + Pending(i) = saved.attempts[i]
    /\ \A i \in Idx : saved.attempts[i] =< Budget(i)
    /\ \A i \in Idx : i < saved.level => saved.attempts[i] = Budget(i)

\* A reboot is counted before it is commanded.
CounterInv ==
    /\ rebootCount =< MaxFdirReboots
    /\ issued =< rebootCount
    /\ phase = "rebooting" => rebootCount = reboots + 1 /\ issued =< reboots

\* The stamp on file is never older than the last action, the ladder moves past
\* the level of that action only when its cooldown is over, and so is whatever
\* action is about to start.
CooldownInv ==
    /\ phase = "counted" => saved.age[level] = 0
    /\ lastExec # 0 =>
        /\ lastExec =< saved.level
        /\ saved.age[lastExec] =< sinceExec
        /\ lastExec < saved.level /\ saved.level =< N =>
               sinceExec >= Cooldown[ActionOf(lastExec)]
        /\ phase = "counted" => sinceExec >= Cooldown[ActionOf(lastExec)]

LadderInv ==
    /\ LadderTypeOK /\ PhaseInv
    /\ ~StorageFaults => FileInv /\ BudgetInv /\ CounterInv /\ CooldownInv

-----------------------------------------------------------------------------
(* The ladder of the policy.                                               *)

\* default_ladder: four or five levels, the reboot being the last one only.
LEMMA LadderShape ==
    /\ N \in Nat /\ N >= 1
    /\ \A i \in Idx : ActionOf(i) \in Actions
    /\ \A i \in Idx : ActionOf(i) = "reboot_node" <=> i = N
<1>1. CASE CameraType = "depth_camera"
  <2>1. DefaultLadder = <<"retry_handle", "restart_pipeline", "restart_janus",
                          "usb_reset", "reboot_node">>
    BY <1>1 DEF DefaultLadder
  <2>2. N = 5
    BY <2>1 DEF N
  <2> QED
    BY <2>1, <2>2 DEF Idx, ActionOf, Actions
<1>2. CASE CameraType # "depth_camera"
  <2>1. DefaultLadder = <<"retry_handle", "restart_pipeline", "restart_janus",
                          "reboot_node">>
    BY <1>2 DEF DefaultLadder
  <2>2. N = 4
    BY <2>1 DEF N
  <2> QED
    BY <2>1, <2>2 DEF Idx, ActionOf, Actions
<1> QED
  BY <1>1, <1>2

\* Every level has a positive budget, a cooldown and a timeout within AgeCap.
LEMMA PolicyOfLevel ==
    ASSUME NEW i \in Idx
    PROVE  /\ Budget(i) \in Nat /\ Budget(i) >= 1
           /\ Cooldown[ActionOf(i)] \in Nat
           /\ CmdTimeout[ActionOf(i)] \in Nat
           /\ CmdTimeout[ActionOf(i)] =< AgeCap
  BY LadderShape, PolicyTypes, AgeCapSuffices DEF Budget

\* An age that grows stays an age.
LEMMA OlderIsAge ==
    ASSUME NEW a \in 0..AgeCap
    PROVE  Older(a) \in 0..AgeCap /\ Older(a) >= a
  BY PolicyTypes DEF Older

\* Ages keep their order.
LEMMA OlderKeepsOrder ==
    ASSUME NEW a \in 0..AgeCap, NEW b \in 0..AgeCap, a =< b
    PROVE  Older(a) =< Older(b)
  BY PolicyTypes DEF Older

\* A bounded count stays a number.
LEMMA CountToIsNat ==
    ASSUME NEW n \in Nat, NEW bound \in Nat
    PROVE  CountTo(n, bound) \in Nat
  BY DEF CountTo

\* One more of a history is a history; below the budget it is one more.
LEMMA OneMoreCounts ==
    ASSUME NEW h \in [Idx -> Nat], level \in Idx
    PROVE  /\ OneMore(h) \in [Idx -> Nat]
           /\ h[level] =< Budget(level) => OneMore(h)[level] = h[level] + 1
           /\ \A i \in Idx \ {level} : OneMore(h)[i] = h[i]
<1>1. Budget(level) \in Nat /\ MaxAttempts[ActionOf(level)] = Budget(level)
  BY PolicyOfLevel DEF Budget
<1>2. CountTo(h[level], Budget(level) + 1) \in Nat
  <2>1. h[level] \in Nat
    OBVIOUS
  <2> QED
    BY <1>1, <2>1 DEF CountTo
<1>3. h[level] =< Budget(level) => CountTo(h[level], Budget(level) + 1) = h[level] + 1
  BY <1>1 DEF CountTo
<1>4. OneMore(h) = [h EXCEPT ![level] = CountTo(h[level], Budget(level) + 1)]
  BY <1>1 DEF OneMore
<1>5. OneMore(h)[level] = CountTo(h[level], Budget(level) + 1)
  BY <1>4
<1>6. \A i \in Idx \ {level} : OneMore(h)[i] = h[i]
  BY <1>4
<1>7. OneMore(h) \in [Idx -> Nat]
  BY <1>2, <1>4
<1> QED
  BY <1>3, <1>5, <1>6, <1>7

\* No attempts and no ages yet.
LEMMA NoneIsTyped ==
    /\ None \in [Idx -> Nat]
    /\ None \in [Idx -> 0..AgeCap]
    /\ NoFile \in SavedState
    /\ NoFile.level = 1 /\ NoFile.attempts = None /\ NoFile.age = None
  BY LadderShape, PolicyTypes DEF None, NoFile, SavedState

\* The ladder starts at its first level, with nothing executed or counted.
LEMMA InitLadderInv == LadderInit => LadderInv
<1> SUFFICES ASSUME LadderInit PROVE LadderInv
  OBVIOUS
<1> USE LadderShape, PolicyTypes, NoneIsTyped DEF LadderInit
<1>1. LadderTypeOK
  <2>1. up \in BOOLEAN /\ goingDown \in BOOLEAN
    BY Zenon
  <2>2. /\ hostAge \in 0..AgeCap /\ procAge \in 0..RebootCounterReset
        /\ level \in 1..(N + 1) /\ lastExec \in 0..N
        /\ escAge \in 0..AgeCap /\ execAge \in 0..AgeCap /\ sinceExec \in 0..AgeCap
    OBVIOUS
  <2> QED
    BY <2>1, <2>2 DEF LadderTypeOK, Phases
<1>2. PhaseInv
  BY DEF PhaseInv
<1>3. FileInv /\ CounterInv /\ CooldownInv
  BY DEF FileInv, CounterInv, CooldownInv
<1>4. BudgetInv
  BY PolicyOfLevel DEF BudgetInv, Pending, None, Idx
<1> QED
  BY <1>1, <1>2, <1>3, <1>4 DEF LadderInv

-----------------------------------------------------------------------------
(* Types and phases: they hold whatever the disk does.                     *)

\* A step that only ends the call under the lock.
LEMMA ReleaseKeepsTypes ==
    ASSUME LadderTypeOK, PhaseInv, Release, Unmoved,
           UNCHANGED <<level, attempts, age, escAge, saved, done, lost, lastExec, sinceExec>>,
           rebootCount' \in Nat, goingDown' \in BOOLEAN, issued' \in Nat
    PROVE  LadderTypeOK' /\ PhaseInv'
  BY PolicyTypes DEF LadderTypeOK, PhaseInv, Release, Unmoved, Phases, SavedState, Idx

\* What a write of the ladder file leaves is a ladder file.
LEMMA SaveKeepsType ==
    ASSUME saved \in SavedState,
           NEW lv \in 1..(N + 1), NEW at \in [Idx -> Nat], NEW ag \in [Idx -> 0..AgeCap],
           Save(lv, at, ag)
    PROVE  saved' \in SavedState
  BY DEF Save, SavedState

\* The memory of a process that died is typed, and its lock is free.
LEMMA DeathKeepsTypes ==
    ASSUME LadderTypeOK, MemoryLost, up' \in BOOLEAN, hostAge' \in 0..AgeCap,
           saved' \in SavedState, rebootCount' \in CountAfterDeath, goingDown' \in BOOLEAN,
           done' \in [Idx -> Nat], lost' \in [Idx -> Nat],
           lastExec' \in 0..N, sinceExec' \in 0..AgeCap,
           UNCHANGED issued
    PROVE  LadderTypeOK' /\ PhaseInv'
<1>1. rebootCount' \in Nat
  BY DEF CountAfterDeath, LadderTypeOK
<1> QED
  BY <1>1, NoneIsTyped, LadderShape, PolicyTypes
  DEF LadderTypeOK, PhaseInv, MemoryLost, Phases

\* Every step keeps the types and the phases.
LEMMA TypeStep ==
    LadderTypeOK /\ PhaseInv /\ [LadderNext]_ladderVars => LadderTypeOK' /\ PhaseInv'
<1> SUFFICES ASSUME LadderTypeOK, PhaseInv, [LadderNext]_ladderVars
             PROVE  LadderTypeOK' /\ PhaseInv'
  OBVIOUS
<1> USE LadderShape, PolicyTypes
<1>1. ASSUME NEW t \in Threads, Acquire(t)
      PROVE  LadderTypeOK' /\ PhaseInv'
  BY <1>1 DEF Acquire, OnlyLockMoves, Unmoved, LadderTypeOK, PhaseInv, Phases, diskVars,
              historyVars
<1>2. ASSUME NEW t \in Threads,
             \/ DecideExhausted(t) \/ DecideWait(t) \/ FinishAction(t)
             \/ RebootRefused(t) \/ RebootTimedOut(t)
      PROVE  LadderTypeOK' /\ PhaseInv'
  <2>1. /\ Release /\ Unmoved
        /\ UNCHANGED <<level, attempts, age, escAge, diskVars, historyVars>>
    BY <1>2 DEF DecideExhausted, DecideWait, FinishAction, RebootRefused, RebootTimedOut
  <2> QED
    BY <2>1, ReleaseKeepsTypes DEF diskVars, historyVars, LadderTypeOK
<1>3. ASSUME NEW t \in Threads, DecideEscalate(t)
      PROVE  LadderTypeOK' /\ PhaseInv'
  <2>1. level + 1 \in 1..(N + 1)
    BY <1>3 DEF DecideEscalate, MayAct, IsExhausted, LadderTypeOK
  <2>2. saved' \in SavedState
    BY <1>3, <2>1, SaveKeepsType DEF DecideEscalate, LadderTypeOK
  <2> QED
    BY <1>3, <2>1, <2>2
    DEF DecideEscalate, Holds, Unmoved, LadderTypeOK, PhaseInv, historyVars
<1>4. ASSUME NEW t \in Threads, DecideExecute(t)
      PROVE  LadderTypeOK' /\ PhaseInv'
  <2>1. level \in Idx
    BY <1>4 DEF DecideExecute, MayAct, IsExhausted, LadderTypeOK, Idx
  <2>2. attempts' \in [Idx -> Nat] /\ age' \in [Idx -> 0..AgeCap]
    BY <1>4, <2>1 DEF DecideExecute, LadderTypeOK
  <2>3. saved' \in SavedState
    BY <1>4, <2>2, SaveKeepsType DEF DecideExecute, LadderTypeOK
  <2> QED
    BY <1>4, <2>1, <2>2, <2>3
    DEF DecideExecute, Holds, Unmoved, LadderTypeOK, PhaseInv, Phases, historyVars
<1>15. ASSUME NEW t \in Threads, BeginAction(t)
       PROVE  LadderTypeOK' /\ PhaseInv'
  <2>1. level \in Idx /\ done \in [Idx -> Nat]
    BY <1>15 DEF BeginAction, Holds, PhaseInv, LadderTypeOK
  <2>2. done' \in [Idx -> Nat] /\ lastExec' \in 0..N
    <3>1. done' = OneMore(done) /\ lastExec' = level
      BY <1>15 DEF BeginAction
    <3>2. OneMore(done) \in [Idx -> Nat]
      BY <2>1, OneMoreCounts
    <3>3. level \in 0..N
      BY <2>1 DEF Idx
    <3> QED
      BY <3>1, <3>2, <3>3
  <2>3. sinceExec' \in 0..AgeCap
    BY <1>15 DEF BeginAction
  <2> QED
    BY <1>15, <2>1, <2>2, <2>3
    DEF BeginAction, Holds, Unmoved, LadderTypeOK, PhaseInv, Phases, diskVars
<1>5. ASSUME NEW t \in Threads, RebootCounted(t)
      PROVE  LadderTypeOK' /\ PhaseInv'
  BY <1>5 DEF RebootCounted, Executing, Holds, Unmoved, LadderTypeOK, PhaseInv, Phases,
              historyVars
<1>6. ASSUME NEW t \in Threads, RebootAccepted(t)
      PROVE  LadderTypeOK' /\ PhaseInv'
  <2>1. issued' \in Nat
    BY <1>6, CountToIsNat DEF RebootAccepted, LadderTypeOK
  <2> QED
    BY <1>6, <2>1, ReleaseKeepsTypes DEF RebootAccepted, LadderTypeOK
<1>7. ASSUME NEW t \in Threads, RebootFailed(t)
      PROVE  LadderTypeOK' /\ PhaseInv'
  BY <1>7, ReleaseKeepsTypes DEF RebootFailed, LadderTypeOK, historyVars
<1>8. ASSUME NEW t \in Threads, Reset(t)
      PROVE  LadderTypeOK' /\ PhaseInv'
  <2>1. Never \in [Idx -> 0..AgeCap]
    BY DEF Never, LadderTypeOK
  <2>2. saved' \in SavedState
    BY <1>8, <2>1, NoneIsTyped, SaveKeepsType DEF Reset, LadderTypeOK
  <2> QED
    BY <1>8, <2>1, <2>2, NoneIsTyped DEF Reset, Unmoved, LadderTypeOK, PhaseInv, Phases
<1>9. ASSUME NEW t \in Threads, ResetCounter(t)
      PROVE  LadderTypeOK' /\ PhaseInv'
  BY <1>9, ReleaseKeepsTypes DEF ResetCounter, LadderTypeOK
<1>10. ASSUME NEW t \in Threads, Start(t)
       PROVE  LadderTypeOK' /\ PhaseInv'
  <2>1. /\ saved.level \in 1..(N + 1)
        /\ saved.attempts \in [Idx -> Nat]
        /\ saved.age \in [Idx -> 0..AgeCap]
    BY DEF LadderTypeOK, SavedState
  <2> QED
    BY <1>10, <2>1 DEF Start, LadderTypeOK, PhaseInv, diskVars, historyVars
<1>11. ASSUME Crash
       PROVE  LadderTypeOK' /\ PhaseInv'
  <2>1. lost' \in [Idx -> Nat]
    BY <1>11, OneMoreCounts DEF Crash, LadderTypeOK, PhaseInv
  <2> QED
    BY <1>11, <2>1, DeathKeepsTypes DEF Crash, LadderTypeOK
<1>12. ASSUME Boot
       PROVE  LadderTypeOK' /\ PhaseInv'
  <2>1. up' \in BOOLEAN /\ goingDown' \in BOOLEAN
    BY <1>12, Zenon DEF Boot
  <2>2. hostAge' \in 0..AgeCap /\ sinceExec' \in 0..AgeCap /\ lastExec' \in 0..N
    BY <1>12 DEF Boot
  <2> QED
    BY <1>12, <2>1, <2>2, DeathKeepsTypes, NoneIsTyped DEF Boot
<1>13. ASSUME LadderTick
       PROVE  LadderTypeOK' /\ PhaseInv'
  <2>1. execAge' \in 0..AgeCap
    BY <1>13, PolicyOfLevel DEF LadderTick, LadderTypeOK, PhaseInv
  <2>2. age' \in [Idx -> 0..AgeCap]
    BY <1>13, OlderIsAge DEF LadderTick, LadderTypeOK
  <2>3. saved' \in SavedState
    BY <1>13, OlderIsAge DEF LadderTick, LadderTypeOK, SavedState
  <2>4. hostAge' \in 0..AgeCap /\ escAge' \in 0..AgeCap /\ sinceExec' \in 0..AgeCap
    BY <1>13, OlderIsAge DEF LadderTick, LadderTypeOK
  <2>5. procAge' \in 0..RebootCounterReset
    BY <1>13 DEF LadderTick, LadderTypeOK
  <2> QED
    BY <1>13, <2>1, <2>2, <2>3, <2>4, <2>5 DEF LadderTick, LadderTypeOK, PhaseInv
<1>14. ASSUME UNCHANGED ladderVars
       PROVE  LadderTypeOK' /\ PhaseInv'
  BY <1>14 DEF ladderVars, memoryVars, diskVars, historyVars, LadderTypeOK, PhaseInv
<1> QED
  BY <1>1, <1>2, <1>3, <1>4, <1>5, <1>6, <1>7, <1>8, <1>9, <1>10, <1>11, <1>12, <1>13, <1>14,
     <1>15
  DEF LadderNext, EscalateStep

-----------------------------------------------------------------------------
(* The rest of the invariant, on a disk that keeps what is written.        *)

\* A write of the ladder file that cannot fail.
LEMMA SaveSaves ==
    ASSUME ~StorageFaults, NEW lv, NEW at, NEW ag, Save(lv, at, ag)
    PROVE  saved'.level = lv /\ saved'.attempts = at /\ saved'.age = ag
  BY DEF Save

\* A write of the counter that cannot tear.
LEMMA CountSurvives ==
    ASSUME ~StorageFaults, NEW n \in CountAfterDeath PROVE n = rebootCount
  BY DEF CountAfterDeath

\* The steps that touch neither the ladder's memory nor its file nor the
\* history of its executions.
Untouched ==
    /\ UNCHANGED <<level, attempts, age, saved, done, lost, lastExec, sinceExec>>
    /\ phase # "counted" /\ phase' # "counted"

\* Taking the lock, waiting and giving up leave levels and budgets alone.
LEMMA LockSteps ==
    ASSUME NEW t,
           \/ Acquire(t) \/ DecideExhausted(t) \/ DecideWait(t) \/ FinishAction(t)
           \/ RebootRefused(t) \/ RebootCounted(t) \/ RebootAccepted(t)
           \/ RebootFailed(t) \/ RebootTimedOut(t) \/ ResetCounter(t)
    PROVE  Untouched /\ UNCHANGED up
  BY DEF Acquire, OnlyLockMoves, DecideExhausted, DecideWait, FinishAction, RebootRefused, RebootCounted,
         RebootAccepted, RebootFailed, RebootTimedOut, ResetCounter, Untouched, Unmoved,
         Release, Holds, Executing, diskVars, historyVars

\* Memory and file move together.
LEMMA FileStep ==
    ASSUME LadderInv, ~StorageFaults, [LadderNext]_ladderVars
    PROVE  FileInv'
<1> USE DEF LadderInv
<1>1. ASSUME Untouched, UNCHANGED up
      PROVE  FileInv'
  BY <1>1 DEF Untouched, FileInv
<1>2. ASSUME NEW t \in Threads, DecideEscalate(t)
      PROVE  FileInv'
  <2>1. saved'.level = level + 1 /\ saved'.attempts = attempts /\ saved'.age = age
    BY <1>2, SaveSaves DEF DecideEscalate
  <2> QED
    BY <1>2, <2>1 DEF DecideEscalate, FileInv
<1>3. ASSUME NEW t \in Threads, DecideExecute(t)
      PROVE  FileInv'
  <2>1. saved'.level = level /\ saved'.attempts = attempts' /\ saved'.age = age'
    BY <1>3, SaveSaves DEF DecideExecute
  <2> QED
    BY <1>3, <2>1 DEF DecideExecute, FileInv
<1>9. ASSUME NEW t \in Threads, BeginAction(t)
      PROVE  FileInv'
  BY <1>9 DEF BeginAction, Unmoved, diskVars, FileInv
<1>4. ASSUME NEW t \in Threads, Reset(t)
      PROVE  FileInv'
  <2>1. saved'.level = 1 /\ saved'.attempts = None /\ saved'.age = Never
    BY <1>4, SaveSaves DEF Reset
  <2> QED
    BY <1>4, <2>1 DEF Reset, FileInv
<1>5. ASSUME NEW t \in Threads, Start(t)
      PROVE  FileInv'
  BY <1>5, LadderShape DEF Start, FileInv, diskVars
<1>6. ASSUME Crash \/ Boot
      PROVE  FileInv'
  BY <1>6, Zenon DEF Crash, Boot, FileInv
<1>7. ASSUME LadderTick
      PROVE  FileInv'
  BY <1>7 DEF LadderTick, FileInv
<1>8. ASSUME UNCHANGED ladderVars
      PROVE  FileInv'
  BY <1>8 DEF ladderVars, memoryVars, diskVars, FileInv
<1> QED
  BY <1>1, <1>2, <1>3, <1>4, <1>5, <1>6, <1>7, <1>8, <1>9, LockSteps
  DEF LadderNext, EscalateStep

\* Executions are counted in the file, and a level is left with a spent budget.
LEMMA BudgetStep ==
    ASSUME LadderInv, ~StorageFaults, [LadderNext]_ladderVars
    PROVE  BudgetInv'
<1> USE LadderShape DEF LadderInv
<1>1. ASSUME UNCHANGED <<saved, done, lost>>,
             (phase # "counted" /\ phase' # "counted") \/ UNCHANGED <<phase, level>>
      PROVE  BudgetInv'
  BY <1>1 DEF BudgetInv, Pending
<1>2. ASSUME NEW t \in Threads, DecideEscalate(t)
      PROVE  BudgetInv'
  <2>1. /\ level \in Idx /\ up
        /\ attempts[level] >= Budget(level)
    BY <1>2 DEF DecideEscalate, Holds, MayAct, IsExhausted, BudgetSpent, Budget, PhaseInv,
                LadderTypeOK, Idx
  <2>2. /\ saved.attempts = attempts
        /\ saved.level = level
    BY <2>1 DEF FileInv, Idx
  <2>3. saved'.level = level + 1 /\ saved'.attempts = attempts
    BY <1>2, SaveSaves DEF DecideEscalate
  <2>4. attempts[level] = Budget(level)
    BY <2>1, <2>2, PolicyOfLevel DEF BudgetInv, LadderTypeOK
  <2>5. ASSUME NEW i \in Idx, i < level + 1
        PROVE  saved'.attempts[i] = Budget(i)
    BY <2>1, <2>2, <2>3, <2>4, <2>5 DEF BudgetInv, Idx
  <2>6. phase = "deciding" /\ phase' = phase /\ UNCHANGED <<done, lost>>
    BY <1>2 DEF DecideEscalate, Holds, historyVars
  <2> QED
    BY <2>2, <2>3, <2>5, <2>6 DEF BudgetInv, Pending
<1>3. ASSUME NEW t \in Threads, DecideExecute(t)
      PROVE  BudgetInv'
  <2>1. /\ level \in Idx /\ up
        /\ ~(attempts[level] >= Budget(level))
    BY <1>3 DEF DecideExecute, Holds, MayAct, IsExhausted, BudgetSpent, Budget, PhaseInv,
                LadderTypeOK, Idx
  <2>2. saved.attempts = attempts /\ saved.level = level
    BY <2>1 DEF FileInv, Idx
  <2>3. saved'.level = level /\ saved'.attempts = attempts'
    BY <1>3, SaveSaves DEF DecideExecute
  <2>4. attempts[level] \in Nat /\ attempts[level] < Budget(level)
    BY <2>1, PolicyOfLevel DEF LadderTypeOK
  <2>5. ASSUME NEW i \in Idx
        PROVE  done'[i] + lost'[i] + Pending(i)' = attempts'[i]
    <3>1. /\ phase = "deciding" /\ phase' = "counted" /\ level' = level
          /\ UNCHANGED <<done, lost>>
      BY <1>3 DEF DecideExecute, Holds, historyVars
    <3>2. done[i] + lost[i] = attempts[i] /\ done[i] \in Nat /\ lost[i] \in Nat
      BY <2>2, <3>1 DEF BudgetInv, Pending, LadderTypeOK
    <3>3. attempts'[i] = IF i = level THEN attempts[i] + 1 ELSE attempts[i]
      BY <1>3, <2>1 DEF DecideExecute, LadderTypeOK
    <3> QED
      BY <3>1, <3>2, <3>3 DEF Pending
  <2>6. ASSUME NEW i \in Idx
        PROVE  /\ attempts'[i] =< Budget(i)
               /\ i < level => attempts'[i] = Budget(i)
    <3>1. Budget(level) \in Nat
      BY <2>1, PolicyOfLevel
    <3>2. /\ attempts[i] =< Budget(i)
          /\ i < level => attempts[i] = Budget(i)
      BY <2>2 DEF BudgetInv
    <3>3. attempts'[i] = IF i = level THEN attempts[level] + 1 ELSE attempts[i]
      BY <1>3, <2>1 DEF DecideExecute, LadderTypeOK
    <3>4. i \in Int /\ level \in Int
      BY <2>1 DEF Idx
    <3> QED
      BY <2>4, <3>1, <3>2, <3>3, <3>4
  <2> QED
    BY <2>3, <2>5, <2>6 DEF BudgetInv
<1>8. ASSUME NEW h \in {done, lost}, NEW g \in {done, lost},
             \A i \in Idx : h[i] + g[i] = done[i] + lost[i], phase = "counted"
      PROVE  \A i \in Idx : OneMore(h)[i] + g[i] = saved.attempts[i]
  <2>1. level \in Idx /\ h \in [Idx -> Nat] /\ g \in [Idx -> Nat]
    BY <1>8 DEF PhaseInv, LadderTypeOK
  <2>2. \A i \in Idx : h[i] + g[i] + Pending(i) = saved.attempts[i]
    BY <1>8 DEF BudgetInv
  <2>3. Budget(level) \in Nat /\ saved.attempts[level] =< Budget(level)
    BY <2>1, PolicyOfLevel DEF BudgetInv
  <2>4. h[level] + g[level] + 1 = saved.attempts[level]
    BY <1>8, <2>1, <2>2 DEF Pending
  <2>5. h[level] =< Budget(level)
    BY <2>1, <2>3, <2>4
  <2>6. /\ OneMore(h)[level] = h[level] + 1
        /\ \A i \in Idx \ {level} : OneMore(h)[i] = h[i]
    BY <2>1, <2>5, OneMoreCounts
  <2> SUFFICES ASSUME NEW i \in Idx PROVE OneMore(h)[i] + g[i] = saved.attempts[i]
    OBVIOUS
  <2>7. CASE i = level
    BY <2>1, <2>4, <2>6, <2>7
  <2>8. CASE i # level
    BY <2>1, <2>2, <2>6, <2>8 DEF Pending
  <2> QED
    BY <2>7, <2>8
<1>9. ASSUME NEW t \in Threads, BeginAction(t)
      PROVE  BudgetInv'
  <2>1. /\ phase = "counted" /\ phase' = "executing" /\ done' = OneMore(done)
        /\ UNCHANGED <<saved, lost>>
    BY <1>9 DEF BeginAction, Holds, diskVars
  <2>2. \A i \in Idx : done'[i] + lost'[i] = saved'.attempts[i]
    BY <2>1, <1>8
  <2>3. \A i \in Idx : done'[i] + lost'[i] \in Int /\ Pending(i)' = 0
    BY <2>1, <2>2, TypeStep DEF Pending, LadderTypeOK
  <2> QED
    BY <2>1, <2>2, <2>3 DEF BudgetInv
<1>10. ASSUME Crash
       PROVE  BudgetInv'
  <2>1. phase' = "free" /\ UNCHANGED <<saved, done>>
    BY <1>10 DEF Crash, MemoryLost
  <2>2. CASE phase = "counted"
    <3>1. lost' = OneMore(lost)
      BY <1>10, <2>2 DEF Crash
    <3>2. \A i \in Idx : lost[i] + done[i] = done[i] + lost[i]
      BY DEF LadderTypeOK
    <3>3. \A i \in Idx : lost'[i] + done'[i] = saved'.attempts[i]
      BY <2>1, <2>2, <3>1, <3>2, <1>8
    <3>4. \A i \in Idx : done'[i] \in Int /\ lost'[i] \in Int /\ Pending(i)' = 0
      BY <2>1, TypeStep DEF Pending, LadderTypeOK
    <3>5. \A i \in Idx : done'[i] + lost'[i] + Pending(i)' = saved'.attempts[i]
      BY <3>3, <3>4
    <3> QED
      BY <2>1, <3>5 DEF BudgetInv
  <2>3. CASE phase # "counted"
    BY <1>10, <1>1, <2>1, <2>3 DEF Crash
  <2> QED
    BY <2>2, <2>3
<1>4. ASSUME NEW t \in Threads, Reset(t)
      PROVE  BudgetInv'
  <2>1. saved'.level = 1 /\ saved'.attempts = None
    BY <1>4, SaveSaves DEF Reset
  <2> QED
    BY <1>4, <2>1, PolicyOfLevel DEF Reset, BudgetInv, Pending, None, Idx
<1>5. ASSUME Boot
      PROVE  BudgetInv'
  <2>1. /\ saved'.level = 1 /\ saved'.attempts = None /\ done' = None /\ lost' = None
        /\ phase' = "free"
    BY <1>5, NoneIsTyped DEF Boot, MemoryLost
  <2> QED
    BY <2>1, PolicyOfLevel DEF BudgetInv, Pending, None, Idx
<1>6. ASSUME LadderTick
      PROVE  BudgetInv'
  BY <1>6 DEF LadderTick, BudgetInv, Pending
<1>7. ASSUME (\E t \in Threads : Start(t)) \/ UNCHANGED ladderVars
      PROVE  BudgetInv'
  BY <1>7, <1>1 DEF Start, PhaseInv, ladderVars, memoryVars, diskVars, historyVars
<1> QED
  BY <1>1, <1>2, <1>3, <1>4, <1>5, <1>6, <1>7, <1>9, <1>10, LockSteps
  DEF LadderNext, EscalateStep, Untouched

\* A reboot is counted before it is commanded and uncounted only if it failed.
LEMMA CounterStep ==
    ASSUME LadderInv, ~StorageFaults, [LadderNext]_ladderVars
    PROVE  CounterInv'
<1> USE PolicyTypes DEF LadderInv
<1>1. ASSUME UNCHANGED <<rebootCount, issued>>,
             phase' = "rebooting" => phase = "rebooting" /\ UNCHANGED reboots
      PROVE  CounterInv'
  BY <1>1 DEF CounterInv
<1>2. ASSUME NEW t \in Threads, RebootCounted(t)
      PROVE  CounterInv'
  BY <1>2 DEF RebootCounted, CounterInv, LadderTypeOK, historyVars
<1>3. ASSUME NEW t \in Threads, RebootAccepted(t)
      PROVE  CounterInv'
  BY <1>3 DEF RebootAccepted, Holds, Release, CountTo, CounterInv, LadderTypeOK
<1>4. ASSUME NEW t \in Threads, RebootFailed(t)
      PROVE  CounterInv'
  BY <1>4 DEF RebootFailed, Holds, Release, CounterInv, LadderTypeOK, historyVars
<1>5. ASSUME NEW t \in Threads, ResetCounter(t)
      PROVE  CounterInv'
  BY <1>5 DEF ResetCounter, Release, CounterInv, LadderTypeOK
<1>6. ASSUME Crash \/ Boot
      PROVE  CounterInv'
  <2>1. phase' = "free" /\ UNCHANGED <<rebootCount, issued>>
    BY <1>6, CountSurvives DEF Crash, Boot, MemoryLost
  <2> QED
    BY <2>1, <1>1
<1>7. ASSUME NEW t \in Threads,
             \/ Acquire(t) \/ DecideExhausted(t) \/ DecideWait(t) \/ DecideEscalate(t)
             \/ DecideExecute(t) \/ BeginAction(t) \/ FinishAction(t) \/ RebootRefused(t)
             \/ RebootTimedOut(t)
             \/ Reset(t) \/ Start(t)
      PROVE  CounterInv'
  <2>1. /\ UNCHANGED <<rebootCount, issued>>
        /\ phase' = "rebooting" => phase = "rebooting" /\ UNCHANGED reboots
    BY <1>7 DEF Acquire, OnlyLockMoves, DecideExhausted, DecideWait, DecideEscalate, DecideExecute,
                BeginAction, FinishAction, RebootRefused, RebootTimedOut, Reset, Start, Release,
                diskVars, historyVars
  <2> QED
    BY <2>1, <1>1
<1>8. ASSUME LadderTick \/ UNCHANGED ladderVars
      PROVE  CounterInv'
  BY <1>8, <1>1 DEF LadderTick, ladderVars, memoryVars, diskVars, historyVars
<1> QED
  BY <1>2, <1>3, <1>4, <1>5, <1>6, <1>7, <1>8 DEF LadderNext, EscalateStep

\* Whoever executes a level finds the cooldown of the last execution over.
LEMMA ExecuteAfterCooldown ==
    ASSUME LadderInv, ~StorageFaults, NEW t \in Threads,
           Holds(t, "deciding"), MayAct, lastExec # 0
    PROVE  /\ sinceExec >= Cooldown[ActionOf(lastExec)]
           /\ saved.level = level /\ level \in Idx
<1> USE LadderShape DEF LadderInv
<1>1. /\ level \in Idx /\ up /\ ~(age[level] < Cooldown[ActionOf(level)])
    BY DEF Holds, MayAct, IsExhausted, InCooldown, PhaseInv, LadderTypeOK, Idx
<1>2. saved.level = level /\ saved.age = age
  BY <1>1 DEF FileInv, Idx
<1>3. lastExec \in Idx
  BY DEF LadderTypeOK, Idx
<1>4. CASE lastExec = level
  <2>1. age[level] =< sinceExec
    BY <1>2, <1>4 DEF CooldownInv
  <2>2. age[level] \in Nat /\ sinceExec \in Nat /\ Cooldown[ActionOf(level)] \in Nat
    BY <1>1, PolicyOfLevel, PolicyTypes DEF LadderTypeOK
  <2> QED
    BY <1>1, <1>2, <1>4, <2>1, <2>2
<1>5. CASE lastExec # level
  BY <1>1, <1>2, <1>3, <1>5 DEF CooldownInv, Idx
<1> QED
  BY <1>4, <1>5

\* The stamp on file is never older than the last action, and the ladder has
\* moved past the level of that action only after its cooldown.
LEMMA CooldownStep ==
    ASSUME LadderInv, ~StorageFaults, [LadderNext]_ladderVars
    PROVE  CooldownInv'
<1> USE LadderShape DEF LadderInv
<1>1. ASSUME UNCHANGED <<saved, lastExec, sinceExec>>,
             phase' = "counted" => UNCHANGED <<phase, level>>
      PROVE  CooldownInv'
  BY <1>1 DEF CooldownInv
<1>2. ASSUME NEW t \in Threads, DecideEscalate(t)
      PROVE  CooldownInv'
  <2>1. saved'.level = level + 1 /\ saved'.age = age
    BY <1>2, SaveSaves DEF DecideEscalate
  <2>2. up /\ saved.age = age
    BY <1>2 DEF DecideEscalate, Holds, PhaseInv, FileInv
  <2>3. UNCHANGED <<lastExec, sinceExec>> /\ phase' # "counted"
    BY <1>2 DEF DecideEscalate, Holds, historyVars
  <2>4. ASSUME lastExec # 0
        PROVE  /\ lastExec =< level + 1
               /\ age[lastExec] =< sinceExec
               /\ sinceExec >= Cooldown[ActionOf(lastExec)]
    <3>1. /\ sinceExec >= Cooldown[ActionOf(lastExec)]
          /\ saved.level = level /\ level \in Idx
      BY <1>2, <2>4, ExecuteAfterCooldown DEF DecideEscalate
    <3> QED
      BY <2>2, <2>4, <3>1 DEF CooldownInv, LadderTypeOK, Idx
  <2> QED
    BY <2>1, <2>3, <2>4 DEF CooldownInv
<1>3. ASSUME NEW t \in Threads, DecideExecute(t)
      PROVE  CooldownInv'
  <2>1. level \in Idx
    BY <1>3 DEF DecideExecute, MayAct, IsExhausted, LadderTypeOK, Idx
  <2>2. saved'.level = level /\ saved'.age = age'
    BY <1>3, SaveSaves DEF DecideExecute
  <2>3. /\ age' = [age EXCEPT ![level] = 0] /\ age \in [Idx -> 0..AgeCap]
        /\ UNCHANGED <<level, lastExec, sinceExec>>
    BY <1>3 DEF DecideExecute, LadderTypeOK, historyVars
  <2>4. saved'.age[level'] = 0
    BY <2>1, <2>2, <2>3
  <2>5. ASSUME lastExec # 0
        PROVE  /\ lastExec =< level
               /\ age'[lastExec] =< sinceExec
               /\ sinceExec >= Cooldown[ActionOf(lastExec)]
    <3>1. /\ sinceExec >= Cooldown[ActionOf(lastExec)]
          /\ saved.level = level
      BY <1>3, <2>5, ExecuteAfterCooldown DEF DecideExecute
    <3>2. lastExec =< level /\ saved.age[lastExec] =< sinceExec
      BY <2>5, <3>1 DEF CooldownInv
    <3>3. saved.age = age
      BY <1>3 DEF DecideExecute, Holds, PhaseInv, FileInv
    <3>4. lastExec \in Idx /\ sinceExec \in Nat
      BY <2>5, PolicyTypes DEF LadderTypeOK, Idx
    <3>5. age'[lastExec] =< sinceExec
      BY <2>1, <2>3, <3>2, <3>3, <3>4
    <3> QED
      BY <3>1, <3>2, <3>5
  <2> QED
    BY <2>2, <2>3, <2>4, <2>5 DEF CooldownInv
<1>7. ASSUME NEW t \in Threads, BeginAction(t)
      PROVE  CooldownInv'
  <2>1. /\ phase = "counted" /\ phase' # "counted" /\ lastExec' = level /\ sinceExec' = 0
        /\ UNCHANGED saved
    BY <1>7 DEF BeginAction, Holds, diskVars
  <2>2. level \in Idx /\ up
    BY <2>1 DEF PhaseInv
  <2>3. saved.level = level /\ saved.age[level] = 0
    BY <2>1, <2>2 DEF FileInv, CooldownInv, Idx
  <2> QED
    BY <2>1, <2>2, <2>3 DEF CooldownInv, Idx
<1>4. ASSUME (\E t \in Threads : Reset(t)) \/ Boot
      PROVE  CooldownInv'
  BY <1>4 DEF Reset, Boot, MemoryLost, CooldownInv
<1>5. ASSUME LadderTick
      PROVE  CooldownInv'
  <2>0. phase # "counted" /\ phase' = phase
    BY <1>5 DEF LadderTick
  <2> SUFFICES ASSUME lastExec' # 0 PROVE CooldownInv'
    BY <2>0 DEF CooldownInv
  <2>1. /\ lastExec' = lastExec /\ lastExec \in Idx
        /\ sinceExec' = Older(sinceExec)
        /\ saved'.level = saved.level
        /\ saved'.age = [i \in Idx |-> Older(saved.age[i])]
    BY <1>5 DEF LadderTick, LadderTypeOK, Idx
  <2>2. saved'.age[lastExec] =< Older(sinceExec)
    <3>1. saved.age[lastExec] =< sinceExec
      BY <2>1 DEF CooldownInv
    <3>2. saved.age[lastExec] \in 0..AgeCap /\ sinceExec \in 0..AgeCap
      BY <2>1 DEF LadderTypeOK, SavedState
    <3> QED
      BY <2>1, <3>1, <3>2, OlderKeepsOrder
  <2>3. sinceExec \in Int /\ sinceExec' \in Int /\ sinceExec' >= sinceExec
    BY <2>1, OlderIsAge, PolicyTypes DEF LadderTypeOK
  <2>4. Cooldown[ActionOf(lastExec)] \in Int
    BY <2>1, PolicyOfLevel
  <2> QED
    BY <2>0, <2>1, <2>2, <2>3, <2>4 DEF CooldownInv
<1>6. ASSUME (\E t \in Threads : Start(t)) \/ Crash \/ UNCHANGED ladderVars
      PROVE  CooldownInv'
  BY <1>6, <1>1
  DEF Start, Crash, MemoryLost, PhaseInv, ladderVars, memoryVars, diskVars, historyVars
<1> QED
  BY <1>1, <1>2, <1>3, <1>4, <1>5, <1>6, <1>7, LockSteps DEF LadderNext, EscalateStep, Untouched

-----------------------------------------------------------------------------
(* The theorems.                                                           *)

\* The inductive invariant of the ladder.
THEOREM LadderInvariant == LadderSpec => []LadderInv
<1>1. LadderInv /\ [LadderNext]_ladderVars => LadderInv'
  <2> SUFFICES ASSUME LadderInv, [LadderNext]_ladderVars PROVE LadderInv'
    OBVIOUS
  <2>1. LadderTypeOK' /\ PhaseInv'
    BY TypeStep DEF LadderInv
  <2>2. ASSUME ~StorageFaults
        PROVE  FileInv' /\ BudgetInv' /\ CounterInv' /\ CooldownInv'
    BY <2>2, FileStep, BudgetStep, CounterStep, CooldownStep
  <2> QED
    BY <2>1, <2>2 DEF LadderInv
<1> QED
  BY <1>1, InitLadderInv, PTL DEF LadderSpec

\* Type correctness of the ladder, whatever the disk does.
THEOREM LadderTypeCorrect == LadderSpec => []LadderTypeOK
<1>1. LadderInv => LadderTypeOK
  BY DEF LadderInv
<1> QED
  BY <1>1, LadderInvariant, PTL

\* No level is executed more often than its budget between two resets, however
\* often the process dies (recovery_ladder.py saves before it executes).
THEOREM BudgetsHold == LadderSpec => []BudgetsSurviveCrashes
<1>1. LadderInv => BudgetsSurviveCrashes
  <2> SUFFICES ASSUME LadderInv, ~StorageFaults, NEW i \in Idx PROVE done[i] =< Budget(i)
    BY DEF BudgetsSurviveCrashes
  <2>1. /\ done[i] + lost[i] + Pending(i) = saved.attempts[i]
        /\ saved.attempts[i] =< Budget(i)
    BY DEF LadderInv, BudgetInv
  <2>2. done[i] \in Nat /\ lost[i] \in Nat /\ Pending(i) \in Nat /\ Budget(i) \in Nat
    BY PolicyOfLevel DEF LadderInv, LadderTypeOK, Pending
  <2> QED
    BY <2>1, <2>2
<1> QED
  BY <1>1, LadderInvariant, PTL

\* A reboot is commanded only after every other level has spent its budget, on
\* actions that were started or on attempts that died with their process.
THEOREM LastResort == LadderSpec => []RebootIsLastResort
<1>1. LadderInv => RebootIsLastResort
  <2> SUFFICES ASSUME LadderInv, ~StorageFaults, phase = "rebooting",
                      NEW i \in 1..(N - 1)
               PROVE  done[i] + lost[i] = Budget(i)
    BY DEF RebootIsLastResort
  <2>1. level = N /\ up
    BY LadderShape DEF LadderInv, PhaseInv
  <2>2. saved.level = N
    BY <2>1, LadderShape DEF LadderInv, FileInv
  <2>3. i \in Idx /\ saved.attempts[i] = Budget(i)
    BY <2>2, LadderShape DEF LadderInv, BudgetInv, Idx
  <2>4. done[i] \in Nat /\ lost[i] \in Nat /\ Pending(i) = 0
    BY <2>3 DEF LadderInv, LadderTypeOK, Pending
  <2>5. done[i] + lost[i] + Pending(i) = saved.attempts[i]
    BY <2>3 DEF LadderInv, BudgetInv
  <2> QED
    BY <2>3, <2>4, <2>5
<1> QED
  BY <1>1, LadderInvariant, PTL

\* The circuit breaker: at most MaxFdirReboots reboots between two clearings of
\* the counter, whatever dies in between.
THEOREM BreakerHolds == LadderSpec => []RebootsBounded
<1>1. LadderInv => RebootsBounded
  BY PolicyTypes DEF LadderInv, CounterInv, LadderTypeOK, RebootsBounded
<1> QED
  BY <1>1, LadderInvariant, PTL

\* Only the start of an action changes the count of actions, unless the history
\* is cleared.
LEMMA OnlyBeginCounts ==
    ASSUME [LadderNext]_ladderVars, done' # done, lastExec' # 0
    PROVE  \E t \in Threads : BeginAction(t)
<1>1. ASSUME NEW t \in Threads, DecideEscalate(t) \/ DecideExecute(t) \/ Start(t)
      PROVE  done' = done
  BY <1>1 DEF DecideEscalate, DecideExecute, Start, historyVars
<1>2. ASSUME NEW t \in Threads, Reset(t) PROVE lastExec' = 0
  BY <1>2 DEF Reset
<1>3. ASSUME Crash \/ LadderTick \/ UNCHANGED ladderVars PROVE done' = done
  BY <1>3 DEF Crash, LadderTick, ladderVars, historyVars
<1>4. ASSUME Boot PROVE lastExec' = 0
  BY <1>4 DEF Boot
<1> QED
  BY <1>1, <1>2, <1>3, <1>4, LockSteps DEF LadderNext, EscalateStep, Untouched

\* The cooldown of an executed level is kept by the next execution, of whatever
\* level and in whatever process.
THEOREM CooldownHolds == LadderSpec => CooldownKept
<1>1. LadderInv /\ [LadderNext]_ladderVars =>
        [~StorageFaults /\ done' # done /\ lastExec' # 0 /\ lastExec # 0 =>
             sinceExec >= Cooldown[ActionOf(lastExec)]]_ladderVars
  <2> SUFFICES ASSUME LadderInv, [LadderNext]_ladderVars, ~StorageFaults,
                      done' # done, lastExec' # 0, lastExec # 0
               PROVE  sinceExec >= Cooldown[ActionOf(lastExec)]
    OBVIOUS
  <2>1. PICK t \in Threads : BeginAction(t)
    BY OnlyBeginCounts
  <2> QED
    BY <2>1 DEF BeginAction, Holds, LadderInv, CooldownInv
<1> QED
  BY <1>1, LadderInvariant, PTL DEF LadderSpec, CooldownKept

-----------------------------------------------------------------------------
(* The node implements the ladder.  No invariant is needed: every action   *)
(* either leaves the ladder alone or is one of its operations.             *)

\* The steps of a thread that touch neither the ladder nor the gate.
CalmStep(t) ==
    \/ PollHealthy(t) \/ PollStale(t) \/ PollError(t) \/ RetryProbe(t)
    \/ SnapshotStale(t) \/ TryGate(t) \/ ClaimWindow(t)
    \/ PromoteMode(t) \/ ForceMode(t) \/ ForceReset(t)
    \/ ThermalPoll(t) \/ ThermalAct(t) \/ ListenerStep(t)

\* The steps of the environment.
WorldStep == FaultArises \/ FaultClears \/ StreamStarts \/ TempRises \/ TempFalls

\* A thread outside the ladder leaves the ladder and the gate as they are, and
\* stays outside.
LEMMA CalmIsCalm ==
    ASSUME wd \in [Threads -> Steps], NEW t \in Threads, CalmStep(t)
    PROVE  /\ LadderKept /\ GateKept
           /\ \/ wd' = wd
              \/ /\ wd[t] \notin InsideLadder
                 /\ \E s \in Steps \ InsideLadder : MoveTo(t, s)
<1> USE DEF OthersKept, Ready, Signal, Steps, InsideLadder
<1>1. CASE PollHealthy(t)
  BY <1>1 DEF PollHealthy
<1>2. CASE PollStale(t)
  BY <1>2 DEF PollStale
<1>3. CASE PollError(t)
  BY <1>3 DEF PollError
<1>4. CASE RetryProbe(t)
  BY <1>4 DEF RetryProbe
<1>5. CASE SnapshotStale(t)
  BY <1>5 DEF SnapshotStale
<1>6. CASE TryGate(t)
  BY <1>6 DEF TryGate
<1>7. CASE ClaimWindow(t)
  BY <1>7 DEF ClaimWindow
<1>8. CASE PromoteMode(t) \/ ForceReset(t) \/ ForceMode(t)
  BY <1>8 DEF PromoteMode, ForceReset, ForceMode
<1>9. CASE ThermalPoll(t) \/ ThermalAct(t) \/ ListenerStep(t)
  BY <1>9 DEF ThermalPoll, ThermalAct, ListenerStep
<1> QED
  BY <1>1, <1>2, <1>3, <1>4, <1>5, <1>6, <1>7, <1>8, <1>9 DEF CalmStep

\* The environment touches neither.
LEMMA WorldIsCalm ==
    ASSUME WorldStep PROVE LadderKept /\ GateKept /\ wd' = wd
  BY DEF WorldStep, FaultArises, FaultClears, StreamStarts, TempRises, TempFalls, OthersKept, watchVars

\* A step under the ladder's lock is one operation of the ladder, whatever the
\* thread does to the mode, the gate and the encoder on the way.
LEMMA PathIsLadder ==
    ASSUME NEW t \in Threads,
           EscalatePath(t) \/ ResetLadder(t) \/ ResetDone(t),
           ~CalmStep(t)
    PROVE  LadderNext \/ LadderKept
<1>1. ASSUME EscalateStep(t) \/ Reset(t) \/ ResetCounter(t)
      PROVE  LadderNext
  BY <1>1 DEF LadderNext
<1>2. CASE \/ EnterLadder(t) \/ LadderWaits(t) \/ LadderIsExhausted(t) \/ LadderExecutes(t)
           \/ BeginRun(t)
  BY <1>1, <1>2 DEF EnterLadder, LadderWaits, LadderIsExhausted, LadderExecutes, BeginRun,
                    LadderOnly, EscalateStep
<1>3. CASE LadderEscalates(t)
  BY <1>1, <1>3 DEF LadderEscalates, EscalateStep
<1>4. CASE FinishRun(t) \/ FinishFailed(t)
  BY <1>1, <1>4 DEF FinishRun, FinishFailed, EscalateStep
<1>5. CASE RebootIsRefused(t) \/ CountReboot(t) \/ RebootEnds(t)
  BY <1>1, <1>5 DEF RebootIsRefused, CountReboot, RebootEnds, LadderOnly, EscalateStep
<1>6. CASE LadderToSafe(t) \/ RebootToSafe(t) \/ ArmGate(t) \/ CutStream(t)
  BY <1>6 DEF LadderToSafe, RebootToSafe, ArmGate, CutStream
<1>7. CASE ResetLadder(t) \/ ResetDone(t)
  BY <1>1, <1>7 DEF ResetLadder, ResetDone, LadderOnly
<1> QED
  BY <1>2, <1>3, <1>4, <1>5, <1>6, <1>7 DEF EscalatePath, CalmStep

\* Every step of the node is a step of the ladder or leaves it alone.
LEMMA NodeStepIsLadderStep ==
    ASSUME wd \in [Threads -> Steps], [FdirNext]_fdirVars
    PROVE  [LadderNext]_ladderVars
<1> USE DEF LadderKept
<1>1. ASSUME NEW t \in Threads, ThreadStep(t) \/ ForceMode(t) \/ ForceReset(t)
      PROVE  [LadderNext]_ladderVars
  <2>1. \/ CalmStep(t)
        \/ ~CalmStep(t) /\ (EscalatePath(t) \/ ResetLadder(t) \/ ResetDone(t))
    BY <1>1 DEF ThreadStep, CalmStep
  <2> QED
    BY <2>1, CalmIsCalm, PathIsLadder
<1>2. ASSUME NEW t \in Threads, ProcessStart(t)
      PROVE  [LadderNext]_ladderVars
  BY <1>2 DEF ProcessStart, LadderNext
<1>3. CASE WorldStep
  BY <1>3, WorldIsCalm
<1>4. CASE ProcessCrash \/ NodeBoot \/ Tick
  BY <1>4 DEF ProcessCrash, NodeBoot, Tick, LadderNext
<1>5. CASE UNCHANGED fdirVars
  BY <1>5 DEF fdirVars
<1> QED
  BY <1>1, <1>2, <1>3, <1>4, <1>5 DEF FdirNext, WorldStep

-----------------------------------------------------------------------------
(* The inductive invariant of the node.                                    *)

\* Where a thread is, and where the ladder says it is.
ThreadInv(t) ==
    /\ holder = t <=> wd[t] \in InsideLadder
    /\ wd[t] \in {"ladder", "safe"} => phase = "deciding"
    /\ wd[t] = "begin" => phase = "counted"
    /\ wd[t] \in {"arm", "cut", "failed"} =>
           phase = "executing" /\ ActionOf(level) \in Restarts
    /\ wd[t] = "run" => phase \in {"executing", "rebooting"}
    /\ wd[t] = "refuse" => phase = "executing"
    /\ wd[t] = "resetting" => phase = "resetting"

\* A thread inside the gate is running a restart, and the gate hides no more
\* than that restart disturbs.
InsideInv ==
    \A t \in inside :
        /\ wd[t] \in {"cut", "run", "failed"}
        /\ phase = "executing" /\ ActionOf(level) \in Restarts
        /\ quiet \subseteq QuietDomains(ActionOf(level))

NodeInv ==
    /\ LadderTypeOK /\ PhaseInv /\ QuiesceInv
    /\ wd \in [Threads -> Steps]
    /\ \A t \in Threads : ThreadInv(t)
    /\ InsideInv

-----------------------------------------------------------------------------
(* The gate.                                                               *)

\* What the executor asks of the gate is what the gate's module offers.
LEMMA RestartArms ==
    ASSUME NEW a \in Restarts
    PROVE  RestartTtl(a) \in Ttls /\ QuietDomains(a) \in SUBSET Domains
  BY TtlsOfExecutor, DomainNames DEF Restarts, QuietDomains

\* A step under the ladder's lock arms the gate once, leaves it, or keeps it.
LEMMA PathIsGateStep ==
    ASSUME NodeInv, NEW t \in Threads,
           EscalatePath(t) \/ ResetLadder(t) \/ ResetDone(t),
           ~CalmStep(t)
    PROVE  QuiesceNext \/ GateKept
<1>1. CASE ArmGate(t)
  <2>1. ActionOf(level) \in Restarts
    BY <1>1 DEF ArmGate, Ready, NodeInv, ThreadInv
  <2> QED
    BY <1>1, <2>1, RestartArms DEF ArmGate, QuiesceNext
<1>2. CASE FinishRun(t) \/ FinishFailed(t)
  BY <1>2 DEF FinishRun, FinishFailed, QuiesceNext
<1>3. CASE \/ EnterLadder(t) \/ LadderWaits(t) \/ LadderIsExhausted(t) \/ LadderExecutes(t)
           \/ BeginRun(t) \/ RebootIsRefused(t) \/ CountReboot(t) \/ ResetLadder(t) \/ ResetDone(t)
  BY <1>3 DEF EnterLadder, LadderWaits, LadderIsExhausted, LadderExecutes, BeginRun, LadderOnly,
              RebootIsRefused, CountReboot, ResetLadder, ResetDone
<1>4. CASE \/ LadderEscalates(t) \/ LadderToSafe(t) \/ RebootToSafe(t) \/ CutStream(t)
           \/ RebootEnds(t)
  BY <1>4 DEF LadderEscalates, LadderToSafe, RebootToSafe, CutStream, RebootEnds
<1> QED
  BY <1>1, <1>2, <1>3, <1>4 DEF EscalatePath, CalmStep

\* Every step of the node is a step of the gate or leaves it alone.
LEMMA NodeStepIsGateStep ==
    ASSUME NodeInv, [FdirNext]_fdirVars
    PROVE  [QuiesceNext]_quiesceVars
<1> USE DEF GateKept
<1>1. ASSUME NEW t \in Threads, ThreadStep(t) \/ ForceMode(t) \/ ForceReset(t)
      PROVE  [QuiesceNext]_quiesceVars
  <2>1. \/ CalmStep(t)
        \/ ~CalmStep(t) /\ (EscalatePath(t) \/ ResetLadder(t) \/ ResetDone(t))
    BY <1>1 DEF ThreadStep, CalmStep
  <2> QED
    BY <2>1, CalmIsCalm, PathIsGateStep DEF NodeInv
<1>2. ASSUME NEW t \in Threads, ProcessStart(t)
      PROVE  [QuiesceNext]_quiesceVars
  BY <1>2 DEF ProcessStart
<1>3. CASE WorldStep
  BY <1>3, WorldIsCalm
<1>4. CASE ProcessCrash \/ NodeBoot \/ Tick
  BY <1>4 DEF ProcessCrash, NodeBoot, Tick, QuiesceNext
<1>5. CASE UNCHANGED fdirVars
  BY <1>5 DEF fdirVars
<1> QED
  BY <1>1, <1>2, <1>3, <1>4, <1>5 DEF FdirNext, WorldStep

-----------------------------------------------------------------------------
(* The threads.                                                            *)

\* Whoever takes or holds the lock is alone under it.
LEMMA OthersOutside ==
    ASSUME NodeInv, NEW t \in Threads, holder = t \/ phase = "free",
           NEW u \in Threads \ {t}
    PROVE  wd[u] \notin InsideLadder
  BY DEF NodeInv, ThreadInv, InsideLadder

\* Then its step disturbs no other thread.
LEMMA OnlyItMoves ==
    ASSUME NodeInv, NEW t \in Threads, holder = t \/ phase = "free",
           NEW s \in Steps, MoveTo(t, s),
           holder' \in {t, NoThread}, ThreadInv(t)'
    PROVE  wd' \in [Threads -> Steps] /\ \A u \in Threads : ThreadInv(u)'
<1>1. wd' \in [Threads -> Steps]
  BY DEF NodeInv, MoveTo
<1>2. ASSUME NEW u \in Threads \ {t} PROVE ThreadInv(u)'
  <2>1. wd'[u] = wd[u] /\ wd[u] \notin InsideLadder
    BY OthersOutside DEF NodeInv, MoveTo
  <2>2. holder' # u
    BY NoThreadIsNone
  <2> QED
    BY <2>1, <2>2 DEF ThreadInv, InsideLadder
<1> QED
  BY <1>1, <1>2

\* Nobody is inside the gate but the thread that runs the action.
LEMMA InsideIsHolder ==
    ASSUME NodeInv, NEW u \in inside
    PROVE  u \in Threads /\ holder = u /\ phase = "executing" /\ ActionOf(level) \in Restarts
  BY DEF NodeInv, InsideInv, ThreadInv, InsideLadder, QuiesceInv, QuiesceTypeOK

\* Leaving the ladder: the lock is released and the gate is empty.
LEMMA LeavingKeeps ==
    ASSUME NodeInv, NEW t \in Threads, holder = t,
           NEW s \in Steps \ InsideLadder, MoveTo(t, s), holder' = NoThread, inside' = {}
    PROVE  wd' \in [Threads -> Steps] /\ (\A u \in Threads : ThreadInv(u)') /\ InsideInv'
<1>1. ThreadInv(t)'
  BY NoThreadIsNone DEF ThreadInv, InsideLadder, MoveTo, NodeInv
<1>2. InsideInv'
  BY DEF InsideInv
<1> QED
  BY <1>1, <1>2, OnlyItMoves

\* What each step under the lock does to the threads.
LEMMA PathKeepsThreads ==
    ASSUME NodeInv, NEW t \in Threads,
           EscalatePath(t) \/ ResetLadder(t) \/ ResetDone(t),
           ~CalmStep(t)
    PROVE  wd' \in [Threads -> Steps] /\ (\A u \in Threads : ThreadInv(u)') /\ InsideInv'
<1>t. wd \in [Threads -> Steps]
  BY DEF NodeInv
<1>i. ASSUME phase # "executing" \/ ActionOf(level) = "reboot_node" PROVE inside = {}
  BY <1>i, InsideIsHolder DEF Restarts
<1>n. ASSUME inside' = {} PROVE InsideInv'
  BY <1>n DEF InsideInv
<1> USE DEF Ready, LadderOnly, GateKept, LadderKept, quiesceVars, ladderVars, memoryVars
<1>1. CASE EnterLadder(t)
  <2>1. /\ phase = "free" /\ phase' = "deciding" /\ holder' = t /\ inside' = inside
        /\ MoveTo(t, "ladder")
    BY <1>1 DEF EnterLadder, Acquire
  <2>2. ThreadInv(t)' /\ "ladder" \in Steps
    BY <1>t, <2>1 DEF ThreadInv, InsideLadder, Restarts, MoveTo, Steps
  <2> QED
    BY <2>1, <2>2, <1>i, <1>n, OnlyItMoves
<1>2. CASE LadderWaits(t) \/ LadderIsExhausted(t)
  <2>1. /\ holder = t /\ phase = "deciding" /\ holder' = NoThread /\ inside' = inside
        /\ MoveTo(t, "sleep")
    BY <1>2 DEF LadderWaits, LadderIsExhausted, DecideWait, DecideExhausted, Holds, Release
  <2> QED
    BY <2>1, <1>i, LeavingKeeps DEF Steps, InsideLadder
<1>3. CASE LadderToSafe(t)
  <2>1. /\ holder = t /\ phase = "deciding" /\ holder' = t /\ phase' = phase
        /\ inside' = inside /\ MoveTo(t, "safe")
    BY <1>3 DEF LadderToSafe, Holds
  <2>2. ThreadInv(t)' /\ "safe" \in Steps
    BY <1>t, <2>1 DEF ThreadInv, InsideLadder, MoveTo, Steps
  <2> QED
    BY <2>1, <2>2, <1>i, <1>n, OnlyItMoves
<1>4. CASE LadderEscalates(t)
  <2>1. /\ holder = t /\ phase = "deciding" /\ holder' = t /\ phase' = phase
        /\ inside' = inside /\ wd' = wd /\ wd[t] = "ladder"
    BY <1>4 DEF LadderEscalates, DecideEscalate, Holds
  <2>2. MoveTo(t, "ladder") /\ ThreadInv(t)' /\ "ladder" \in Steps
    BY <1>t, <2>1 DEF ThreadInv, InsideLadder, MoveTo, Steps
  <2> QED
    BY <2>1, <2>2, <1>i, <1>n, OnlyItMoves
<1>5. CASE LadderExecutes(t)
  <2>1. /\ holder = t /\ phase = "deciding" /\ holder' = t /\ phase' = "counted"
        /\ inside' = inside /\ MoveTo(t, "begin")
    BY <1>5 DEF LadderExecutes, DecideExecute, Holds
  <2>2. ThreadInv(t)' /\ "begin" \in Steps
    BY <1>t, <2>1 DEF ThreadInv, InsideLadder, MoveTo, Steps
  <2> QED
    BY <2>1, <2>2, <1>i, <1>n, OnlyItMoves
<1>15. CASE BeginRun(t)
  <2>1. /\ holder = t /\ phase = "counted" /\ holder' = t /\ phase' = "executing"
        /\ level' = level /\ inside' = inside
        /\ MoveTo(t, IF ActionOf(level) \in Restarts THEN "arm" ELSE "run")
    BY <1>15 DEF BeginRun, BeginAction, Holds
  <2>2. ThreadInv(t)'
    BY <1>t, <2>1 DEF ThreadInv, InsideLadder, MoveTo, ActionOf
  <2> QED
    BY <2>1, <2>2, <1>i, <1>n, OnlyItMoves DEF Steps
<1>6. CASE ArmGate(t)
  <2>1. /\ holder = t /\ phase = "executing" /\ ActionOf(level) \in Restarts /\ wd[t] = "arm"
    BY <1>6 DEF ArmGate, NodeInv, ThreadInv, InsideLadder
  <2>2. UNCHANGED <<holder, phase, level>> /\ MoveTo(t, "cut")
    BY <1>6 DEF ArmGate
  <2>3. ThreadInv(t)'
    BY <1>t, <2>1, <2>2 DEF ThreadInv, InsideLadder, MoveTo, ActionOf
  <2>4. inside = {}
    BY <2>1, InsideIsHolder DEF NodeInv, InsideInv
  <2>5. inside' = {t} /\ quiet' \subseteq QuietDomains(ActionOf(level))
    <3>1. arms = 0
      BY <2>4, FS_EmptySet DEF NodeInv, QuiesceInv, GateFollowsHolders
    <3> QED
      BY <1>6, <2>4, <3>1 DEF ArmGate, Quiesce
  <2>6. InsideInv'
    BY <1>t, <2>1, <2>2, <2>5 DEF InsideInv, MoveTo, ActionOf, QuietDomains
  <2> QED
    BY <2>1, <2>2, <2>3, <2>6, OnlyItMoves DEF Steps
<1>7. CASE CutStream(t)
  <2>1. /\ holder = t /\ phase = "executing" /\ ActionOf(level) \in Restarts
    BY <1>7 DEF CutStream, NodeInv, ThreadInv, InsideLadder
  <2>2. UNCHANGED <<holder, phase, level, inside, quiet>>
    BY <1>7 DEF CutStream
  <2>3. PICK s \in {"run", "failed"} : MoveTo(t, s)
    BY <1>7 DEF CutStream
  <2>4. ThreadInv(t)'
    BY <1>t, <2>1, <2>2, <2>3 DEF ThreadInv, InsideLadder, MoveTo, ActionOf
  <2>5. InsideInv'
    BY <1>t, <2>2, <2>3 DEF NodeInv, InsideInv, MoveTo, ActionOf, QuietDomains
  <2> QED
    BY <2>1, <2>2, <2>3, <2>4, <2>5, OnlyItMoves DEF Steps
<1>8. CASE FinishRun(t) \/ FinishFailed(t)
  <2>1. holder = t /\ holder' = NoThread /\ MoveTo(t, "sleep")
    BY <1>8 DEF FinishRun, FinishFailed, FinishAction, Executing, Holds, Release
  <2>2. inside \subseteq {t}
    BY <2>1, InsideIsHolder
  <2>3. inside' = {}
    BY <1>8, <2>2 DEF FinishRun, FinishFailed, Unquiesce
  <2> QED
    BY <2>1, <2>3, LeavingKeeps DEF Steps, InsideLadder
<1>9. CASE RebootToSafe(t)
  <2>1. /\ holder = t /\ phase = "executing" /\ ActionOf(level) = "reboot_node"
        /\ holder' = t /\ phase' = phase /\ inside' = inside /\ MoveTo(t, "refuse")
    BY <1>9 DEF RebootToSafe, Executing, Holds
  <2>2. ThreadInv(t)' /\ "refuse" \in Steps
    BY <1>t, <2>1 DEF ThreadInv, InsideLadder, MoveTo, Steps
  <2> QED
    BY <2>1, <2>2, <1>i, <1>n, OnlyItMoves
<1>10. CASE RebootIsRefused(t)
  <2>1. /\ holder = t /\ ActionOf(level) = "reboot_node" /\ holder' = NoThread
        /\ inside' = inside /\ MoveTo(t, "sleep")
    BY <1>10 DEF RebootIsRefused, RebootRefused, Executing, Holds, Release
  <2> QED
    BY <2>1, <1>i, LeavingKeeps DEF Steps, InsideLadder
<1>11. CASE CountReboot(t)
  <2>1. /\ holder = t /\ ActionOf(level) = "reboot_node" /\ holder' = t
        /\ phase' = "rebooting" /\ inside' = inside /\ MoveTo(t, "run")
    BY <1>11 DEF CountReboot, RebootCounted, Executing, Holds
  <2>2. ThreadInv(t)' /\ "run" \in Steps
    BY <1>t, <2>1 DEF ThreadInv, InsideLadder, MoveTo, Steps
  <2> QED
    BY <2>1, <2>2, <1>i, <1>n, OnlyItMoves
<1>12. CASE RebootEnds(t)
  <2>1. /\ holder = t /\ phase = "rebooting" /\ holder' = NoThread
        /\ inside' = inside /\ MoveTo(t, "sleep")
    BY <1>12 DEF RebootEnds, RebootAccepted, RebootFailed, RebootTimedOut, Holds, Release
  <2> QED
    BY <2>1, <1>i, LeavingKeeps DEF Steps, InsideLadder
<1>13. CASE ResetLadder(t)
  <2>1. /\ phase = "free" /\ phase' = "resetting" /\ holder' = t /\ inside' = inside
        /\ MoveTo(t, "resetting")
    BY <1>13 DEF ResetLadder, Reset
  <2>2. ThreadInv(t)' /\ "resetting" \in Steps
    BY <1>t, <2>1 DEF ThreadInv, InsideLadder, MoveTo, Steps
  <2> QED
    BY <2>1, <2>2, <1>i, <1>n, OnlyItMoves
<1>14. CASE ResetDone(t)
  <2>1. /\ holder = t /\ phase = "resetting" /\ holder' = NoThread /\ inside' = inside
    BY <1>14 DEF ResetDone, ResetCounter, Holds, Release
  <2>2. PICK s \in {"poll", "promote"} : MoveTo(t, s)
    BY <1>14 DEF ResetDone
  <2> QED
    BY <2>1, <2>2, <1>i, LeavingKeeps DEF Steps, InsideLadder
<1> QED
  BY <1>1, <1>2, <1>3, <1>4, <1>5, <1>6, <1>7, <1>8, <1>9, <1>10, <1>11, <1>12, <1>13, <1>14,
     <1>15
  DEF EscalatePath, CalmStep

\* The steps of the process, of the environment and of time.
LEMMA RestKeepsThreads ==
    ASSUME NodeInv,
           \/ \E t \in Threads : CalmStep(t) \/ ProcessStart(t)
           \/ WorldStep \/ ProcessCrash \/ NodeBoot \/ Tick \/ UNCHANGED fdirVars
    PROVE  wd' \in [Threads -> Steps] /\ (\A u \in Threads : ThreadInv(u)') /\ InsideInv'
<1>t. wd \in [Threads -> Steps]
  BY DEF NodeInv
<1> USE DEF LadderKept, GateKept, ladderVars, memoryVars, quiesceVars
<1>1. ASSUME UNCHANGED <<wd, holder, phase, level, inside, quiet>>
      PROVE  wd' \in [Threads -> Steps] /\ (\A u \in Threads : ThreadInv(u)') /\ InsideInv'
  BY <1>1 DEF NodeInv, ThreadInv, InsideInv, ActionOf, QuietDomains
<1>2. ASSUME NEW t \in Threads, CalmStep(t)
      PROVE  wd' \in [Threads -> Steps] /\ (\A u \in Threads : ThreadInv(u)') /\ InsideInv'
  <2>1. LadderKept /\ GateKept
    BY <1>t, <1>2, CalmIsCalm
  <2>2. CASE wd' = wd
    BY <1>1, <2>1, <2>2
  <2>3. CASE wd[t] \notin InsideLadder /\ \E s \in Steps \ InsideLadder : MoveTo(t, s)
    <3>1. /\ wd' \in [Threads -> Steps]
          /\ wd'[t] \notin InsideLadder
          /\ \A u \in Threads \ {t} : wd'[u] = wd[u]
      BY <1>t, <2>3 DEF MoveTo
    <3>2. \A u \in Threads : ThreadInv(u)'
      BY <2>1, <2>3, <3>1 DEF NodeInv, ThreadInv, InsideLadder, ActionOf
    <3>3. t \notin inside
      BY <2>3 DEF NodeInv, InsideInv, InsideLadder
    <3>4. InsideInv'
      BY <2>1, <3>1, <3>3
      DEF NodeInv, InsideInv, QuiesceInv, QuiesceTypeOK, ActionOf, QuietDomains
    <3> QED
      BY <3>1, <3>2, <3>4
  <2> QED
    BY <1>t, <1>2, <2>2, <2>3, CalmIsCalm
<1>3. ASSUME NEW t \in Threads, ProcessStart(t)
      PROVE  wd' \in [Threads -> Steps] /\ (\A u \in Threads : ThreadInv(u)') /\ InsideInv'
  <2>1. UNCHANGED <<wd, holder, phase, inside>> /\ phase = "free"
    BY <1>3 DEF ProcessStart, Start, NodeInv, PhaseInv
  <2>2. inside = {}
    BY <2>1, InsideIsHolder
  <2> QED
    BY <2>1, <2>2 DEF NodeInv, ThreadInv, InsideInv
<1>4. CASE ProcessCrash \/ NodeBoot
  <2>1. /\ wd' = [t \in Threads |-> "poll"] /\ holder' = NoThread /\ inside' = {}
    BY <1>4 DEF ProcessCrash, NodeBoot, Crash, Boot, MemoryLost, ThreadsLost, QuiesceLost
  <2> QED
    BY <2>1, NoThreadIsNone DEF ThreadInv, InsideInv, InsideLadder, Steps
<1>5. CASE Tick
  <2>1. UNCHANGED <<holder, phase, level, inside, quiet>>
    BY <1>5 DEF Tick, LadderTick, QuiesceTick
  <2>2. \A t \in Threads : wd'[t] = IF wd[t] = "sleep" THEN "poll" ELSE wd[t]
    BY <1>5 DEF Tick
  <2>3. wd' \in [Threads -> Steps]
    BY <1>t, <1>5 DEF Tick, Steps
  <2>4. \A u \in Threads : ThreadInv(u)'
    BY <2>1, <2>2 DEF NodeInv, ThreadInv, InsideLadder, ActionOf
  <2>5. InsideInv'
    BY <2>1, <2>2 DEF NodeInv, InsideInv, QuiesceInv, QuiesceTypeOK, ActionOf, QuietDomains
  <2> QED
    BY <2>3, <2>4, <2>5
<1>6. CASE WorldStep \/ UNCHANGED fdirVars
  <2>1. UNCHANGED <<wd, holder, phase, level, inside, quiet>>
    BY <1>6, WorldIsCalm DEF fdirVars, watchVars
  <2> QED
    BY <1>1, <2>1
<1> QED
  BY <1>2, <1>3, <1>4, <1>5, <1>6

\* The invariant holds when the process starts, at boot.
LEMMA InitNodeInv == FdirInit => NodeInv
<1> SUFFICES ASSUME FdirInit PROVE NodeInv
  OBVIOUS
<1>1. LadderInv /\ QuiesceInv
  BY InitLadderInv, InitQuiesceInv DEF FdirInit
<1>2. wd = [t \in Threads |-> "poll"] /\ holder = NoThread /\ inside = {}
  BY DEF FdirInit, LadderInit, QuiesceInit
<1>3. (\A t \in Threads : ThreadInv(t)) /\ InsideInv /\ wd \in [Threads -> Steps]
  BY <1>2, NoThreadIsNone DEF ThreadInv, InsideInv, InsideLadder, Steps
<1> QED
  BY <1>1, <1>3 DEF NodeInv, LadderInv

\* Every step of the node keeps the invariant.
LEMMA NextNodeInv == NodeInv /\ [FdirNext]_fdirVars => NodeInv'
<1> SUFFICES ASSUME NodeInv, [FdirNext]_fdirVars PROVE NodeInv'
  OBVIOUS
<1>1. LadderTypeOK' /\ PhaseInv'
  BY NodeStepIsLadderStep, TypeStep DEF NodeInv
<1>2. QuiesceInv'
  BY NodeStepIsGateStep, NextQuiesceInv DEF NodeInv
<1>3. \/ \E t \in Threads : CalmStep(t) \/ ProcessStart(t)
      \/ WorldStep \/ ProcessCrash \/ NodeBoot \/ Tick \/ UNCHANGED fdirVars
      \/ \E t \in Threads : ~CalmStep(t) /\ (EscalatePath(t) \/ ResetLadder(t) \/ ResetDone(t))
  BY DEF FdirNext, ThreadStep, CalmStep, WorldStep
<1>4. wd' \in [Threads -> Steps] /\ (\A u \in Threads : ThreadInv(u)') /\ InsideInv'
  BY <1>3, RestKeepsThreads, PathKeepsThreads
<1> QED
  BY <1>1, <1>2, <1>4 DEF NodeInv

-----------------------------------------------------------------------------
(* Types.                                                                  *)

\* A mode call, whichever it is, keeps the types.
LEMMA ModeCallTyped ==
    ASSUME EnforcerTypeOK, NEW t \in Threads,
           (\E m \in Modes : Transition(t, m)) \/ Degrade(t) \/ Promote(t, "NOMINAL"),
           NoteOverlap(t), UNCHANGED <<active, profile>>
    PROVE  EnforcerTypeOK'
<1>1. UNCHANGED modeVars \/ \E m \in Modes : SetMode(t, m)
  <2>1. OneDown[mode] \in Modes /\ "NOMINAL" \in Modes
    BY DEF EnforcerTypeOK, ModeTypeOK, OneDown, Modes
  <2> QED
    BY <2>1 DEF Transition, Degrade, Promote
<1>2. ModeTypeOK'
  <2>1. CASE UNCHANGED modeVars
    BY <2>1 DEF EnforcerTypeOK, ModeTypeOK, modeVars
  <2>2. CASE \E m \in Modes : SetMode(t, m)
    BY <2>2, SafeAutoResetNat DEF EnforcerTypeOK, ModeTypeOK, SetMode, CallbackSteps
  <2> QED
    BY <1>1, <2>1, <2>2
<1>3. overlapped' \in BOOLEAN
  <2>1. CASE mode' = mode
    BY <2>1 DEF NoteOverlap, EnforcerTypeOK
  <2>2. CASE mode' # mode
    BY <2>2, Zenon DEF NoteOverlap
  <2> QED
    BY <2>1, <2>2
<1> QED
  BY <1>2, <1>3 DEF EnforcerTypeOK

\* A step of the listener keeps the types.
LEMMA ListenerTyped ==
    ASSUME EnforcerTypeOK, NEW t \in Threads, EnforceStep(t)
    PROVE  EnforcerTypeOK'
<1>0. ASSUME NEW pc \in CallbackSteps, Goto(t, pc)
      PROVE  callback' \in [Threads -> [pc : CallbackSteps, from : Modes, to : Modes]]
  <2>1. NoCallback \in [pc : CallbackSteps, from : Modes, to : Modes]
    BY DEF NoCallback, CallbackSteps, Modes
  <2> QED
    BY <1>0, <2>1 DEF Goto, EnforcerTypeOK, ModeTypeOK, Modes
<1>1. UNCHANGED <<mode, modeAge, overlapped>>
  BY DEF EnforceStep, EnforceProfile, EnforceProbe, EnforceEnsure, EnforceCommand, ModeKept,
         enforcerVars
<1>2. \E pc \in CallbackSteps : Goto(t, pc)
  BY DEF EnforceStep, EnforceProfile, EnforceProbe, EnforceEnsure, EnforceCommand, CallbackSteps
<1>3. active' \in BOOLEAN
  <2>1. CASE EnforceCommand(t)
    BY <2>1, Zenon DEF EnforceCommand, EnforcerTypeOK
  <2>2. CASE ~EnforceCommand(t)
    BY <2>2 DEF EnforceStep, EnforceProfile, EnforceProbe, EnforceEnsure, enforcerVars,
                EnforcerTypeOK
  <2> QED
    BY <2>1, <2>2
<1>4. profile' \in Profiles
  <2>1. CASE EnforceProfile(t)
    <3>1. \A m \in Modes \ {"SAFE"} : ProfileOf[m] \in Profiles
      BY DEF ProfileOf, Profiles, Modes
    <3>2. callback[t].to \in Modes
      BY DEF EnforcerTypeOK, ModeTypeOK
    <3> QED
      BY <2>1, <3>1, <3>2 DEF EnforceProfile, EnforcerTypeOK
  <2>2. CASE ~EnforceProfile(t)
    BY <2>2 DEF EnforceStep, EnforceProbe, EnforceEnsure, EnforceCommand, enforcerVars,
                EnforcerTypeOK
  <2> QED
    BY <2>1, <2>2
<1> QED
  BY <1>0, <1>1, <1>2, <1>3, <1>4 DEF EnforcerTypeOK, ModeTypeOK

\* The state of the watchdogs, of the thermal loop and of the environment.
WatchTypeOK ==
    /\ domain \in [Threads -> Domains]
    /\ streak \in 0..NominalChecks /\ suppressions \in 0..MaxSuppress
    /\ firstHealthy \in BOOLEAN /\ claimAge \in 0..AgeCap
    /\ temp \in Temps /\ derating \in {"normal", "low", "stop"}
    /\ fault \in Faults /\ flowing \in BOOLEAN /\ dark \in 0..StaleAfter
    /\ faultsLeft \in 0..MaxFaults /\ crashesLeft \in 0..MaxCrashes
    /\ rebootsSick \in 0..(MaxFdirReboots + 1)

\* The polls and the calls of a thread outside the ladder.
LEMMA CalmTyped ==
    ASSUME NodeInv, EnforcerTypeOK, WatchTypeOK, NEW t \in Threads, CalmStep(t)
    PROVE  EnforcerTypeOK' /\ WatchTypeOK'
<1> USE DomainNames, FdirBounds, PolicyTypes
<1>m. ASSUME ModesKept PROVE EnforcerTypeOK'
  BY <1>m DEF ModesKept, EnforcerTypeOK, ModeTypeOK, modeVars, enforcerVars
<1>w. ASSUME WorldKept, UNCHANGED firstHealthy, domain' \in [Threads -> Domains],
             streak' \in 0..NominalChecks, suppressions' \in 0..MaxSuppress,
             claimAge' \in 0..AgeCap
      PROVE  WatchTypeOK'
  BY <1>w DEF WorldKept, WatchTypeOK, thermalVars, envVars
<1>k. ASSUME WorldKept, WatchKept PROVE WatchTypeOK'
  BY <1>k, <1>w DEF WatchKept, WatchTypeOK
<1>1. CASE PollHealthy(t)
  <2>1. firstHealthy' \in BOOLEAN
    BY <1>1, Zenon DEF PollHealthy
  <2>2. /\ streak' \in 0..NominalChecks /\ suppressions' = 0 /\ rebootsSick' = 0
        /\ UNCHANGED <<domain, claimAge, thermalVars, envVars>>
    BY <1>1 DEF PollHealthy, WatchTypeOK
  <2> QED
    BY <1>1, <1>m, <2>1, <2>2 DEF PollHealthy, OthersKept, WatchTypeOK, thermalVars, envVars
<1>2. CASE PollStale(t)
  <2>1. domain' \in [Threads -> Domains]
    BY <1>2 DEF PollStale, Signal, WatchTypeOK
  <2>2. suppressions' \in 0..MaxSuppress /\ streak' = 0
    BY <1>2 DEF PollStale, WatchTypeOK
  <2> QED
    BY <1>2, <1>m, <1>w, <2>1, <2>2 DEF PollStale, OthersKept, WatchTypeOK
<1>3. CASE PollError(t) \/ RetryProbe(t) \/ SnapshotStale(t) \/ TryGate(t) \/ ClaimWindow(t)
  <2>1. domain' \in [Threads -> Domains]
    BY <1>3 DEF PollError, RetryProbe, SnapshotStale, TryGate, ClaimWindow, Signal, WatchTypeOK
  <2>2. /\ streak' \in 0..NominalChecks /\ claimAge' \in 0..AgeCap
        /\ UNCHANGED <<suppressions, firstHealthy>> /\ WorldKept /\ ModesKept
    BY <1>3 DEF PollError, RetryProbe, SnapshotStale, TryGate, ClaimWindow, OthersKept,
                WatchTypeOK
  <2> QED
    BY <1>m, <1>w, <2>1, <2>2 DEF WatchTypeOK
<1>4. CASE PromoteMode(t)
  BY <1>4, <1>k, ModeCallTyped DEF PromoteMode, ModeCall
<1>5. CASE ForceMode(t) \/ ForceReset(t)
  BY <1>5, <1>m, <1>k, ModeCallTyped DEF ForceMode, ForceReset, ModeCall, OthersKept
<1>6. CASE ThermalPoll(t)
  <2>1. derating' \in {"normal", "low", "stop"} /\ profile' \in Profiles
    BY <1>6 DEF ThermalPoll, EnforcerTypeOK, Profiles
  <2>2. UNCHANGED <<modeVars, active, overlapped, temp, envVars, rebootsSick>> /\ WatchKept
    BY <1>6 DEF ThermalPoll
  <2> QED
    BY <2>1, <2>2
    DEF EnforcerTypeOK, ModeTypeOK, modeVars, WatchTypeOK, WatchKept, envVars
<1>7. CASE ThermalAct(t)
  <2>1. Transition(t, "SAFE") \/ Degrade(t) \/ Promote(t, "NOMINAL")
    <3>1. CASE derating = "stop"
      BY <1>7, <3>1 DEF ThermalAct, ModeCall
    <3>2. CASE derating = "low"
      BY <1>7, <3>2 DEF ThermalAct, ModeCall
    <3>3. CASE derating = "normal"
      BY <1>7, <3>3 DEF ThermalAct, ModeCall
    <3> QED
      BY <3>1, <3>2, <3>3 DEF WatchTypeOK
  <2>2. "SAFE" \in Modes
    BY DEF Modes
  <2>3. NoteOverlap(t) /\ UNCHANGED <<active, profile>> /\ WatchKept /\ WorldKept
    BY <1>7 DEF ThermalAct, ModeCall
  <2> QED
    BY <1>k, <2>1, <2>2, <2>3, ModeCallTyped
<1>8. CASE ListenerStep(t)
  <2>1. flowing' \in BOOLEAN
    BY <1>8, Zenon DEF ListenerStep
  <2> QED
    BY <1>8, <2>1, ListenerTyped DEF ListenerStep, WatchKept, WatchTypeOK, thermalVars
<1> QED
  BY <1>1, <1>2, <1>3, <1>4, <1>5, <1>6, <1>7, <1>8 DEF CalmStep

\* The steps under the lock.
LEMMA PathTyped ==
    ASSUME NodeInv, EnforcerTypeOK, WatchTypeOK, NEW t \in Threads,
           EscalatePath(t) \/ ResetLadder(t) \/ ResetDone(t), ~CalmStep(t)
    PROVE  EnforcerTypeOK' /\ WatchTypeOK'
<1> USE FdirBounds, PolicyTypes
<1>m. ASSUME ModesKept PROVE EnforcerTypeOK'
  BY <1>m DEF ModesKept, EnforcerTypeOK, ModeTypeOK, modeVars, enforcerVars
<1>k. ASSUME WorldKept, WatchKept PROVE WatchTypeOK'
  BY <1>k DEF WorldKept, WatchKept, WatchTypeOK, thermalVars, envVars
<1>s. "SAFE" \in Modes
  BY DEF Modes
<1>1. CASE \/ EnterLadder(t) \/ LadderWaits(t) \/ LadderIsExhausted(t) \/ LadderExecutes(t)
           \/ BeginRun(t) \/ RebootIsRefused(t) \/ CountReboot(t) \/ ResetLadder(t) \/ ResetDone(t)
  BY <1>1, <1>m, <1>k
  DEF EnterLadder, LadderWaits, LadderIsExhausted, LadderExecutes, BeginRun, LadderOnly,
      RebootIsRefused, CountReboot, ResetLadder, ResetDone
<1>2. CASE LadderToSafe(t) \/ RebootToSafe(t) \/ LadderEscalates(t)
  BY <1>2, <1>m, <1>k, <1>s, ModeCallTyped
  DEF LadderToSafe, RebootToSafe, LadderEscalates, ModeCall
<1>3. CASE ArmGate(t) \/ FinishFailed(t)
  BY <1>3, <1>m, <1>k DEF ArmGate, FinishFailed
<1>4. CASE CutStream(t)
  <2>1. active' \in BOOLEAN /\ flowing' \in BOOLEAN
    BY <1>4, Zenon DEF CutStream, EnforcerTypeOK, WatchTypeOK
  <2> QED
    BY <1>4, <2>1
    DEF CutStream, EnforcerTypeOK, ModeTypeOK, modeVars, WatchTypeOK, WatchKept, thermalVars
<1>5. CASE FinishRun(t)
  <2>1. active' \in BOOLEAN
    BY <1>5, Zenon DEF FinishRun, EnforcerTypeOK
  <2>2. fault' \in Faults
    BY <1>5 DEF FinishRun, WatchTypeOK, Faults
  <2>3. /\ UNCHANGED <<modeVars, profile, overlapped, thermalVars, flowing, dark, faultsLeft,
                       crashesLeft, rebootsSick>>
        /\ WatchKept
    BY <1>5 DEF FinishRun
  <2> QED
    BY <2>1, <2>2, <2>3
    DEF EnforcerTypeOK, ModeTypeOK, modeVars, WatchTypeOK, WatchKept, thermalVars
<1>6. CASE RebootEnds(t)
  <2>1. rebootsSick' \in 0..(MaxFdirReboots + 1)
    BY <1>6 DEF RebootEnds, WatchTypeOK, CountTo
  <2> QED
    BY <1>6, <1>m, <2>1 DEF RebootEnds, WatchTypeOK, WatchKept, thermalVars, envVars
<1> QED
  BY <1>1, <1>2, <1>3, <1>4, <1>5, <1>6 DEF EscalatePath, CalmStep

\* The process, the environment and time.
LEMMA RestTyped ==
    ASSUME NodeInv, EnforcerTypeOK, WatchTypeOK,
           \/ \E t \in Threads : ProcessStart(t)
           \/ WorldStep \/ ProcessCrash \/ NodeBoot \/ Tick \/ UNCHANGED fdirVars
    PROVE  EnforcerTypeOK' /\ WatchTypeOK'
<1> USE FdirBounds, PolicyTypes, DomainNames
<1>m. ASSUME ModesKept PROVE EnforcerTypeOK'
  BY <1>m DEF ModesKept, EnforcerTypeOK, ModeTypeOK, modeVars, enforcerVars
<1>l. ASSUME ModeLost PROVE ModeTypeOK'
  BY <1>l, SafeAutoResetNat DEF ModeLost, ModeTypeOK, NoCallback, CallbackSteps, Modes
<1>t. ASSUME ThreadsLost
      PROVE  /\ domain' \in [Threads -> Domains] /\ streak' \in 0..NominalChecks
             /\ suppressions' \in 0..MaxSuppress /\ firstHealthy' \in BOOLEAN
             /\ claimAge' \in 0..AgeCap /\ derating' \in {"normal", "low", "stop"}
  <2>1. firstHealthy' \in BOOLEAN
    BY <1>t, Zenon DEF ThreadsLost
  <2> QED
    BY <1>t, <2>1 DEF ThreadsLost
<1>1. ASSUME NEW t \in Threads, ProcessStart(t)
      PROVE  EnforcerTypeOK' /\ WatchTypeOK'
  <2>1. EnforcerTypeOK'
    BY <1>1, <1>m, ModeCallTyped DEF ProcessStart, ModeCall, Modes
  <2>2. claimAge' \in 0..AgeCap
    BY <1>1 DEF ProcessStart, NodeInv, LadderTypeOK
  <2> QED
    BY <1>1, <2>1, <2>2 DEF ProcessStart, WorldKept, WatchTypeOK, thermalVars, envVars
<1>2. CASE WorldStep
  <2>1. EnforcerTypeOK'
    BY <1>2, <1>m
    DEF WorldStep, FaultArises, FaultClears, StreamStarts, TempRises, TempFalls, OthersKept
  <2>2. flowing' \in BOOLEAN
    <3>1. CASE FaultArises
      BY <3>1, Zenon DEF FaultArises
    <3>2. CASE StreamStarts
      BY <3>2, Zenon DEF StreamStarts
    <3> QED
      BY <1>2, <3>1, <3>2 DEF WorldStep, FaultClears, TempRises, TempFalls, envVars, WatchTypeOK
  <2>3. fault' \in Faults /\ dark' \in 0..StaleAfter /\ faultsLeft' \in 0..MaxFaults
    BY <1>2 DEF WorldStep, FaultArises, FaultClears, StreamStarts, TempRises, TempFalls,
                envVars, WatchTypeOK, Faults
  <2>4. temp' \in Temps
    BY <1>2 DEF WorldStep, FaultArises, FaultClears, StreamStarts, TempRises, TempFalls,
                thermalVars, WatchTypeOK, Temps, Hotter
  <2>5. UNCHANGED <<domain, streak, suppressions, firstHealthy, claimAge, derating,
                    crashesLeft, rebootsSick>>
    BY <1>2 DEF WorldStep, FaultArises, FaultClears, StreamStarts, TempRises, TempFalls,
                envVars, thermalVars, watchVars
  <2> QED
    BY <2>1, <2>2, <2>3, <2>4, <2>5 DEF WatchTypeOK
<1>3. CASE ProcessCrash
  <2>1. active' \in BOOLEAN
    BY <1>3 DEF ProcessCrash, EnforcerTypeOK
  <2>2. crashesLeft' \in 0..MaxCrashes
    BY <1>3 DEF ProcessCrash, WatchTypeOK
  <2> QED
    BY <1>3, <1>l, <1>t, <2>1, <2>2 DEF ProcessCrash, EnforcerTypeOK, WatchTypeOK
<1>4. CASE NodeBoot
  <2>1. active' \in BOOLEAN /\ flowing' \in BOOLEAN /\ overlapped' \in BOOLEAN
    BY <1>4, Zenon DEF NodeBoot
  <2>2. crashesLeft' \in 0..MaxCrashes /\ dark' \in 0..StaleAfter /\ profile' \in Profiles
    BY <1>4 DEF NodeBoot, WatchTypeOK, Profiles
  <2> QED
    BY <1>4, <1>l, <1>t, <2>1, <2>2 DEF NodeBoot, EnforcerTypeOK, WatchTypeOK
<1>5. CASE Tick
  <2>1. EnforcerTypeOK'
    BY <1>5, SafeAutoResetNat DEF Tick, ModeTick, EnforcerTypeOK, ModeTypeOK, enforcerVars
  <2>2. claimAge' \in 0..AgeCap
    BY <1>5, OlderIsAge DEF Tick, WatchTypeOK
  <2>3. dark' \in 0..StaleAfter
    BY <1>5 DEF Tick, WatchTypeOK
  <2> QED
    BY <1>5, <2>1, <2>2, <2>3 DEF Tick, WatchTypeOK, thermalVars
<1>6. CASE UNCHANGED fdirVars
  <2>1. ModesKept /\ UNCHANGED <<watchVars, thermalVars, envVars, rebootsSick>>
    BY <1>6 DEF fdirVars, ModesKept
  <2> QED
    BY <1>m, <2>1 DEF WatchTypeOK, watchVars, thermalVars, envVars
<1> QED
  BY <1>1, <1>2, <1>3, <1>4, <1>5, <1>6

-----------------------------------------------------------------------------
(* The theorems.                                                           *)

\* The inductive invariant of the node.
THEOREM NodeInvariant == FdirSpec => []NodeInv
  BY InitNodeInv, NextNodeInv, PTL DEF FdirSpec

\* Type correctness of the node.
THEOREM NodeTypeCorrect == FdirSpec => []FdirTypeOK
<1> DEFINE Typed == EnforcerTypeOK /\ WatchTypeOK
<1>1. FdirInit => Typed
  <2> SUFFICES ASSUME FdirInit PROVE Typed
    OBVIOUS
  <2> USE DEF FdirInit
  <2>1. /\ active \in BOOLEAN /\ overlapped \in BOOLEAN
        /\ firstHealthy \in BOOLEAN /\ flowing \in BOOLEAN
    BY Zenon DEF EnforcerInit
  <2>2. EnforcerTypeOK
    BY <2>1, SafeAutoResetNat
    DEF EnforcerInit, ModeInit, EnforcerTypeOK, ModeTypeOK, NoCallback, CallbackSteps, Modes,
        Profiles
  <2>3. WatchTypeOK
    BY <2>1, FdirBounds, PolicyTypes, DomainNames DEF WatchTypeOK, Temps, Faults
  <2> QED
    BY <2>2, <2>3
<1>2. NodeInv /\ Typed /\ [FdirNext]_fdirVars => Typed'
  <2> SUFFICES ASSUME NodeInv, EnforcerTypeOK, WatchTypeOK, [FdirNext]_fdirVars
               PROVE  EnforcerTypeOK' /\ WatchTypeOK'
    OBVIOUS
  <2>1. \/ \E t \in Threads : CalmStep(t) \/ ProcessStart(t)
        \/ WorldStep \/ ProcessCrash \/ NodeBoot \/ Tick \/ UNCHANGED fdirVars
        \/ \E t \in Threads : /\ ~CalmStep(t)
                              /\ EscalatePath(t) \/ ResetLadder(t) \/ ResetDone(t)
    BY DEF FdirNext, ThreadStep, CalmStep, WorldStep
  <2> QED
    BY <2>1, CalmTyped, PathTyped, RestTyped
<1>3. NodeInv /\ Typed => FdirTypeOK
  BY DEF NodeInv, QuiesceInv, FdirTypeOK, WatchTypeOK
<1> QED
  BY <1>1, <1>2, <1>3, NodeInvariant, PTL DEF FdirSpec

\* The node implements the ladder's specification: watchdogs, operator,
\* crashes and reboots use recovery_ladder.py only through its operations.
THEOREM NodeImplementsLadder == FdirSpec => LadderSpec
<1>1. FdirInit => LadderInit
  BY DEF FdirInit
<1>2. NodeInv /\ [FdirNext]_fdirVars => [LadderNext]_ladderVars
  BY NodeStepIsLadderStep DEF NodeInv
<1> QED
  BY <1>1, <1>2, NodeInvariant, PTL DEF FdirSpec, LadderSpec

\* The node implements the gate's specification: the executor arms the gate
\* with the ttls and the domains fdir_quiesce.py is made for, and leaves it
\* once for every time it entered.
THEOREM NodeImplementsGate == FdirSpec => QuiesceSpec
<1>1. FdirInit => QuiesceInit
  BY DEF FdirInit
<1>2. NodeInv /\ [FdirNext]_fdirVars => [QuiesceNext]_quiesceVars
  BY NodeStepIsGateStep
<1> QED
  BY <1>1, <1>2, NodeInvariant, PTL DEF FdirSpec, QuiesceSpec

\* Hence the node as a whole keeps what the ladder promises: budgets survive
\* crashes, the reboot is the last resort, the breaker bounds the reboots and
\* cooldowns are kept, whichever threads escalate, reset or die.
THEOREM NodeKeepsLadderPromises ==
    FdirSpec => [](BudgetsSurviveCrashes /\ RebootIsLastResort /\ RebootsBounded) /\ CooldownKept
  BY NodeImplementsLadder, BudgetsHold, LastResort, BreakerHolds, CooldownHolds, PTL

\* And what the gate promises: no domain is hidden for longer than the ceiling.
THEOREM NodeBlindnessBounded == FdirSpec => [](BlindnessBounded /\ GateFollowsHolders)
  BY NodeImplementsGate, BlindnessIsBounded, GateIsExact, PTL

\* The lock of the ladder is held by the thread inside escalate() or reset(),
\* by nobody when there is none, through every listener, crash and restart.
THEOREM LockIsFollowed == FdirSpec => []LockFollowsThread
<1>1. NodeInv => LockFollowsThread
  BY DEF NodeInv, ThreadInv, LockFollowsThread
<1> QED
  BY <1>1, NodeInvariant, PTL

\* The watchdogs are blind only for the restart in progress: never for the
\* Janus domain while only the encoder is restarted, never after the handler.
THEOREM BlindForOwnRestart == FdirSpec => []BlindOnlyForOwnRestart
<1>1. NodeInv => BlindOnlyForOwnRestart
  <2> SUFFICES ASSUME NodeInv, NEW d \in Domains, IsQuiesced(d)
               PROVE  /\ phase = "executing"
                      /\ ActionOf(level) \in Restarts
                      /\ d = "JANUS" => ActionOf(level) = "restart_janus"
    BY DEF BlindOnlyForOwnRestart
  <2>1. PICK t \in inside : TRUE
    BY DEF IsQuiesced, NodeInv, QuiesceInv, GateFollowsHolders
  <2>2. d \in QuietDomains(ActionOf(level))
    BY <2>1 DEF IsQuiesced, NodeInv, InsideInv
  <2> QED
    BY <2>1, <2>2, InsideIsHolder DEF QuietDomains
<1> QED
  BY <1>1, NodeInvariant, PTL
=============================================================================
