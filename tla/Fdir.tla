-------------------------------- MODULE Fdir --------------------------------
(***************************************************************************)
(* The autonomous fault handling of one camera node: the two watchdogs     *)
(* (app/services/watchdogs.py), the thermal monitor (thermal.py) and the   *)
(* admin routes (routes/fdir.py) driving the recovery ladder, the system   *)
(* mode with its enforcer and the quiesce gate, each a module of its own.  *)
(*                                                                         *)
(* The environment is the encoder unit and the stream it feeds.  The       *)
(* stream flows when the encoder is active and not wedged; the Janus probe *)
(* sees a fresh video age when it flows and Janus works; the snapshot file *)
(* is fresh when it flows, whatever Janus does.                            *)
(***************************************************************************)
EXTENDS RecoveryLadder, ModeEnforcer, FdirQuiesce

CONSTANTS
    SettleMargin,       \* _QUIESCE_SETTLE_SEC
    EscalationDedup,    \* _ESCALATION_DEDUP_SEC
    Grace,              \* settings.watchdog_grace_sec
    NominalChecks,      \* _NOMINAL_WINDOW_CHECKS
    MaxSuppress,        \* _MAX_SUPPRESS_TICKS
    StaleAfter,         \* settings.watchdog_stale_ms
    MaxFaults,          \* bound: faults and rises of the temperature
    MaxCrashes          \* bound: crashes of the process and power cycles

JanusWatchdog == "janus_watchdog"
SnapshotWatchdog == "snapshot_watchdog"
Thermal == "thermal"
Operator == "operator"

RestartTtl(a) == CmdTimeout[a] + SettleMargin

\* fdir_events.Domain, as far as the watchdogs use it, and the ttls of the two
\* quiesced(...) blocks of recovery_executor.py.
ASSUME DomainNames == Domains = {"PIPELINE", "SENSOR", "JANUS"}
ASSUME TtlsOfExecutor == Ttls = {RestartTtl("restart_pipeline"), RestartTtl("restart_janus")}
ASSUME ThreadNames == Threads \subseteq {JanusWatchdog, SnapshotWatchdog, Thermal, Operator}
ASSUME FdirBounds ==
    /\ SettleMargin \in Nat /\ EscalationDedup \in 0..AgeCap
    /\ Grace \in 0..RebootCounterReset
    /\ NominalChecks \in Nat \ {0} /\ MaxSuppress \in Nat
    /\ StaleAfter \in Nat \ {0}
    /\ MaxFaults \in Nat /\ MaxCrashes \in Nat

VARIABLES
    wd,             \* per thread: the step it is at
    domain,         \* per thread: the domain of its signal
    streak,         \* healthy_streak of the Janus watchdog
    suppressions,   \* _consecutive_suppressions
    firstHealthy,   \* _first_healthy_seen
    claimAge,       \* age of the watchdogs' _last_escalation_ts
    temp,           \* the CPU temperature, by threshold
    derating,       \* current_profile of the thermal loop
    fault,          \* environment: what is broken
    flowing,        \* environment: the encoder produces frames
    dark,           \* environment: time since the last frame
    faultsLeft, crashesLeft,
    rebootsSick     \* history: reboots commanded since the stream was healthy

watchVars == <<wd, domain, streak, suppressions, firstHealthy, claimAge>>
thermalVars == <<temp, derating>>
envVars == <<fault, flowing, dark, faultsLeft, crashesLeft>>

fdirVars == <<ladderVars, modeVars, enforcerVars, quiesceVars, watchVars, thermalVars,
              envVars, rebootsSick>>

Restarts == {"restart_pipeline", "restart_janus"}
Steps == {"sleep", "poll", "retry", "try", "claim", "escalate", "ladder", "safe", "arm", "cut",
          "begin", "run", "failed", "refuse", "reset", "resetting", "promote", "act"}
Temps == {"cool", "mild", "warm", "hot"}
Faults == {"none", "encoder", "janus"}

FdirInit ==
    /\ LadderInit /\ EnforcerInit /\ QuiesceInit
    /\ wd = [t \in Threads |-> "poll"]
    /\ domain = [t \in Threads |-> "PIPELINE"]
    /\ streak = 0 /\ suppressions = 0 /\ firstHealthy = FALSE /\ claimAge = 0
    /\ temp = "cool" /\ derating = "normal"
    /\ fault = "none" /\ flowing = TRUE /\ dark = 0
    /\ faultsLeft = MaxFaults /\ crashesLeft = MaxCrashes
    /\ rebootsSick = 0

-----------------------------------------------------------------------------
(* Moving a thread from one step to the next.                              *)

\* A thread takes its next step only when it has left the mode listener.
Ready(t, step) == up /\ wd[t] = step /\ Quiet(t)
MoveTo(t, step) == wd' = [wd EXCEPT ![t] = step]
Signal(t, step, d) == MoveTo(t, step) /\ domain' = [domain EXCEPT ![t] = d]

LadderKept == UNCHANGED ladderVars
ModesKept == UNCHANGED <<modeVars, enforcerVars>>
GateKept == UNCHANGED quiesceVars
OthersKept == LadderKept /\ ModesKept /\ GateKept
WorldKept == UNCHANGED <<thermalVars, envVars, rebootsSick>>
WatchKept == UNCHANGED <<domain, streak, suppressions, firstHealthy, claimAge>>

\* A call into system_mode: the listener, if any, is run by later steps.
ModeCall(t, A) == A /\ NoteOverlap(t) /\ UNCHANGED <<active, profile>>

-----------------------------------------------------------------------------
(* The Janus watchdog: _watchdog_loop.                                     *)

\* Mutant: the grace period ends only with a healthy stream.
InGraceForever == ~firstHealthy

InGrace == ~firstHealthy /\ procAge < Grace

\* The last frame is young enough for a watchdog.
Fresh == dark < StaleAfter

\* janus_summary(): a broken Janus answers with an error or a stale age.
ProbeSees ==
    IF fault = "janus" THEN {"error", "stale"}
    ELSE IF Fresh THEN {"healthy"} ELSE {"stale"}

\* _local_stream_recently_alive(): the snapshot file is fresh.
LocalStreamAlive == SnapshotWatchdog \in Threads /\ Fresh

PollHealthy(t) ==
    /\ t = JanusWatchdog /\ Ready(t, "poll") /\ "healthy" \in ProbeSees
    /\ firstHealthy' = TRUE
    /\ suppressions' = 0
    /\ streak' = IF streak < NominalChecks THEN streak + 1 ELSE streak
    /\ MoveTo(t, IF streak' = NominalChecks THEN "reset" ELSE "sleep")
    /\ rebootsSick' = 0
    /\ UNCHANGED <<domain, claimAge, thermalVars, envVars>>
    /\ OthersKept

\* The branches of a stale poll, in the order of the code.
\* Mutant: no way out of SAFE without a healthy stream.
SafeAutoResetMissing == FALSE
SafeAutoResetDue == SafeAutoReset > 0 /\ mode = "SAFE" /\ modeAge >= SafeAutoReset

PollStale(t) ==
    /\ t = JanusWatchdog /\ Ready(t, "poll") /\ "stale" \in ProbeSees
    /\ streak' = 0
    /\ \/ /\ InGrace
          /\ MoveTo(t, "sleep")
          /\ UNCHANGED <<domain, suppressions>>
       \/ /\ ~InGrace /\ SafeAutoResetDue
          /\ MoveTo(t, "reset")
          /\ UNCHANGED <<domain, suppressions>>
       \/ /\ ~InGrace /\ ~SafeAutoResetDue
          /\ LocalStreamAlive /\ suppressions < MaxSuppress
          /\ suppressions' = suppressions + 1
          /\ MoveTo(t, "sleep")
          /\ UNCHANGED domain
       \/ /\ ~InGrace /\ ~SafeAutoResetDue
          /\ ~LocalStreamAlive \/ suppressions >= MaxSuppress
          /\ suppressions' = 0
          /\ Signal(t, "try", "PIPELINE")
    /\ UNCHANGED <<firstHealthy, claimAge>>
    /\ WorldKept /\ OthersKept

\* The probe raised: outside the grace period it is tried once more.
PollError(t) ==
    /\ t = JanusWatchdog /\ Ready(t, "poll") /\ "error" \in ProbeSees
    /\ streak' = 0
    /\ MoveTo(t, IF InGrace THEN "sleep" ELSE "retry")
    /\ UNCHANGED <<domain, suppressions, firstHealthy, claimAge>>
    /\ WorldKept /\ OthersKept

\* The second probe: an answer of any age ends the matter, a second error
\* escalates unless the local stream is provably alive.
RetryProbe(t) ==
    /\ Ready(t, "retry")
    /\ \E seen \in ProbeSees :
         IF seen = "error" /\ ~LocalStreamAlive
         THEN Signal(t, "try", "JANUS")
         ELSE MoveTo(t, "sleep") /\ UNCHANGED domain
    /\ UNCHANGED <<streak, suppressions, firstHealthy, claimAge>>
    /\ WorldKept /\ OthersKept

\* _snapshot_watchdog_loop: the file is stale or missing.  The grace period the
\* code measures from its own start is over by then.
SnapshotStale(t) ==
    /\ t = SnapshotWatchdog /\ Ready(t, "poll") /\ ~Fresh /\ ~InGrace
    /\ Signal(t, "try", "SENSOR")
    /\ UNCHANGED <<streak, suppressions, firstHealthy, claimAge>>
    /\ WorldKept /\ OthersKept

-----------------------------------------------------------------------------
(* _try_escalate: the gate, then the shared window, then the ladder.  Each *)
(* is read under a lock of its own.                                        *)

\* From here on the domain of the signal only labels events.
TryGate(t) ==
    /\ Ready(t, "try")
    /\ Signal(t, IF IsQuiesced(domain[t]) THEN "sleep" ELSE "claim", "PIPELINE")
    /\ UNCHANGED <<streak, suppressions, firstHealthy, claimAge>>
    /\ WorldKept /\ OthersKept

ClaimWindow(t) ==
    /\ Ready(t, "claim")
    /\ \/ /\ claimAge < EscalationDedup
          /\ MoveTo(t, "sleep")
          /\ UNCHANGED claimAge
       \/ /\ claimAge >= EscalationDedup
          /\ MoveTo(t, "escalate")
          /\ claimAge' = 0
    /\ UNCHANGED <<domain, streak, suppressions, firstHealthy>>
    /\ WorldKept /\ OthersKept

\* A step of the ladder alone.
LadderOnly(A, t, step) ==
    /\ A /\ MoveTo(t, step)
    /\ WatchKept /\ WorldKept /\ ModesKept /\ GateKept

EnterLadder(t) == Ready(t, "escalate") /\ LadderOnly(Acquire(t), t, "ladder")
LadderWaits(t) == Ready(t, "ladder") /\ LadderOnly(DecideWait(t), t, "sleep")

\* Exhausted: SAFE is entered, listener included, before the lock is released.
LadderToSafe(t) ==
    /\ Ready(t, "ladder") /\ Holds(t, "deciding") /\ IsExhausted
    /\ ModeCall(t, Transition(t, "SAFE"))
    /\ MoveTo(t, "safe")
    /\ WatchKept /\ WorldKept /\ LadderKept /\ GateKept
LadderIsExhausted(t) == Ready(t, "safe") /\ LadderOnly(DecideExhausted(t), t, "sleep")

\* Next level: persist, then degrade the mode unless the ladder has ended.
LadderEscalates(t) ==
    /\ Ready(t, "ladder") /\ DecideEscalate(t)
    /\ IF level' =< N THEN ModeCall(t, Degrade(t)) ELSE ModesKept
    /\ UNCHANGED wd /\ WatchKept /\ WorldKept /\ GateKept

LadderExecutes(t) == Ready(t, "ladder") /\ LadderOnly(DecideExecute(t), t, "begin")

-----------------------------------------------------------------------------
(* RecoveryExecutor: what the action of a level does to the encoder, the   *)
(* gate and the mode.                                                      *)

\* RecoveryExecutor.execute: the handler of the action starts.
BeginRun(t) ==
    /\ Ready(t, "begin")
    /\ LadderOnly(BeginAction(t), t, IF ActionOf(level) \in Restarts THEN "arm" ELSE "run")

\* Mutant: every domain is suppressed.
QuietEverything(a) == Domains

QuietDomains(a) == IF a = "restart_janus" THEN Domains ELSE {"PIPELINE", "SENSOR"}

\* Mutant: the window is set past the refcount.
ArmGateUncounted(t) ==
    /\ Ready(t, "arm")
    /\ left' = RestartTtl(ActionOf(level)) /\ quiet' = QuietDomains(ActionOf(level))
    /\ MoveTo(t, "cut")
    /\ UNCHANGED <<arms, inside, windowAge>>
    /\ WatchKept /\ WorldKept /\ LadderKept /\ ModesKept

\* Entering quiesced(timeout + settle margin, ...).
ArmGate(t) ==
    /\ Ready(t, "arm")
    /\ Quiesce(t, RestartTtl(ActionOf(level)), QuietDomains(ActionOf(level)))
    /\ MoveTo(t, "cut")
    /\ WatchKept /\ WorldKept /\ LadderKept /\ ModesKept

\* encoder-admin restart takes the encoder down, encoder-admin stop leaves it
\* down; a command that fails at once raises and ends the handler.
CutStream(t) ==
    /\ Ready(t, "cut")
    /\ \/ /\ active' = FALSE /\ flowing' = FALSE
          /\ MoveTo(t, "run")
       \/ /\ CmdFaults
          /\ UNCHANGED <<active, flowing>>
          /\ MoveTo(t, "failed")
    /\ WatchKept /\ LadderKept /\ GateKept
    /\ UNCHANGED <<modeVars, profile, overlapped, thermalVars, fault, dark, faultsLeft,
                   crashesLeft, rebootsSick>>

\* Which fault an action may repair.
Repairs(a) == CASE a = "restart_janus"                     -> {"janus"}
                [] a \in {"restart_pipeline", "usb_reset"} -> {"encoder"}
                [] OTHER                                   -> {}

\* The handler returns or raises and the gate is left.  The encoder comes back
\* from encoder-admin restart; after restart_janus nothing starts it again:
\* systemd does not restart a unit that was stopped by systemctl stop.
FinishRun(t) ==
    LET a == ActionOf(level) IN
    /\ Ready(t, "run") /\ a # "reboot_node"
    /\ FinishAction(t)
    /\ IF t \in inside THEN Unquiesce(t) ELSE GateKept
    /\ \/ active' = (active \/ a = "restart_pipeline")
       \/ CmdFaults /\ UNCHANGED active
    /\ fault' \in {fault} \cup (IF fault \in Repairs(a) THEN {"none"} ELSE {})
    /\ MoveTo(t, "sleep")
    /\ WatchKept
    /\ UNCHANGED <<modeVars, profile, overlapped, thermalVars, flowing, dark, faultsLeft,
                   crashesLeft, rebootsSick>>

FinishFailed(t) ==
    /\ Ready(t, "failed")
    /\ FinishAction(t) /\ Unquiesce(t)
    /\ MoveTo(t, "sleep")
    /\ WatchKept /\ WorldKept /\ ModesKept

\* _reboot_node: disabled, or the breaker has tripped: SAFE, then release.
RebootToSafe(t) ==
    /\ Ready(t, "run") /\ Executing(t, {"reboot_node"})
    /\ ~RebootEnabled \/ rebootCount >= MaxFdirReboots
    /\ ModeCall(t, Transition(t, "SAFE"))
    /\ MoveTo(t, "refuse")
    /\ WatchKept /\ WorldKept /\ LadderKept /\ GateKept
RebootIsRefused(t) == Ready(t, "refuse") /\ LadderOnly(RebootRefused(t), t, "sleep")

\* Mutant: the reboot is commanded before it is counted.
CountRebootLate(t) ==
    /\ Ready(t, "run") /\ Executing(t, {"reboot_node"})
    /\ LadderOnly(phase' = "rebooting" /\ UNCHANGED holder /\ OnlyLockMoves, t, "run")

CountReboot(t) == Ready(t, "run") /\ LadderOnly(RebootCounted(t), t, "run")
RebootEnds(t) ==
    /\ Ready(t, "run")
    /\ \/ RebootAccepted(t) /\ rebootsSick' = CountTo(rebootsSick, MaxFdirReboots + 1)
       \/ RebootFailed(t) /\ UNCHANGED rebootsSick
       \/ RebootTimedOut(t) /\ UNCHANGED rebootsSick
    /\ MoveTo(t, "sleep")
    /\ WatchKept /\ ModesKept /\ GateKept
    /\ UNCHANGED <<thermalVars, envVars>>

EscalatePath(t) ==
    \/ TryGate(t) \/ ClaimWindow(t) \/ EnterLadder(t)
    \/ LadderWaits(t) \/ LadderToSafe(t) \/ LadderIsExhausted(t)
    \/ LadderEscalates(t) \/ LadderExecutes(t) \/ BeginRun(t)
    \/ ArmGate(t) \/ CutStream(t) \/ FinishRun(t) \/ FinishFailed(t)
    \/ RebootToSafe(t) \/ RebootIsRefused(t) \/ CountReboot(t) \/ RebootEnds(t)

-----------------------------------------------------------------------------
(* ladder.reset(), then (watchdog) promote to NOMINAL: two separate calls.  *)

ResetLadder(t) == Ready(t, "reset") /\ LadderOnly(Reset(t), t, "resetting")
ResetDone(t) ==
    /\ Ready(t, "resetting")
    /\ LadderOnly(ResetCounter(t), t, IF t = Operator THEN "poll" ELSE "promote")
\* Mutant: the ladder is reset, the mode is not.
PromoteForgotten(t) ==
    /\ Ready(t, "promote")
    /\ MoveTo(t, "sleep")
    /\ WatchKept /\ WorldKept /\ OthersKept

PromoteMode(t) ==
    /\ Ready(t, "promote")
    /\ ModeCall(t, Promote(t, "NOMINAL"))
    /\ MoveTo(t, "sleep")
    /\ WatchKept /\ WorldKept /\ LadderKept /\ GateKept

\* The admin routes POST /mode/{target} and POST /ladder/reset.
ForceMode(t) ==
    /\ t = Operator /\ Ready(t, "poll")
    /\ \E m \in Modes : ModeCall(t, Transition(t, m))
    /\ UNCHANGED wd /\ WatchKept /\ WorldKept /\ LadderKept /\ GateKept
ForceReset(t) ==
    /\ t = Operator /\ Ready(t, "poll")
    /\ MoveTo(t, "reset")
    /\ WatchKept /\ WorldKept /\ OthersKept

\* _thermal_loop: first the profile file, then the mode.
ThermalPoll(t) ==
    /\ t = Thermal /\ Ready(t, "poll")
    /\ \/ temp = "hot" /\ derating # "stop" /\ derating' = "stop"
       \/ temp = "warm" /\ derating = "normal" /\ derating' = "low"
       \/ temp = "cool" /\ derating # "normal" /\ derating' = "normal"
    /\ \/ profile' = derating'
       \/ CmdFaults /\ UNCHANGED profile
    /\ MoveTo(t, "act")
    /\ WatchKept /\ LadderKept /\ GateKept
    /\ UNCHANGED <<modeVars, active, overlapped, temp, envVars, rebootsSick>>

\* Mutant: a critical temperature only degrades.
ThermalActMild(t) ==
    /\ t = Thermal /\ Ready(t, "act")
    /\ ModeCall(t, IF derating = "normal" THEN Promote(t, "NOMINAL") ELSE Degrade(t))
    /\ MoveTo(t, "sleep")
    /\ WatchKept /\ WorldKept /\ LadderKept /\ GateKept

ThermalAct(t) ==
    /\ t = Thermal /\ Ready(t, "act")
    /\ ModeCall(t, CASE derating = "stop"   -> Transition(t, "SAFE")
                     [] derating = "low"    -> Degrade(t)
                     [] derating = "normal" -> Promote(t, "NOMINAL"))
    /\ MoveTo(t, "sleep")
    /\ WatchKept /\ WorldKept /\ LadderKept /\ GateKept

\* A step of the mode listener, on any thread; the stream follows the encoder.
ListenerStep(t) ==
    /\ up /\ EnforceStep(t)
    /\ flowing' = (flowing /\ active' /\ ~At(t, "restart"))
    /\ UNCHANGED wd /\ WatchKept /\ LadderKept /\ GateKept
    /\ UNCHANGED <<thermalVars, fault, dark, faultsLeft, crashesLeft, rebootsSick>>

-----------------------------------------------------------------------------
(* The environment.                                                        *)

FaultArises ==
    /\ faultsLeft > 0 /\ fault = "none"
    /\ fault' \in Faults \ {"none"}
    /\ flowing' = (flowing /\ fault' # "encoder")
    /\ faultsLeft' = faultsLeft - 1
    /\ UNCHANGED <<dark, crashesLeft, watchVars, thermalVars, rebootsSick>>
    /\ OthersKept

\* A transient condition that goes away by itself.
FaultClears ==
    /\ fault # "none" /\ fault' = "none"
    /\ UNCHANGED <<flowing, dark, faultsLeft, crashesLeft, watchVars, thermalVars, rebootsSick>>
    /\ OthersKept

\* An active encoder that is not wedged delivers within one unit of time.
Starting == active /\ fault # "encoder" /\ ~flowing
StreamStarts ==
    /\ Starting
    /\ flowing' = TRUE /\ dark' = 0
    /\ UNCHANGED <<fault, faultsLeft, crashesLeft, watchVars, thermalVars, rebootsSick>>
    /\ OthersKept

\* Between two readings the CPU warms up, by any amount, or cools down.
Hotter == [x \in Temps |-> CASE x = "cool" -> {"mild", "warm", "hot"}
                             [] x = "mild" -> {"warm", "hot"}
                             [] x = "warm" -> {"hot"}
                             [] x = "hot"  -> {}]
TempRises ==
    /\ Thermal \in Threads /\ faultsLeft > 0
    /\ temp' \in Hotter[temp]
    /\ faultsLeft' = faultsLeft - 1
    /\ UNCHANGED <<derating, watchVars, fault, flowing, dark, crashesLeft, rebootsSick>>
    /\ OthersKept
TempFalls ==
    /\ \E x \in Temps : temp \in Hotter[x] /\ temp' = x
    /\ UNCHANGED <<derating, watchVars, envVars, rebootsSick>>
    /\ OthersKept

ThreadsLost ==
    /\ wd' = [t \in Threads |-> "poll"]
    /\ domain' = [t \in Threads |-> "PIPELINE"]
    /\ streak' = 0 /\ suppressions' = 0 /\ firstHealthy' = FALSE /\ claimAge' = 0
    /\ derating' = "normal"

\* The process dies at any step.  A restart job it had given to systemd may
\* still complete.
ProcessCrash ==
    /\ crashesLeft > 0 /\ crashesLeft' = crashesLeft - 1
    /\ Crash /\ ModeLost /\ QuiesceLost /\ ThreadsLost
    /\ active' \in {active} \cup {TRUE : t \in {u \in Threads :
                       wd[u] = "run" /\ ActionOf(level) = "restart_pipeline"}}
    /\ UNCHANGED <<profile, overlapped, temp, fault, flowing, dark, faultsLeft, rebootsSick>>

\* The node reboots, on command or by a power cycle.  The boot units start the
\* encoder again; /run, and the fps profile in it, is empty.
NodeBoot ==
    /\ \/ goingDown /\ UNCHANGED crashesLeft
       \/ crashesLeft > 0 /\ crashesLeft' = crashesLeft - 1
    /\ Boot /\ ModeLost /\ QuiesceLost /\ ThreadsLost
    /\ active' = TRUE /\ flowing' = FALSE /\ dark' = StaleAfter /\ profile' = "none" /\ overlapped' = FALSE
    /\ UNCHANGED <<temp, fault, faultsLeft, rebootsSick>>

\* get_ladder() by the first watchdog that runs; a tripped breaker means SAFE.
ProcessStart(t) ==
    /\ t \in {JanusWatchdog, SnapshotWatchdog}
    /\ Start(t)
    /\ IF rebootCount >= MaxFdirReboots THEN ModeCall(t, Transition(t, "SAFE")) ELSE ModesKept
    /\ claimAge' = hostAge
    /\ UNCHANGED <<wd, domain, streak, suppressions, firstHealthy>>
    /\ WorldKept /\ GateKept

\* A unit of time: the interval of the polling loops (_stop_event.wait).
Tick ==
    /\ ~Starting
    /\ LadderTick /\ ModeTick /\ QuiesceTick
    /\ claimAge' = IF up THEN Older(claimAge) ELSE claimAge
    /\ dark' = IF flowing \/ dark = StaleAfter THEN dark ELSE dark + 1
    /\ wd' = [t \in Threads |-> IF wd[t] = "sleep" THEN "poll" ELSE wd[t]]
    /\ UNCHANGED <<enforcerVars, domain, streak, suppressions, firstHealthy,
                   thermalVars, fault, flowing, faultsLeft, crashesLeft, rebootsSick>>

ThreadStep(t) ==
    \/ PollHealthy(t) \/ PollStale(t) \/ PollError(t) \/ RetryProbe(t)
    \/ SnapshotStale(t)
    \/ EscalatePath(t)
    \/ ResetLadder(t) \/ ResetDone(t) \/ PromoteMode(t)
    \/ ThermalPoll(t) \/ ThermalAct(t)
    \/ ListenerStep(t)

FdirNext ==
    \/ \E t \in Threads : ThreadStep(t) \/ ForceMode(t) \/ ForceReset(t) \/ ProcessStart(t)
    \/ FaultArises \/ FaultClears \/ StreamStarts \/ TempRises \/ TempFalls
    \/ ProcessCrash \/ NodeBoot
    \/ Tick

FdirSpec == FdirInit /\ [][FdirNext]_fdirVars

\* Fairness.  Time passes.  Every loop polls for ever and every call it makes
\* returns: subprocesses and probes have timeouts, and the lock is handed on to
\* some thread that waits for it.  A running encoder eventually delivers, a node
\* that was told to reboot does, and systemd starts the service again.
FdirFairness ==
    /\ WF_fdirVars(Tick)
    /\ \A t \in Threads : WF_fdirVars(ThreadStep(t))
    /\ WF_fdirVars(StreamStarts)
    /\ WF_fdirVars(goingDown /\ NodeBoot)
    /\ WF_fdirVars(\E t \in Threads : ProcessStart(t))

FdirFairSpec == FdirSpec /\ FdirFairness

-----------------------------------------------------------------------------
FdirTypeOK ==
    /\ LadderTypeOK /\ EnforcerTypeOK /\ QuiesceTypeOK
    /\ wd \in [Threads -> Steps]
    /\ domain \in [Threads -> Domains]
    /\ streak \in 0..NominalChecks /\ suppressions \in 0..MaxSuppress
    /\ firstHealthy \in BOOLEAN /\ claimAge \in 0..AgeCap
    /\ temp \in Temps /\ derating \in {"normal", "low", "stop"}
    /\ fault \in Faults /\ flowing \in BOOLEAN /\ dark \in 0..StaleAfter
    /\ faultsLeft \in 0..MaxFaults /\ crashesLeft \in 0..MaxCrashes
    /\ rebootsSick \in 0..(MaxFdirReboots + 1)

\* The watchdogs are blind only for the domains that the restart in progress
\* disturbs and only while it is in progress: a handler that fails, times out
\* or dies with the process never leaves the gate armed behind it, and a Janus
\* fault is never hidden by a restart of the encoder.
BlindOnlyForOwnRestart ==
    \A d \in Domains : IsQuiesced(d) =>
        /\ phase = "executing"
        /\ ActionOf(level) \in Restarts
        /\ d = "JANUS" => ActionOf(level) = "restart_janus"

\* The lock of the ladder is held by the thread that is inside escalate() or
\* reset(), through every mode listener that runs on the way.
InsideLadder == {"ladder", "safe", "begin", "arm", "cut", "run", "failed", "refuse", "resetting"}
LockFollowsThread ==
    up => \A t \in Threads : holder = t <=> wd[t] \in InsideLadder

\* Once nothing is broken any more and the CPU is below the warning threshold
\* the node comes back by itself: ladder at its first level, mode NOMINAL,
\* stream flowing, for good.
Recovers ==
    <>[](fault = "none" /\ temp \in {"cool", "mild"}) =>
        <>[](up /\ mode = "NOMINAL" /\ level = 1 /\ flowing)

\* A fault of the encoder that no action repairs does not leave the node in
\* between for ever: again and again it reaches SAFE or a reboot.
PersistentFaultEnds ==
    <>[](fault = "encoder") => []<>(mode = "SAFE" \/ goingDown \/ ~up)

\* A critical temperature that the thermal monitor has not yet answered, and
\* that stays, always ends in SAFE, however the watchdog and the ladder change
\* the mode meanwhile.
CriticalTempAnswered ==
    temp = "hot" /\ derating # "stop" ~> (mode = "SAFE" \/ temp # "hot" \/ ~up)

\* SAFE is never the last word: as long as the Janus probe answers, the SAFE
\* auto-reset of the watchdog gives the ladder another try, also when nothing
\* was repaired.
SafeIsLeft == mode = "SAFE" ~> (mode # "SAFE" \/ fault = "janus")

\* watchdogs.py:49 "after this many seconds in SAFE mode, automatically reset
\* the ladder and attempt recovery again.  Prevents permanent lockout".
SafeAlwaysLeft == mode = "SAFE" ~> mode # "SAFE"

\* recovery_policy.py:28 "Seconds of stable uptime before the reboot counter
\* resets": reboots are bounded until the stream has been healthy again.
RebootsBoundedUntilHealthy == rebootsSick =< MaxFdirReboots

\* thermal.py:8 "THERMAL_CRIT_C = 80 -> stop pipeline, switch to SAFE mode" and
\* thermal.py:9 "THERMAL_RESUME_C = 65 -> resume normal profile (hysteresis)":
\* once a critical temperature has stopped the pipeline, and the listener has
\* run, the pipeline stays stopped as long as the CPU is still critical.
StoppedWhileCritical ==
    [][~active /\ AllQuiet /\ derating = "stop" /\ temp = "hot" => ~active']_fdirVars
=============================================================================
