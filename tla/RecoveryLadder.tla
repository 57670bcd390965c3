--------------------------- MODULE RecoveryLadder ---------------------------
(***************************************************************************)
(* The FDIR recovery ladder: app/services/recovery_ladder.py, its policy   *)
(* (recovery_policy.py), its pure decision (recovery_state_machine.py),    *)
(* the executor of a level's action (recovery_executor.py) and the files   *)
(* it keeps (recovery_persistence.py).                                     *)
(*                                                                         *)
(* The ladder lock is held through a whole escalate() call, the execution  *)
(* of the action included; the process may crash at any step of it.  The   *)
(* ladder never reads the system mode or the quiesce gate: the calls it    *)
(* makes to them are conjoined in module Fdir.                             *)
(*                                                                         *)
(* Time.  The code stores time.monotonic() stamps and compares now - stamp *)
(* with constants.  A stamp is represented by its age, counted up to       *)
(* AgeCap, the largest constant it is compared with.  The stamp 0.0 means  *)
(* "never" in the code; its age is the uptime of the host, so that right   *)
(* after a boot "never" still looks recent, as it does in the code.        *)
(*                                                                         *)
(* Level i of the model is index i-1 of the code's list; N+1 is exhausted. *)
(***************************************************************************)
EXTENDS Integers, Sequences, FdirThreads

CONSTANTS
    NoThread,           \* the holder of a free lock
    CameraType,         \* settings.camera_type
    MaxAttempts,        \* per action: LadderLevel.max_attempts
    Cooldown,           \* per action: LadderLevel.cooldown_sec
    CmdTimeout,         \* per action: the subprocess timeouts of its handler
    DedupWindow,        \* DEDUP_WINDOW_SEC
    RebootCounterReset, \* REBOOT_COUNTER_RESET_SEC
    MaxFdirReboots,     \* settings.max_fdir_reboots
    RebootEnabled,      \* settings.watchdog_reboot_enabled
    StorageFaults,      \* may writes of the state files fail (OSError) or tear?
    AgeCap              \* ages are counted up to here

Actions == {"retry_handle", "restart_pipeline", "restart_janus", "usb_reset", "reboot_node"}

\* default_ladder(camera_type)
DefaultLadder ==
    IF CameraType = "depth_camera"
    THEN <<"retry_handle", "restart_pipeline", "restart_janus", "usb_reset", "reboot_node">>
    ELSE <<"retry_handle", "restart_pipeline", "restart_janus", "reboot_node">>

N == Len(DefaultLadder)
Idx == 1..N

ASSUME NoThreadIsNone == NoThread \notin Threads
ASSUME PolicyTypes ==
    /\ MaxAttempts \in [Actions -> Nat \ {0}]
    /\ Cooldown \in [Actions -> Nat]
    /\ CmdTimeout \in [Actions -> Nat]
    /\ DedupWindow \in Nat
    /\ RebootCounterReset \in Nat
    /\ MaxFdirReboots \in Nat
    /\ RebootEnabled \in BOOLEAN
    /\ StorageFaults \in BOOLEAN
    /\ AgeCap \in Nat
\* Counting an age up to AgeCap loses no comparison the code makes.
ASSUME AgeCapSuffices ==
    /\ \A a \in Actions : Cooldown[a] =< AgeCap /\ CmdTimeout[a] =< AgeCap
    /\ DedupWindow =< AgeCap

VARIABLES
    up,         \* is the process running
    hostAge,    \* time.monotonic(): uptime of the host
    procAge,    \* time.monotonic() - _PROCESS_START_MONO
    level,      \* _current_level
    attempts,   \* attempts of every level
    age,        \* age of last_attempt of every level
    escAge,     \* age of _last_escalation_ts
    phase,      \* where the holder of _lock is: "free" when nobody is
    holder,     \* the thread that holds _lock
    execAge,    \* how long the running action has been running
    reboots,    \* the local `reboots` of _reboot_node
    saved,      \* fdir_ladder.json on tmpfs: level, attempts, age
    rebootCount,\* reboot_count on disk
    goingDown,  \* the reboot command was accepted
    done,       \* history: actions started, per level, since reset() or boot
    lost,       \* history: attempts saved whose action never started, since then
    issued,     \* history: accepted reboots since the counter was cleared
    lastExec,   \* history: the last level executed since reset() or boot
    sinceExec   \* history: time since that execution started

memoryVars == <<level, attempts, age, escAge, phase, holder, execAge, reboots>>
diskVars == <<saved, rebootCount, goingDown>>
historyVars == <<done, lost, issued, lastExec, sinceExec>>
ladderVars == <<up, hostAge, procAge, memoryVars, diskVars, historyVars>>

Phases == {"free", "deciding", "counted", "executing", "rebooting", "resetting"}

Older(a) == IF a < AgeCap THEN a + 1 ELSE a
\* The histories count up to one more than the bound they are compared with.
CountTo(n, bound) == IF n < bound THEN n + 1 ELSE n
None == [i \in Idx |-> 0]
Never == [i \in Idx |-> hostAge]

\* What load_ladder_state yields without a file; the host has just booted.
NoFile == [level |-> 1, attempts |-> None, age |-> None]

LadderInit ==
    /\ up = TRUE
    /\ hostAge = 0 /\ procAge = 0
    /\ level = 1 /\ attempts = None /\ age = None /\ escAge = 0
    /\ phase = "free" /\ holder = NoThread /\ execAge = 0 /\ reboots = 0
    /\ saved = NoFile
    /\ rebootCount = 0 /\ goingDown = FALSE
    /\ done = None /\ lost = None /\ issued = 0 /\ lastExec = 0 /\ sinceExec = 0

-----------------------------------------------------------------------------
\* decide_escalation: the first condition that holds decides.
ActionOf(i) == DefaultLadder[i]
IsExhausted == level > N
InDedup == escAge < DedupWindow
\* Mutant: every level has one attempt, whatever its policy says.
BudgetSpentAtOnce == attempts[level] >= 1
BudgetSpent == attempts[level] >= MaxAttempts[ActionOf(level)]
\* Mutant: the budget is looked at before the cooldown.
InCooldownAfterBudget == ~BudgetSpent /\ age[level] < Cooldown[ActionOf(level)]
InCooldown == age[level] < Cooldown[ActionOf(level)]
MayAct == ~IsExhausted /\ ~InDedup /\ ~InCooldown

\* Mutant: the state before the attempt is saved.
SaveStale(lv, at, ag) == saved' = [level |-> lv, attempts |-> attempts, age |-> age]

\* save_ladder_state is best effort: on an OSError the old file stays.
Save(lv, at, ag) ==
    \/ saved' = [level |-> lv, attempts |-> at, age |-> ag]
    \/ StorageFaults /\ UNCHANGED saved

Holds(t, p) == holder = t /\ phase = p
\* Leaving escalate() or reset(): the lock is free, the locals are gone.
Release == phase' = "free" /\ holder' = NoThread /\ execAge' = 0 /\ reboots' = 0
Unmoved == UNCHANGED <<up, hostAge, procAge>>
OnlyLockMoves ==
    Unmoved /\ UNCHANGED <<level, attempts, age, escAge, execAge, reboots, diskVars, historyVars>>

\* escalate(): take _lock.
Acquire(t) ==
    /\ up /\ phase = "free"
    /\ phase' = "deciding" /\ holder' = t
    /\ OnlyLockMoves

\* "exhausted": the caller enters SAFE.
DecideExhausted(t) ==
    /\ Holds(t, "deciding") /\ IsExhausted
    /\ Release
    /\ Unmoved
    /\ UNCHANGED <<level, attempts, age, escAge, diskVars, historyVars>>

\* "skip_dedup" and "cooldown": nothing is consumed.
DecideWait(t) ==
    /\ Holds(t, "deciding") /\ ~IsExhausted /\ (InDedup \/ InCooldown)
    /\ Release
    /\ Unmoved
    /\ UNCHANGED <<level, attempts, age, escAge, diskVars, historyVars>>

\* "escalate": _escalate_to_next_locked, then the loop decides again.
DecideEscalate(t) ==
    /\ Holds(t, "deciding") /\ MayAct /\ BudgetSpent
    /\ level' = level + 1
    /\ Save(level + 1, attempts, age)
    /\ Unmoved
    /\ UNCHANGED <<attempts, age, escAge, phase, holder, execAge, reboots,
                   rebootCount, goingDown, historyVars>>

\* "execute": the attempt is counted and saved before the action starts.
DecideExecute(t) ==
    /\ Holds(t, "deciding") /\ MayAct /\ ~BudgetSpent
    /\ attempts' = [attempts EXCEPT ![level] = @ + 1]
    /\ age' = [age EXCEPT ![level] = 0]
    /\ escAge' = 0
    /\ Save(level, attempts', age')
    /\ phase' = "counted"
    /\ Unmoved
    /\ UNCHANGED <<level, holder, execAge, reboots, rebootCount, goingDown, historyVars>>

\* One more of the attempts or actions of the current level, in a history.
OneMore(h) == [h EXCEPT ![level] = CountTo(@, MaxAttempts[ActionOf(level)] + 1)]

\* _execute: the action of the level starts.  A process that dies before this
\* step has spent the attempt without acting.
BeginAction(t) ==
    /\ Holds(t, "counted")
    /\ phase' = "executing"
    /\ done' = OneMore(done)
    /\ lastExec' = level
    /\ sinceExec' = 0
    /\ Unmoved
    /\ UNCHANGED <<level, attempts, age, escAge, holder, execAge, reboots, diskVars, lost, issued>>

-----------------------------------------------------------------------------
(* RecoveryExecutor.execute.  Success and failure of a handler are the same *)
(* to the ladder: exceptions are caught, the attempt stays counted.         *)

Executing(t, acts) == Holds(t, "executing") /\ ActionOf(level) \in acts

\* retry_handle, restart_pipeline, restart_janus, usb_reset: done or failed.
FinishAction(t) ==
    /\ Executing(t, Actions \ {"reboot_node"})
    /\ Release
    /\ Unmoved
    /\ UNCHANGED <<level, attempts, age, escAge, diskVars, historyVars>>

\* _reboot_node, disabled by configuration or stopped by the circuit breaker.
RebootRefused(t) ==
    /\ Executing(t, {"reboot_node"})
    /\ ~RebootEnabled \/ rebootCount >= MaxFdirReboots
    /\ Release
    /\ Unmoved
    /\ UNCHANGED <<level, attempts, age, escAge, diskVars, historyVars>>

\* _reboot_node: count first, because a successful reboot does not return.
\* An OSError is only logged.
RebootCounted(t) ==
    /\ Executing(t, {"reboot_node"})
    /\ RebootEnabled /\ rebootCount < MaxFdirReboots
    /\ reboots' = rebootCount
    /\ \/ rebootCount' = rebootCount + 1
       \/ StorageFaults /\ UNCHANGED rebootCount
    /\ phase' = "rebooting"
    /\ Unmoved
    /\ UNCHANGED <<level, attempts, age, escAge, holder, execAge, saved, goingDown, historyVars>>

\* service-admin reboot returned, or timed out after it was accepted.
RebootAccepted(t) ==
    /\ Holds(t, "rebooting")
    /\ goingDown' = TRUE
    /\ issued' = CountTo(issued, MaxFdirReboots + 1)
    /\ Release
    /\ Unmoved
    /\ UNCHANGED <<level, attempts, age, escAge, saved, rebootCount,
                   done, lost, lastExec, sinceExec>>

\* service-admin reboot failed (RuntimeError): the counter is rolled back.
RebootFailed(t) ==
    /\ Holds(t, "rebooting")
    /\ \/ rebootCount' = reboots
       \/ StorageFaults /\ UNCHANGED rebootCount
    /\ Release
    /\ Unmoved
    /\ UNCHANGED <<level, attempts, age, escAge, saved, goingDown, historyVars>>

\* service-admin reboot timed out before it was accepted (TimeoutExpired is
\* not a RuntimeError): the counter stays.
RebootTimedOut(t) ==
    /\ Holds(t, "rebooting")
    /\ Release
    /\ Unmoved
    /\ UNCHANGED <<level, attempts, age, escAge, diskVars, historyVars>>

-----------------------------------------------------------------------------
\* reset(): back to the first level, in memory and on tmpfs.
Reset(t) ==
    /\ up /\ phase = "free"
    /\ level' = 1 /\ attempts' = None /\ age' = Never /\ escAge' = hostAge
    /\ Save(1, None, Never)
    /\ phase' = "resetting" /\ holder' = t
    /\ done' = None /\ lost' = None /\ lastExec' = 0 /\ sinceExec' = 0
    /\ Unmoved
    /\ UNCHANGED <<execAge, reboots, rebootCount, goingDown, issued>>

\* reset(), second half: the reboot counter is cleared only in a process that
\* has been up long enough.
ResetCounter(t) ==
    /\ Holds(t, "resetting")
    /\ \/ /\ procAge >= RebootCounterReset
          /\ rebootCount' = 0
          /\ issued' = 0
       \/ /\ procAge < RebootCounterReset \/ StorageFaults
          /\ UNCHANGED <<rebootCount, issued>>
    /\ Release
    /\ Unmoved
    /\ UNCHANGED <<level, attempts, age, escAge, saved, goingDown,
                   done, lost, lastExec, sinceExec>>

\* The memory of a process that is not running.
MemoryLost ==
    /\ level' = 1 /\ attempts' = None /\ age' = None /\ escAge' = 0
    /\ phase' = "free" /\ holder' = NoThread /\ execAge' = 0 /\ reboots' = 0
    /\ procAge' = 0

\* Mutant: the counter is kept where a restart loses it.
CountLostAtDeath == {0}

\* The counter file is truncated before it is rewritten: a process that dies
\* in between leaves an empty file, which reads as 0.
CountAfterDeath ==
    {rebootCount} \cup
        (IF /\ StorageFaults /\ phase \in {"executing", "rebooting"}
            /\ ActionOf(level) = "reboot_node"
            /\ phase = "executing" => RebootEnabled /\ rebootCount < MaxFdirReboots
         THEN {0} ELSE {})

\* The process dies: a crash, an OOM kill or systemctl restart, at any step.
Crash ==
    /\ up
    /\ up' = FALSE
    /\ MemoryLost
    /\ rebootCount' \in CountAfterDeath
    /\ lost' = IF phase = "counted" THEN OneMore(lost) ELSE lost
    /\ UNCHANGED <<hostAge, saved, goingDown, done, issued, lastExec, sinceExec>>

\* RecoveryLadder.__init__: load the file; with too many reboots behind it the
\* ladder starts exhausted (the file is not rewritten).
Start(t) ==
    /\ ~up
    /\ up' = TRUE
    /\ procAge' = 0
    /\ level' = IF rebootCount >= MaxFdirReboots THEN N + 1 ELSE saved.level
    /\ attempts' = saved.attempts
    /\ age' = saved.age
    /\ escAge' = hostAge
    /\ UNCHANGED <<hostAge, phase, holder, execAge, reboots, diskVars, historyVars>>

\* The node reboots, on the ladder's command or by a power cycle: the process
\* and the tmpfs are gone, the reboot counter is not.
Boot ==
    /\ up' = FALSE
    /\ MemoryLost
    /\ hostAge' = 0
    /\ saved' = NoFile
    /\ rebootCount' \in CountAfterDeath
    /\ goingDown' = FALSE
    /\ done' = None /\ lost' = None /\ lastExec' = 0 /\ sinceExec' = 0
    /\ UNCHANGED issued

\* A unit of time.  A subprocess does not run past its timeout; the save on
\* tmpfs and the start of the action take no unit of time.
LadderTick ==
    /\ phase # "counted"
    /\ phase \in {"executing", "rebooting"} =>
           execAge < CmdTimeout[ActionOf(level)]
    /\ hostAge' = Older(hostAge)
    /\ procAge' = IF up /\ procAge < RebootCounterReset THEN procAge + 1 ELSE procAge
    /\ age' = IF up THEN [i \in Idx |-> Older(age[i])] ELSE age
    /\ escAge' = IF up THEN Older(escAge) ELSE escAge
    /\ execAge' = IF phase \in {"executing", "rebooting"} THEN execAge + 1 ELSE execAge
    /\ saved' = [level |-> saved.level, attempts |-> saved.attempts,
                 age |-> [i \in Idx |-> Older(saved.age[i])]]
    /\ sinceExec' = Older(sinceExec)
    /\ UNCHANGED <<up, level, attempts, phase, holder, reboots, rebootCount, goingDown,
                   done, lost, issued, lastExec>>

EscalateStep(t) ==
    \/ Acquire(t)
    \/ DecideExhausted(t)
    \/ DecideWait(t)
    \/ DecideEscalate(t)
    \/ DecideExecute(t)
    \/ BeginAction(t)
    \/ FinishAction(t)
    \/ RebootRefused(t)
    \/ RebootCounted(t)
    \/ RebootAccepted(t)
    \/ RebootFailed(t)
    \/ RebootTimedOut(t)

LadderNext ==
    \/ \E t \in Threads : EscalateStep(t) \/ Reset(t) \/ ResetCounter(t) \/ Start(t)
    \/ Crash
    \/ Boot
    \/ LadderTick

LadderSpec == LadderInit /\ [][LadderNext]_ladderVars

-----------------------------------------------------------------------------
SavedState == [level : 1..(N + 1), attempts : [Idx -> Nat], age : [Idx -> 0..AgeCap]]

LadderTypeOK ==
    /\ up \in BOOLEAN
    /\ hostAge \in 0..AgeCap /\ procAge \in 0..RebootCounterReset
    /\ level \in 1..(N + 1)
    /\ attempts \in [Idx -> Nat]
    /\ age \in [Idx -> 0..AgeCap]
    /\ escAge \in 0..AgeCap
    /\ phase \in Phases
    /\ holder \in Threads \cup {NoThread}
    /\ execAge \in 0..AgeCap
    /\ reboots \in Nat
    /\ saved \in SavedState
    /\ rebootCount \in Nat
    /\ goingDown \in BOOLEAN
    /\ done \in [Idx -> Nat] /\ lost \in [Idx -> Nat]
    /\ issued \in Nat
    /\ lastExec \in 0..N
    /\ sinceExec \in 0..AgeCap

Budget(i) == MaxAttempts[ActionOf(i)]

\* "Each level has a bounded attempt count" (recovery_ladder.py): between two
\* resets no action is executed more often than its budget, however often the
\* process crashes, even in the middle of an action.
BudgetsSurviveCrashes ==
    ~StorageFaults => \A i \in Idx : done[i] =< Budget(i)

\* The node is rebooted only as the last resort: when the reboot command is
\* about to run, the action of every earlier level was started as often as its
\* budget allows since the last reset or boot, except for one time for every
\* process that died between the save of an attempt and the start of its action.
RebootIsLastResort ==
    ~StorageFaults /\ phase = "rebooting" =>
        \A i \in 1..(N - 1) : done[i] + lost[i] = Budget(i)

\* The circuit breaker: no more than MaxFdirReboots reboots are commanded
\* between two clearings of the counter, whatever crashes in between, on a disk
\* whose counter file is neither unwritable nor torn.
RebootsBounded == ~StorageFaults => issued =< MaxFdirReboots

\* The cooldown of an executed level is kept by every later execution, of the
\* same or of a higher level, in the same or in a restarted process, until the
\* ladder is reset.
CooldownKept ==
    [][~StorageFaults /\ done' # done /\ lastExec' # 0 /\ lastExec # 0 =>
           sinceExec >= Cooldown[ActionOf(lastExec)]]_ladderVars

=============================================================================
