----------------------------- MODULE SystemMode -----------------------------
(***************************************************************************)
(* The system operating mode (app/services/system_mode.py).  A mode change *)
(* is made under the state lock, in one step.  Its listeners run AFTER the *)
(* lock is released, on the thread that made the change: between the two   *)
(* the other threads may change the mode again.  `callback` is the call of *)
(* the one registered listener, mode_enforcer, that a thread still has to  *)
(* run to its end (module ModeEnforcer gives its steps).                   *)
(***************************************************************************)
EXTENDS Integers, FdirThreads

CONSTANT
    SafeAutoReset   \* _SAFE_MODE_AUTO_RESET_SEC, the largest age compared

ASSUME SafeAutoResetNat == SafeAutoReset \in Nat

Modes == {"NOMINAL", "DEGRADED", "LOCAL_ONLY", "SAFE"}

\* SystemMode.level
ModeLevel ==
    [m \in Modes |-> CASE m = "NOMINAL"    -> 0
                       [] m = "DEGRADED"   -> 1
                       [] m = "LOCAL_ONLY" -> 2
                       [] m = "SAFE"       -> 3]

VARIABLES
    mode,       \* _state.current
    modeAge,    \* mode_uptime_sec(), counted in SAFE, where it is read
    callback    \* per thread: the listener call it is in

modeVars == <<mode, modeAge, callback>>

\* The steps of the listener; a thread at "idle" is in no call.
CallbackSteps == {"idle", "profile", "probe", "ensure", "stop", "restart", "start"}
NoCallback == [pc |-> "idle", from |-> "NOMINAL", to |-> "NOMINAL"]
Quiet(t) == callback[t] = NoCallback

ModeInit ==
    /\ mode = "NOMINAL"
    /\ modeAge = 0
    /\ callback = [t \in Threads |-> NoCallback]

\* The locked part of every mode change, and the call of the listener.
SetMode(t, target) ==
    /\ mode' = target
    /\ modeAge' = 0
    /\ callback' = [callback EXCEPT ![t] =
                       [pc |-> "profile", from |-> mode, to |-> target]]

\* transition(target): no change, and no listener, when already there.
Transition(t, target) ==
    IF mode = target THEN UNCHANGED modeVars ELSE SetMode(t, target)

\* degrade(): one level down, saturating at SAFE.
OneDown == [m \in Modes |-> CASE m = "NOMINAL"    -> "DEGRADED"
                              [] m = "DEGRADED"   -> "LOCAL_ONLY"
                              [] m = "LOCAL_ONLY" -> "SAFE"
                              [] m = "SAFE"       -> "SAFE"]
Degrade(t) == Transition(t, OneDown[mode])

\* promote(target): only to a strictly better mode.
Promote(t, target) ==
    IF ModeLevel[target] >= ModeLevel[mode] THEN UNCHANGED modeVars
                                            ELSE SetMode(t, target)

ModeTick ==
    /\ modeAge' = IF mode = "SAFE" /\ modeAge < SafeAutoReset THEN modeAge + 1 ELSE modeAge
    /\ UNCHANGED <<mode, callback>>

\* The mode lives in memory: a new process starts NOMINAL, and the listener
\* calls of the old one are never finished.
ModeLost ==
    /\ mode' = "NOMINAL"
    /\ modeAge' = 0
    /\ callback' = [t \in Threads |-> NoCallback]

ModeTypeOK ==
    /\ mode \in Modes
    /\ modeAge \in 0..SafeAutoReset
    /\ callback \in [Threads -> [pc : CallbackSteps, from : Modes, to : Modes]]
=============================================================================
