---------------------------- MODULE ModeEnforcer ----------------------------
(***************************************************************************)
(* The listener that enforces a mode (app/services/mode_enforcer.py): it   *)
(* writes or clears the fps profile, asks encoder-admin whether the        *)
(* encoder is active and stops, restarts or starts it.  Each of these is a *)
(* step of its own: every one is a file write or a subprocess, and nothing *)
(* keeps the steps of two threads apart.                                   *)
(*                                                                         *)
(* encoder-admin is external: `active` is the unit state it reports.       *)
(* _persist_history (a diagnostic ring file) and the events are left out.  *)
(***************************************************************************)
EXTENDS SystemMode

CONSTANT
    CmdFaults   \* may sudo/encoder-admin fail or time out, and may the
                \* profile file be unwritable?

ASSUME CmdFaultsBoolean == CmdFaults \in BOOLEAN

VARIABLES
    active,     \* is the encoder unit active
    profile,    \* the fps_profile file; "none" when there is no file
    overlapped  \* history: a mode changed while a listener was running

enforcerVars == <<active, profile, overlapped>>

Profiles == {"none", "low", "local", "normal", "stop"}

EnforcerInit ==
    /\ ModeInit
    /\ active = TRUE
    /\ profile = "none"
    /\ overlapped = FALSE

-----------------------------------------------------------------------------
\* The mode it came from is read in the first step only, and dropped after it.
Goto(t, pc) ==
    callback' = [callback EXCEPT ![t] =
                    IF pc = "idle" THEN NoCallback
                    ELSE [pc |-> pc, from |-> "NOMINAL", to |-> @.to]]
At(t, pc) == callback[t].pc = pc
ModeKept == UNCHANGED <<mode, modeAge>>

\* MODE_POLICIES[m].streams_enabled
StreamsEnabled(m) == m # "SAFE"

\* The profile the listener leaves behind for a mode that sets one.
ProfileOf == [m \in Modes \ {"SAFE"} |-> CASE m = "NOMINAL"    -> "none"
                                           [] m = "DEGRADED"   -> "low"
                                           [] m = "LOCAL_ONLY" -> "local"]

\* _on_mode_transition up to the first look at the service.  SAFE leaves the
\* profile alone; NOMINAL out of SAFE needs no restart, only a running unit.
EnforceProfile(t) ==
    LET to == callback[t].to IN
    /\ At(t, "profile")
    /\ \/ /\ to = "SAFE"
          /\ UNCHANGED profile
          /\ Goto(t, "probe")
       \/ /\ to # "SAFE"
          /\ \/ profile' = ProfileOf[to]
             \/ CmdFaults /\ UNCHANGED profile
          /\ Goto(t, IF to = "NOMINAL" /\ callback[t].from = "SAFE"
                     THEN "ensure" ELSE "probe")
    /\ ModeKept /\ UNCHANGED <<active, overlapped>>

\* _is_service_active(): any failure reads as "not active".
ServiceSeen == {active} \cup (IF CmdFaults THEN {FALSE} ELSE {})

\* Mutant: a stopped encoder is not started for a mode that publishes streams.
EnforceProbeOnlyRestarts(t) ==
    /\ At(t, "probe")
    /\ \E seen \in ServiceSeen :
         Goto(t, IF ~seen THEN "idle"
                 ELSE IF callback[t].to = "SAFE" THEN "stop" ELSE "restart")
    /\ ModeKept /\ UNCHANGED enforcerVars

\* The look that decides between stop / restart and leaving or starting.
EnforceProbe(t) ==
    /\ At(t, "probe")
    /\ \E seen \in ServiceSeen :
         Goto(t, CASE callback[t].to = "SAFE" -> IF seen THEN "stop" ELSE "idle"
                   [] OTHER                   -> IF seen THEN "restart" ELSE "ensure")
    /\ ModeKept /\ UNCHANGED enforcerVars

\* _ensure_pipeline_running looks again before it starts the unit.
EnforceEnsure(t) ==
    /\ At(t, "ensure")
    /\ \E seen \in ServiceSeen : Goto(t, IF seen THEN "idle" ELSE "start")
    /\ ModeKept /\ UNCHANGED enforcerVars

\* encoder-admin stop | restart | start.  A failure or a timeout is logged
\* and leaves the unit as it was or (a restart) stopped.
EnforceCommand(t) ==
    /\ callback[t].pc \in {"stop", "restart", "start"}
    /\ \/ active' = ~At(t, "stop")
       \/ /\ CmdFaults
          /\ \/ UNCHANGED active
             \/ At(t, "restart") /\ active' = FALSE
    /\ Goto(t, "idle")
    /\ ModeKept /\ UNCHANGED <<profile, overlapped>>

EnforceStep(t) ==
    \/ EnforceProfile(t)
    \/ EnforceProbe(t)
    \/ EnforceEnsure(t)
    \/ EnforceCommand(t)

\* History only: a change made while another thread's listener still runs is
\* overlapped; a change made while none runs enforces afresh.
NoteOverlap(t) ==
    overlapped' = IF mode' = mode THEN overlapped
                  ELSE \E u \in Threads \ {t} : ~Quiet(u)

\* A thread that is not inside a listener changes the mode: the watchdogs and
\* the ladder transition to SAFE, degrade, and promote to NOMINAL; an admin
\* (routes/fdir.py force_mode) transitions anywhere.
ChangeMode(t) ==
    /\ Quiet(t)
    /\ \/ \E m \in Modes : Transition(t, m)
       \/ Degrade(t)
       \/ Promote(t, "NOMINAL")
    /\ NoteOverlap(t)
    /\ UNCHANGED <<active, profile>>

EnforcerNext ==
    \E t \in Threads : ChangeMode(t) \/ EnforceStep(t)

EnforcerSpec ==
    /\ EnforcerInit
    /\ [][EnforcerNext]_<<modeVars, enforcerVars>>

-----------------------------------------------------------------------------
EnforcerTypeOK ==
    /\ ModeTypeOK
    /\ active \in BOOLEAN
    /\ profile \in Profiles
    /\ overlapped \in BOOLEAN

AllQuiet == \A t \in Threads : Quiet(t)

\* The world agrees with the mode: the encoder runs exactly in the modes that
\* publish streams, with the fps profile of the mode.
Enforced ==
    /\ active <=> StreamsEnabled(mode)
    /\ mode # "SAFE" => profile = ProfileOf[mode]

\* When the commands work and mode changes come one after the other, each
\* enforced before the next is made, the encoder and the profile end up as
\* the current mode demands, whatever the chain of modes was.
EnforcedWhenSerial == ~CmdFaults /\ ~overlapped /\ AllQuiet => Enforced

\* mode_enforcer.py:4 "SAFE mode: stop the camera pipeline service
\* (safety-critical halt)": in SAFE, once every listener has run and every
\* command worked, the pipeline is stopped.
SafeMeansStopped == AllQuiet /\ mode = "SAFE" => ~active
=============================================================================
