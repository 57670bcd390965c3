------------------------- MODULE MCGatewayParts -------------------------
(***************************************************************************)
(* The state machines of the gateway that are checked on their own: the    *)
(* recovery ladder, the mode enforcer, the quiesce gate and the streams of *)
(* the gateway's sensors.  Which of them runs is chosen in the initial     *)
(* state, the others stay as they start: no state of one is read by        *)
(* another (module Fdir composes the first three).                         *)
(*                                                                         *)
(* The ladder's policies are small: the order and the number of levels are *)
(* those of the code, attempts and durations are scaled down.  As in the   *)
(* code, restart_pipeline has the largest budget, reboot_node the longest  *)
(* cooldown, and the timeout of restart_pipeline equals its cooldown.  One *)
(* of the windows asked of the quiesce gate is longer than its ceiling.    *)
(* Neither the threads nor the dynamic sensors can be told apart; only the *)
(* latter are declared symmetric, which keeps the group of permutations    *)
(* small.                                                                  *)
(***************************************************************************)
EXTENDS RecoveryLadder, ModeEnforcer, FdirQuiesce, LocalStreams

VARIABLE part   \* the machine that runs

MCAttempts == [a \in Actions |-> CASE a = "restart_pipeline" -> 3
                                   [] a = "usb_reset"        -> 2
                                   [] OTHER                  -> 1]
MCCooldown == [a \in Actions |-> CASE a = "retry_handle"     -> 1
                                   [] a = "restart_pipeline" -> 2
                                   [] a = "reboot_node"      -> 4
                                   [] OTHER                  -> 3]
MCTimeout == [a \in Actions |-> CASE a = "restart_pipeline" -> 2
                                  [] a = "restart_janus"    -> 2
                                  [] a = "usb_reset"        -> 3
                                  [] OTHER                  -> 1]
SensorSymmetry == Permutations(Sensors)

Others(p) ==
    /\ p # "ladder" => UNCHANGED ladderVars
    /\ p # "enforcer" => UNCHANGED <<modeVars, enforcerVars>>
    /\ p # "gate" => UNCHANGED quiesceVars
    /\ p # "streams" => UNCHANGED localVars

\* The node after the first boot has seeded color, an administrator has switched
\* sensor s on, and the node was rebooted; the bounds count from here.
SwitchedOn(s) ==
    /\ JustBooted
    /\ alloc = (LegacyColor :> [mp |-> ColorMp, port |-> ColorPort, desired |-> TRUE]
                @@ <<Serial, s>> :> [mp |-> MpIdMin, port |-> PortMin, desired |-> TRUE])
    /\ contract = [x \in AllSensors |-> CASE x = "color" -> ColorPort
                                          [] x = s       -> PortMin
                                          [] OTHER       -> 0]

PartsInit ==
    /\ part \in {"ladder", "enforcer", "gate", "streams"}
    /\ LadderInit /\ EnforcerInit /\ QuiesceInit
    /\ LocalInit \/ (part = "streams" /\ \E s \in Sensors : SwitchedOn(s))

PartsNext ==
    \/ part = "ladder" /\ LadderNext /\ Others("ladder") /\ UNCHANGED part
    \/ part = "enforcer" /\ EnforcerNext /\ Others("enforcer") /\ UNCHANGED part
    \/ part = "gate" /\ QuiesceNext /\ Others("gate") /\ UNCHANGED part
    \/ part = "streams" /\ LocalNext /\ Others("streams") /\ UNCHANGED part

PartsSpec ==
    PartsInit /\ [][PartsNext]_<<part, ladderVars, modeVars, enforcerVars, quiesceVars, localVars>>
=============================================================================
