---------------------------- MODULE MCPageParts ----------------------------
(***************************************************************************)
(* The two machines behind a page in the browser, each on its own: the     *)
(* depth queries of its sessions and the player.  Which of them runs is    *)
(* chosen in the initial state, the other stays as it starts: neither      *)
(* reads a state of the other.                                             *)
(*                                                                         *)
(* The player has two generations, so that everything of the first can be  *)
(* late in the second, and two reconnect runs at a time, so that an        *)
(* attempt can overlap the one that replaced it.  Neither the sessions nor *)
(* the places for the runs can be told apart; the same two values serve as *)
(* both, so that one exchange of them covers either machine.               *)
(***************************************************************************)
EXTENDS MCDepthQueries, Player

VARIABLE part   \* the machine that runs

MCSlots == MCSessions

PartsInit == part \in {"depth", "player"} /\ DepthInit /\ PlayerInit

PartsNext ==
    \/ part = "depth" /\ DepthNext /\ UNCHANGED <<part, playerVars>>
    \/ part = "player" /\ PlayerNext /\ UNCHANGED <<part, depthVars>>

PartsSpec == PartsInit /\ [][PartsNext]_<<part, depthVars, playerVars>>
=============================================================================
