--------------------------- MODULE MCCameraBringup ---------------------------
(* The bring-up layer of a camera host, model-checked.                     *)
EXTENDS CameraBringup
=============================================================================
