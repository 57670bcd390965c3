-------------------------- MODULE MCNodeOperations --------------------------
(* Operations on camera nodes, model-checked.                              *)
EXTENDS NodeOperations
=============================================================================
