--------------------------- MODULE MCRemoteStreams --------------------------
(* The streams of remote nodes, model-checked.                             *)
EXTENDS RemoteStreams
=============================================================================
