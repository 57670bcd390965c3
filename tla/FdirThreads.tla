---------------------------- MODULE FdirThreads ----------------------------
(***************************************************************************)
(* The threads of the control-plane process (app/core/events.py starts     *)
(* them) that the FDIR components share: the Janus watchdog thread, the    *)
(* event loop with the snapshot watchdog, the thermal thread and the       *)
(* worker thread of an admin request.                                      *)
(***************************************************************************)
EXTENDS FiniteSets

CONSTANT Threads

ASSUME ThreadsFinite == IsFiniteSet(Threads)
=============================================================================
