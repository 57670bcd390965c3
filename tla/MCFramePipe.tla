---------------------------- MODULE MCFramePipe ----------------------------
(***************************************************************************)
(* TLC instance of FramePipe: frames of two pages, a pipe that holds       *)
(* three frames and a page, and one that holds none.                       *)
(***************************************************************************)
EXTENDS FramePipe

MCPage == 3
MCFrame == 6
MCBigSlots == 7
MCSmallSlots == 1
=============================================================================
