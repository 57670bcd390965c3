--------------------------- MODULE MCRuntimeConfig ---------------------------
(***************************************************************************)
(* Two threads that apply, a request that reads the settings, and the      *)
(* patches, edits and bounds of RuntimeConfig for TLC.                     *)
(***************************************************************************)
EXTENDS RuntimeConfig

NoPatch == [ice |-> "unset", ttl |-> 0, extra |-> "none"]
MCPatches ==
    {[NoPatch EXCEPT !.ice = "all"], [NoPatch EXCEPT !.ice = "relay", !.ttl = 300],
     [NoPatch EXCEPT !.extra = "color_fps"]}
MCEdits ==
    {[Seeded EXCEPT !.env = [ice |-> "all", ttl |-> 4000]], [Seeded EXCEPT !.foreign = TRUE],
     [Seeded EXCEPT !.env.ice = "typo", !.canon = TRUE]}
MCSymmetry == Permutations(Threads) \cup Permutations(Readers)
=============================================================================
