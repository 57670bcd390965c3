--------------------------- MODULE MCDepthQueries ---------------------------
(***************************************************************************)
(* TLC instance of DepthQueries: the depth_query topic with its rate       *)
(* limit, an application's topic that drops duplicate time stamps, and one *)
(* that sets neither.                                                      *)
(***************************************************************************)
EXTENDS DepthQueries, TLC

CONSTANTS s1, s2

MCSessions == {s1, s2}
MCTopics == {"depth_query", "app", "plain"}
MCLimited == {"depth_query"}
MCDeduped == {"app"}
MCAnswering == {"depth_query"}
MCStamps == {1}
SessionSymmetry == Permutations(MCSessions)
=============================================================================
