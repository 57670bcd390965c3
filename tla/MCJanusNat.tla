----------------------------- MODULE MCJanusNat -----------------------------
(***************************************************************************)
(* Two updates (one brings a password and an enforce list, the other keeps *)
(* the stored password), a rotation, an address update, one render of the  *)
(* console, one day and one fault: the smallest instance in which an       *)
(* update meets the other writers between its patch and its restart, and   *)
(* a second update follows a failed one.                                   *)
(***************************************************************************)
EXTENDS JanusNat, TLC

MCBodies ==
    {[user |-> 2, pwd |-> 2, map |-> NoMap, enforce |-> "eth"],
     [user |-> 2, pwd |-> 0, map |-> NoMap, enforce |-> NoEnforce]}

Sym == Permutations(Posts)

=============================================================================
