---------------------------- MODULE MCSharedSession ----------------------------
(***************************************************************************)
(* Instances of SharedSession for TLC.                                     *)
(***************************************************************************)
EXTENDS SharedSession, TLC

Permute == Permutations(Clients) \cup Permutations(Nodes)
===============================================================================
