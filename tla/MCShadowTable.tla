----------------------------- MODULE MCShadowTable -----------------------------
(* Instances of ShadowTable for TLC. *)
EXTENDS ShadowTable, TLC

Symmetry == Permutations(Threads) \cup Permutations(Handles)
=============================================================================
