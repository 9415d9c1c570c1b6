--------------------------- MODULE MCHostRenewal ---------------------------
(* Small instances of HostRenewal. *)
EXTENDS HostRenewal, TLC

Symmetry == Permutations(Places) \cup Permutations(NameSets)
=============================================================================
